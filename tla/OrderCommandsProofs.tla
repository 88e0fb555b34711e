------------------------- MODULE OrderCommandsProofs -------------------------
(***************************************************************************)
(* Proofs about OrderCommands for every set of ids and terms, every number *)
(* of calls and faults and every size of the acknowledgement tracker.      *)
(***************************************************************************)
EXTENDS OrderCommands, TLAPS, SequenceTheorems

(* The connections are numbered, so that a new one is never soiled. *)
SessionInv ==
    /\ connected \in Nat /\ session \in 0 .. connected
    /\ soiled \subseteq 0 .. connected
    /\ NoSoiledSession

(* A step that leaves the session alone. *)
LEMMA SessionKept ==
    ASSUME SessionInv, UNCHANGED <<available, session, connected, soiled>>
    PROVE  SessionInv'
BY DEF SessionInv, NoSoiledSession

(* Connecting, giving the session up and failing on it. *)
LEMMA SessionChanged ==
    ASSUME SessionInv,
           \/ Connect /\ UNCHANGED soiled
           \/ Disconnect /\ UNCHANGED soiled
           \/ SessionFails
    PROVE  SessionInv'
<1>1. CASE Connect /\ UNCHANGED soiled
  BY <1>1 DEF Connect, SessionInv, NoSoiledSession
<1>2. CASE Disconnect /\ UNCHANGED soiled
  BY <1>2 DEF Disconnect, SessionInv, NoSoiledSession
<1>3. CASE SessionFails
  BY <1>3 DEF SessionFails, Disconnect, SessionInv, NoSoiledSession
<1> QED BY <1>1, <1>2, <1>3

(* The invariant of the session is inductive. *)
LEMMA SessionStep == SessionInv /\ [Next]_vars => SessionInv'
<1> SUFFICES ASSUME SessionInv, [Next]_vars PROVE SessionInv'
  OBVIOUS
<1> USE DEF sessionVars
<1>1. CASE Begins
  <2>1. UNCHANGED sessionVars
    BY <1>1 DEF Begins, PlaceOrder, MarketOrder, AmendOrder, CancelOrder, PlaceTriggerOrder,
       CancelAlgoOrder, PlaceSpotOco, AmendSpotOco, CancelSpotOco, Begin
  <2> QED BY <2>1, SessionKept
<1>2. CASE PrepareOrderCommandPath
  BY <1>2, SessionChanged DEF PrepareOrderCommandPath
<1>3. CASE EnsureSession
  BY <1>3, SessionChanged, SessionKept DEF EnsureSession
<1>4. CASE SendCommand
  BY <1>4, SessionChanged, SessionKept DEF SendCommand
<1>5. CASE NotSent \/ AckFails
  BY <1>5, SessionChanged DEF NotSent, AckFails
<1>6. CASE ReadAck
  BY <1>6, SessionChanged, SessionKept DEF ReadAck
<1>7. CASE NoInstIdCode \/ PreparePlace \/ PrepareAmend \/ PrepareCancel \/ RestSend \/ Dropped
  BY <1>7, SessionKept DEF NoInstIdCode, PreparePlace, PrepareAmend, PrepareCancel, RestSend,
     Dropped
<1>8. CASE OrderAnswers \/ AlgoAnswers \/ RestFails \/ Check
  BY <1>8, SessionKept DEF OrderAnswers, AlgoAnswers, RestFails, Answered, Check
<1>9. CASE Repeated \/ (\E r \in wire : Execute(r) \/ Lost(r)) \/ (\E id \in Ids : Finishes(id))
  BY <1>9, SessionKept DEF Repeated, Execute, Lost, Finishes
<1>10. CASE UNCHANGED vars
  BY <1>10, SessionKept DEF vars
<1> QED
  BY <1>1, <1>2, <1>3, <1>4, <1>5, <1>6, <1>7, <1>8, <1>9, <1>10 DEF Next, Step

(* No command is sent over a connection on which one failed before         *)
(* (mark_websocket_order_commands_unavailable).                            *)
THEOREM SessionsAreClean == Spec => []NoSoiledSession
<1>1. Init => SessionInv
  BY DEF Init, SessionInv, NoSoiledSession
<1>2. SessionInv => NoSoiledSession
  BY DEF SessionInv
<1> QED BY <1>1, <1>2, SessionStep, PTL DEF Spec

-----------------------------------------------------------------------------

OrderType == [state : {"none", "live", "done"}, placed : Terms \cup {"none"},
              terms : Terms \cup {"none"}, by : Nat]
RequestType == [via : {"ws", "rest"}, call : Nat \ {0}, op : Ops, id : Ids,
                terms : Terms \cup {"none"}, session : Nat]

(* What OwnershipInv needs of the types. *)
CallInv ==
    /\ calls \in Nat /\ (pc # "idle" => calls # 0)
    /\ calls # 0 => /\ call.op \in Ops /\ call.id \in Ids /\ call.terms \in Terms \cup {"none"}
    /\ orders \in [Ids -> OrderType] /\ wire \subseteq RequestType

(* All requests and the order of one call have one client id, and those of *)
(* the call at hand have its id.                                           *)
OwnershipInv ==
    /\ \A r \in wire : r.call <= calls /\ (r.call = calls => r.id = call.id)
    /\ \A a \in Ids : orders[a].by <= calls /\ (orders[a].by = calls /\ calls # 0 => a = call.id)
    /\ \A r, q \in wire : r.call = q.call => r.id = q.id
    /\ \A r \in wire, a \in Ids : orders[a].by = r.call => a = r.id
    /\ OneOrderPerCall

(* A step that neither begins a call nor sends one nor changes an order. *)
LEMMA OwnershipKept ==
    ASSUME CallInv, OwnershipInv, SessionInv,
           UNCHANGED <<call, calls>>, pc' # "idle" => pc # "idle",
           orders' = orders, wire' \subseteq wire
    PROVE  CallInv' /\ OwnershipInv'
BY DEF CallInv, OwnershipInv, OneOrderPerCall, Ids

(* A request of the call at hand carries its id. *)
LEMMA RequestSent ==
    ASSUME CallInv, OwnershipInv, SessionInv, NEW via \in {"ws", "rest"}, pc # "idle",
           UNCHANGED <<call, calls, orders>>,
           wire' = wire \cup {Request(via, call.id)}
    PROVE  CallInv' /\ OwnershipInv'
<1> DEFINE r == Request(via, call.id)
<1>1. r \in RequestType /\ r.call = calls /\ r.id = call.id /\ calls # 0
  BY DEF Request, RequestType, CallInv, SessionInv
<1>2. CallInv'
  BY <1>1 DEF CallInv, Ids
<1> HIDE DEF r
<1>3. wire' = wire \cup {r}
  BY DEF r
<1>4. \A q \in wire' : q.call <= calls /\ (q.call = calls => q.id = call.id)
  BY <1>1, <1>3 DEF OwnershipInv, CallInv
<1>5. \A q, t \in wire' : q.call = t.call => q.id = t.id
  BY <1>1, <1>3, <1>4 DEF OwnershipInv
<1>6. \A q \in wire', a \in Ids : orders[a].by = q.call => a = q.id
  BY <1>1, <1>3 DEF OwnershipInv
<1> QED
  BY <1>2, <1>4, <1>5, <1>6 DEF OwnershipInv, OneOrderPerCall, Ids

(* What OKX makes of a request: an order of the call, or one it had. *)
LEMMA RequestExecuted ==
    ASSUME CallInv, OwnershipInv, SessionInv, NEW r \in wire, Execute(r)
    PROVE  CallInv' /\ OwnershipInv'
<1>1. /\ r \in RequestType /\ orders \in [Ids -> OrderType] /\ r.id \in Ids
      /\ UNCHANGED <<pc, call, calls>> /\ wire' = wire \ {r}
  BY DEF CallInv, Execute, RequestType
<1>2. CASE orders' = orders
  BY <1>1, <1>2, OwnershipKept
<1>3. CASE orders' = [orders EXCEPT ![r.id] = Effect(r)]
  <2>1. Effect(r) \in OrderType /\ Effect(r).by \in {r.call, orders[r.id].by}
    <3>1. orders[r.id] \in OrderType
      BY <1>1
    <3>2. CASE Creates(r.op)
      BY <1>1, <3>2 DEF Effect, OrderType, RequestType
    <3>3. CASE ~Creates(r.op) /\ Closes(r.op)
      <4>1. Effect(r) = [orders[r.id] EXCEPT !.state = "done"]
        BY <3>3 DEF Effect, Creates, Closes
      <4> QED BY <3>1, <4>1 DEF OrderType
    <3>4. CASE ~Creates(r.op) /\ ~Closes(r.op)
      <4>1. Effect(r) = [orders[r.id] EXCEPT !.terms = r.terms]
        BY <3>4 DEF Effect
      <4> QED BY <1>1, <3>1, <4>1 DEF OrderType, RequestType
    <3> QED BY <3>2, <3>3, <3>4
  <2>2. CallInv'
    BY <1>1, <1>3, <2>1 DEF CallInv, Ids
  <2>3. \A a \in Ids : \/ orders'[a].by = orders[a].by
                       \/ a = r.id /\ orders'[a].by = r.call
    BY <1>1, <1>3, <2>1
  <2>4. \A a \in Ids : orders'[a].by <= calls /\ (orders'[a].by = calls /\ calls # 0 => a = call.id)
    BY <2>3 DEF OwnershipInv
  <2>5. \A q \in wire, a \in Ids : orders'[a].by = q.call => a = q.id
    BY <2>3 DEF OwnershipInv
  <2>6. OneOrderPerCall'
    BY <2>3 DEF OwnershipInv, OneOrderPerCall, Ids
  <2> QED BY <1>1, <2>2, <2>4, <2>5, <2>6 DEF OwnershipInv, Ids
<1> QED BY <1>2, <1>3 DEF Execute

(* The invariant of the ownership is inductive. *)
LEMMA OwnershipStep ==
    CallInv /\ OwnershipInv /\ SessionInv /\ [Next]_vars => CallInv' /\ OwnershipInv'
<1> SUFFICES ASSUME CallInv, OwnershipInv, SessionInv, [Next]_vars
             PROVE  CallInv' /\ OwnershipInv'
  OBVIOUS
<1> USE DEF sessionVars, okxVars, Goes, Return
<1>1. CASE Begins
  <2>1. PICK op \in Ops, id \in Ids, terms \in Terms \cup {"none"}, place \in {"ensure", "rest"} :
             Begin(op, id, terms, place)
    BY <1>1 DEF Begins, PlaceOrder, MarketOrder, AmendOrder, CancelOrder, PlaceTriggerOrder,
       CancelAlgoOrder, PlaceSpotOco, AmendSpotOco, CancelSpotOco, Ops, Ids
  <2>2. /\ calls' = calls + 1 /\ orders' = orders /\ wire' = wire
        /\ call' = [op |-> op, id |-> id, terms |-> terms]
    BY <2>1 DEF Begin
  <2>3. CallInv'
    BY <2>2 DEF CallInv, Ids
  <2>4. calls \in Nat /\ \A r \in wire : r.call \in Nat
    BY DEF CallInv, RequestType
  <2>5. \A a \in Ids : orders[a].by \in Nat
    BY DEF CallInv, OrderType
  <2> QED BY <2>2, <2>3, <2>4, <2>5 DEF OwnershipInv, OneOrderPerCall, Ids
<1>2. CASE PrepareOrderCommandPath \/ Dropped \/ Repeated
  BY <1>2, OwnershipKept DEF PrepareOrderCommandPath, Dropped, Repeated
<1>3. CASE EnsureSession \/ NoInstIdCode \/ PreparePlace \/ PrepareAmend \/ PrepareCancel
  BY <1>3, OwnershipKept DEF EnsureSession, NoInstIdCode, PreparePlace, PrepareAmend, PrepareCancel
<1>4. CASE SendCommand
  BY <1>4, OwnershipKept, RequestSent DEF SendCommand
<1>5. CASE NotSent
  BY <1>5, OwnershipKept, RequestSent DEF NotSent
<1>6. CASE ReadAck \/ AckFails
  BY <1>6, OwnershipKept DEF ReadAck, AckFails, AfterAmbiguous
<1>7. CASE RestSend
  BY <1>7, OwnershipKept, RequestSent DEF RestSend, RestId
<1>8. CASE OrderAnswers \/ AlgoAnswers \/ RestFails \/ Check
  BY <1>8, OwnershipKept DEF OrderAnswers, AlgoAnswers, RestFails, Answered, Check
<1>9. CASE \E r \in wire : Execute(r)
  BY <1>9, RequestExecuted
<1>10. CASE \E r \in wire : Lost(r)
  BY <1>10, OwnershipKept DEF Lost
<1>11. ASSUME NEW id \in Ids, Finishes(id)
       PROVE  CallInv' /\ OwnershipInv'
  <2>1. orders' = [orders EXCEPT ![id].state = "done"] /\ UNCHANGED <<pc, call, calls, wire>>
    BY <1>11 DEF Finishes
  <2>2. /\ orders' \in [Ids -> OrderType]
        /\ \A a \in Ids : orders'[a].by = orders[a].by
    BY <2>1 DEF CallInv, OrderType
  <2> QED BY <2>1, <2>2 DEF CallInv, OwnershipInv, OneOrderPerCall, Ids
<1>12. CASE UNCHANGED vars
  BY <1>12, OwnershipKept DEF vars
<1> QED
  BY <1>1, <1>2, <1>3, <1>4, <1>5, <1>6, <1>7, <1>8, <1>9, <1>10, <1>11, <1>12 DEF Next, Step

(* A call puts at most one order on OKX, although it may be sent over the  *)
(* WebSocket and again over REST, and either request may arrive late       *)
(* (place_order of OkxTradingClient, private_order_mutation_request).      *)
THEOREM CallsOwnOneOrder == Spec => []OneOrderPerCall
<1>1. Init => SessionInv
  BY DEF Init, SessionInv, NoSoiledSession
<1>2. Init => CallInv /\ OwnershipInv
  <2> SUFFICES ASSUME Init PROVE CallInv /\ OwnershipInv
    OBVIOUS
  <2>1. orders \in [Ids -> OrderType] /\ \A a \in Ids : orders[a].by = 0
    BY DEF Init, NoOrder, OrderType
  <2> QED BY <2>1 DEF Init, CallInv, OwnershipInv, OneOrderPerCall
<1>3. OwnershipInv => OneOrderPerCall
  BY DEF OwnershipInv
<1> QED BY <1>1, <1>2, <1>3, SessionStep, OwnershipStep, PTL DEF Spec

-----------------------------------------------------------------------------
(* What a call that says ok has done.                                      *)

AckType == [id : Nat, ok : BOOLEAN]

(* OKX accepted a request of the call at hand. *)
Carried ==
    CASE Creates(call.op) -> /\ orders[call.id].state # "none"
                             /\ orders[call.id].placed = call.terms
      [] Amends(call.op)  -> calls \in accepted
      [] OTHER            -> orders[call.id].state = "done"

(* Every good answer to the call at hand is about what it asked for. *)
AckInv ==
    /\ inbox \in Seq(AckType)
    /\ \A i \in 1 .. Len(inbox) :
          /\ inbox[i].id \in 1 .. calls
          /\ inbox[i].ok /\ inbox[i].id = calls => Carried
ReplyInv ==
    /\ reply = "ok" => Carried
    /\ reply # "none" => pc \in {"answer", "check"}

(* The requests of the call at hand, and the steps it goes through. *)
PathInv ==
    /\ \A r \in wire : r.call = calls => r.op = call.op /\ r.terms = call.terms
    /\ pc \in {"ensure", "prepare", "send", "ack"} => call.op \in {"place", "cancel", "amend"}
    /\ pc = "check" => call.op # "amendOco"

(* No placement of a settled id is under way or about to be. *)
SettledInv ==
    \A id \in settled :
        /\ id \in Ids /\ orders[id].state # "live" /\ ~UnderWay(id)
        /\ pc # "idle" /\ Creates(call.op) => call.id # id

(* What OKX never takes back. *)
OrdersKeep ==
    /\ \A id \in Ids :
          /\ orders[id].state # "none" => /\ orders'[id].state # "none"
                                         /\ orders'[id].placed = orders[id].placed
          /\ orders[id].state = "done" => orders'[id].state = "done"
    /\ accepted \subseteq accepted'

(* What was carried out stays so. *)
LEMMA CarriedStays ==
    ASSUME OrdersKeep, call.id \in Ids, UNCHANGED <<call, calls>>, Carried
    PROVE  Carried'
BY DEF OrdersKeep, Carried

(* An order that is executed by OKX, as far as OKX accepts it. *)
LEMMA ExecuteKeeps ==
    ASSUME CallInv, NEW r \in wire, Execute(r)
    PROVE  /\ OrdersKeep
           /\ \A id \in Ids : orders'[id].state = "live" =>
                 orders[id].state = "live" \/ (id = r.id /\ Creates(r.op))
<1>1. /\ r \in RequestType /\ orders \in [Ids -> OrderType] /\ r.id \in Ids /\ r.op \in Ops
      /\ orders[r.id] \in OrderType /\ orders[r.id].state \in {"none", "live", "done"}
  BY DEF CallInv, RequestType, OrderType
<1>2. PICK v \in Verdicts(r) :
          /\ orders' = IF v = "ok" THEN [orders EXCEPT ![r.id] = Effect(r)] ELSE orders
          /\ accepted' = IF v = "ok" THEN accepted \cup {r.call} ELSE accepted
  BY DEF Execute
<1>3. CASE v # "ok"
  BY <1>2, <1>3 DEF OrdersKeep
<1>4. CASE v = "ok"
  <2>1. /\ orders' = [orders EXCEPT ![r.id] = Effect(r)]
        /\ accepted \subseteq accepted'
    BY <1>2, <1>4
  <2>2. /\ orders'[r.id] = Effect(r)
        /\ \A id \in Ids \ {r.id} : orders'[id] = orders[id]
    BY <1>1, <2>1
  <2>3. CASE Creates(r.op)
    <3>1. orders[r.id].state = "none"
      BY <1>2, <1>4, <2>3 DEF Verdicts, Creates, Closes
    <3> QED BY <2>1, <2>2, <2>3, <3>1 DEF OrdersKeep
  <2>4. CASE ~Creates(r.op) /\ Closes(r.op)
    <3>1. orders[r.id].state = "live"
      BY <1>2, <1>4, <2>4 DEF Verdicts
    <3>2. Effect(r) = [orders[r.id] EXCEPT !.state = "done"]
      BY <2>4 DEF Effect
    <3>3. Effect(r).state = "done" /\ Effect(r).placed = orders[r.id].placed
      BY <1>1, <3>2 DEF OrderType
    <3> QED BY <2>1, <2>2, <3>1, <3>3 DEF OrdersKeep
  <2>5. CASE ~Creates(r.op) /\ ~Closes(r.op)
    <3>1. orders[r.id].state = "live"
      BY <1>2, <1>4, <2>5 DEF Verdicts
    <3>2. Effect(r) = [orders[r.id] EXCEPT !.terms = r.terms]
      BY <2>5 DEF Effect
    <3>3. Effect(r).state = "live" /\ Effect(r).placed = orders[r.id].placed
      BY <1>1, <3>1, <3>2 DEF OrderType
    <3> QED BY <2>1, <2>2, <3>1, <3>3 DEF OrdersKeep
  <2> QED BY <2>3, <2>4, <2>5
<1> QED BY <1>3, <1>4

(* What OKX accepts of the call at hand is what the call asked for. *)
LEMMA AcceptedIsCarried ==
    ASSUME CallInv, OwnershipInv, PathInv, NEW r \in wire, r.call = calls,
           UNCHANGED <<call, calls>>,
           "ok" \in Verdicts(r), orders' = [orders EXCEPT ![r.id] = Effect(r)],
           accepted' = accepted \cup {r.call}
    PROVE  Carried'
<1>1. /\ r \in RequestType /\ orders \in [Ids -> OrderType] /\ orders[r.id] \in OrderType
      /\ r.id = call.id /\ r.op = call.op /\ r.terms = call.terms /\ r.id \in Ids
  BY DEF CallInv, OwnershipInv, PathInv, RequestType
<1>2. orders'[call.id] = Effect(r)
  BY <1>1
<1>3. CASE Creates(call.op)
  <2>0. Effect(r) = [state |-> "live", placed |-> r.terms, terms |-> r.terms, by |-> r.call]
    BY <1>1, <1>3 DEF Effect, Creates, Closes
  <2>1. Effect(r).state = "live" /\ Effect(r).placed = call.terms
    BY <1>1, <2>0
  <2> QED BY <1>2, <1>3, <2>1 DEF Carried
<1>4. CASE ~Creates(call.op) /\ Amends(call.op)
  BY <1>4 DEF Carried
<1>5. CASE ~Creates(call.op) /\ ~Amends(call.op)
  <2>1. Closes(call.op)
    BY <1>1, <1>5 DEF RequestType, Ops, Creates, Amends, Closes
  <2>2. Effect(r) = [orders[r.id] EXCEPT !.state = "done"]
    BY <1>1, <1>5, <2>1 DEF Effect
  <2>3. Effect(r).state = "done"
    BY <1>1, <2>2 DEF OrderType
  <2> QED BY <1>2, <1>5, <2>3 DEF Carried
<1> QED BY <1>3, <1>4, <1>5

RightInv == AckInv /\ ReplyInv /\ PathInv /\ SettledInv

(* What it takes to say ok. *)
Fulfilled ==
    CASE Creates(call.op) -> /\ orders[call.id].state # "none"
                             /\ call.terms \in {orders[call.id].placed, orders[call.id].terms}
      [] Amends(call.op)  -> calls \in accepted \/ orders[call.id].terms = call.terms
      [] OTHER            -> orders[call.id].state # "live"

OkRight ==
    pc # "idle" /\ pc' = "idle" /\ result'.res = "ok" =>
        CASE Creates(call.op) -> /\ orders'[call.id].state # "none"
                                 /\ call.terms \in {orders'[call.id].placed, orders'[call.id].terms}
          [] Amends(call.op)  -> calls \in accepted' \/ orders'[call.id].terms = call.terms
          [] OTHER            -> orders'[call.id].state # "live"

(* The acknowledgements are those there were, less some that were read. *)
Reads == inbox' = inbox \/ inbox' = <<>> \/ (inbox # <<>> /\ inbox' = Tail(inbox))

(* Reading and forgetting acknowledgements leaves good ones. *)
LEMMA AcksStay ==
    ASSUME CallInv, AckInv, OrdersKeep, UNCHANGED <<call, calls>>, Reads
    PROVE  AckInv'
<1>1. /\ inbox \in Seq(AckType) /\ calls \in Nat /\ (calls # 0 => call.id \in Ids)
      /\ \A i \in 1 .. Len(inbox) :
            /\ inbox[i].id \in 1 .. calls
            /\ inbox[i].ok /\ inbox[i].id = calls => Carried
  BY DEF AckInv, CallInv
<1>2. /\ inbox' \in Seq(AckType)
      /\ \A i \in 1 .. Len(inbox') : \E j \in 1 .. Len(inbox) : inbox'[i] = inbox[j]
  <2>1. CASE inbox' = inbox
    BY <1>1, <2>1
  <2>2. CASE inbox' = <<>>
    BY <2>2
  <2>3. CASE inbox # <<>> /\ inbox' = Tail(inbox)
    <3>1. /\ inbox' \in Seq(AckType) /\ Len(inbox') = Len(inbox) - 1 /\ Len(inbox) \in Nat
          /\ \A i \in 1 .. Len(inbox) - 1 : inbox'[i] = inbox[i + 1]
      BY <1>1, <2>3, HeadTailProperties, LenProperties
    <3>2. ASSUME NEW i \in 1 .. Len(inbox') PROVE i + 1 \in 1 .. Len(inbox) /\ inbox'[i] = inbox[i + 1]
      BY <3>1
    <3> QED BY <3>1, <3>2
  <2> QED BY <2>1, <2>2, <2>3 DEF Reads
<1>3. Carried /\ call.id \in Ids => Carried'
  BY CarriedStays
<1>4. ASSUME NEW i \in 1 .. Len(inbox')
      PROVE  /\ inbox'[i].id \in 1 .. calls
             /\ inbox'[i].ok /\ inbox'[i].id = calls => Carried'
  <2>1. PICK j \in 1 .. Len(inbox) : inbox'[i] = inbox[j]
    BY <1>2
  <2>2. inbox[j].id \in 1 .. calls /\ (inbox[j].ok /\ inbox[j].id = calls => Carried)
    BY <1>1
  <2>3. calls # 0
    BY <1>1, <2>2
  <2> QED BY <1>1, <1>3, <2>1, <2>2, <2>3
<1> QED BY <1>2, <1>4 DEF AckInv

(* The requests under way are those there were, perhaps one of this call. *)
Sends ==
    \/ wire' \subseteq wire
    \/ \E via \in {"ws", "rest"} : wire' = wire \cup {Request(via, call.id)}

(* Requests, other than those that create, cannot revive what is settled. *)
LEMMA RequestsStay ==
    ASSUME SettledInv, PathInv, pc # "idle", UNCHANGED <<call, calls>>, Sends
    PROVE  /\ \A r \in wire' : r.call = calls => r.op = call.op /\ r.terms = call.terms
           /\ \A id \in settled : ~UnderWay(id)'
<1>1. ASSUME NEW r \in wire'
      PROVE  r \in wire \/ (r.op = call.op /\ r.terms = call.terms /\ r.id = call.id)
  BY DEF Sends, Request
<1>2. \A r \in wire' : r.call = calls => r.op = call.op /\ r.terms = call.terms
  BY <1>1 DEF PathInv
<1>3. ASSUME NEW id \in settled, NEW r \in wire', r.id = id, Creates(r.op) PROVE FALSE
  BY <1>1, <1>3 DEF SettledInv, UnderWay
<1> QED BY <1>2, <1>3 DEF UnderWay

(* A call goes on. *)
LEMMA GoesOn ==
    ASSUME CallInv, RightInv, pc # "idle", NEW place, Goes(place), place # "idle",
           UNCHANGED <<call, calls, orders, accepted>>, Reads, Sends,
           place \notin {"answer", "check"} => reply = "none",
           place \in {"ensure", "prepare", "send", "ack"} => call.op \in {"place", "cancel", "amend"},
           place = "check" => call.op # "amendOco"
    PROVE  RightInv' /\ OkRight
<1>1. OrdersKeep /\ pc' = place /\ UNCHANGED <<reply, result, settled>>
  BY DEF OrdersKeep, Goes
<1>2. AckInv'
  BY <1>1, AcksStay DEF RightInv
<1>3. ReplyInv'
  BY <1>1 DEF RightInv, ReplyInv, Carried
<1>4. PathInv'
  <2>1. \A r \in wire' : r.call = calls => r.op = call.op /\ r.terms = call.terms
    BY RequestsStay DEF RightInv
  <2> QED BY <1>1, <2>1 DEF PathInv
<1>5. SettledInv'
  <2>1. \A id \in settled : ~UnderWay(id)'
    BY RequestsStay DEF RightInv
  <2> QED BY <1>1, <2>1 DEF SettledInv, RightInv
<1> QED BY <1>1, <1>2, <1>3, <1>4, <1>5 DEF RightInv, OkRight

(* A call returns, with ok only if it is fulfilled. *)
LEMMA Returns ==
    ASSUME CallInv, RightInv, pc # "idle", NEW res, NEW via, Return(res, via),
           UNCHANGED <<call, calls, orders, accepted>>, Reads, wire' = wire,
           res = "ok" => Fulfilled
    PROVE  RightInv' /\ OkRight
<1>1. /\ OrdersKeep /\ pc' = "idle" /\ reply' = "none" /\ result'.res = res
      /\ settled' = IF res = "ok" /\ Closes(call.op) /\ ~UnderWay(call.id)
                    THEN settled \cup {call.id} ELSE settled
  BY DEF OrdersKeep, Return
<1>2. AckInv'
  BY <1>1, AcksStay DEF RightInv
<1>3. ReplyInv'
  BY <1>1 DEF ReplyInv
<1>4. PathInv'
  BY <1>1 DEF RightInv, PathInv
<1>5. SettledInv'
  <2>1. call.id \in Ids
    BY DEF CallInv
  <2>2. res = "ok" /\ Closes(call.op) => orders[call.id].state # "live"
    BY DEF Fulfilled, Closes, Creates, Amends
  <2>3. ASSUME NEW id \in settled'
        PROVE  /\ id \in Ids /\ orders[id].state # "live" /\ ~UnderWay(id)
    BY <1>1, <2>1, <2>2 DEF RightInv, SettledInv
  <2>4. \A id : UnderWay(id)' = UnderWay(id)
    BY DEF UnderWay
  <2> QED BY <1>1, <2>3, <2>4 DEF SettledInv
<1>6. OkRight
  BY <1>1 DEF OkRight, Fulfilled
<1> QED BY <1>2, <1>3, <1>4, <1>5, <1>6 DEF RightInv

(* A call begins: nothing said before is about it. *)
LEMMA Begun ==
    ASSUME CallInv, OwnershipInv, RightInv, Begins
    PROVE  RightInv' /\ OkRight
<1>1. PICK op \in Ops, id \in Ids, terms \in Terms \cup {"none"}, place \in {"ensure", "rest"} :
          /\ Begin(op, id, terms, place)
          /\ place = "ensure" => op \in {"place", "cancel", "amend"}
  BY DEF Begins, PlaceOrder, MarketOrder, AmendOrder, CancelOrder, PlaceTriggerOrder,
     CancelAlgoOrder, PlaceSpotOco, AmendSpotOco, CancelSpotOco, Ops, Ids
<1>2. /\ pc = "idle" /\ pc' = place /\ calls' = calls + 1 /\ calls \in Nat
      /\ call'.op = op /\ call'.id = id
      /\ settled' = IF Creates(op) THEN settled \ {id} ELSE settled
      /\ UNCHANGED <<inbox, wire, orders, accepted, reply>>
  BY <1>1 DEF Begin, sessionVars, okxVars, CallInv
<1>3. reply = "none"
  BY <1>2 DEF RightInv, ReplyInv
<1>4. AckInv'
  <2>1. \A i \in 1 .. Len(inbox) : inbox[i].id \in 1 .. calls' /\ inbox[i].id # calls'
    BY <1>2 DEF RightInv, AckInv
  <2> QED BY <1>2, <2>1 DEF RightInv, AckInv
<1>5. ReplyInv'
  BY <1>2, <1>3 DEF ReplyInv
<1>6. PathInv'
  <2>1. \A r \in wire : r.call \in Nat /\ r.call <= calls
    BY DEF OwnershipInv, CallInv, RequestType
  <2>2. \A r \in wire' : r.call # calls'
    BY <1>2, <2>1
  <2> QED BY <1>1, <1>2, <2>2 DEF PathInv
<1>7. SettledInv'
  <2>1. \A x : UnderWay(x)' = UnderWay(x)
    BY <1>2 DEF UnderWay
  <2> QED BY <1>2, <2>1 DEF RightInv, SettledInv
<1>8. OkRight
  BY <1>2 DEF OkRight
<1> QED BY <1>4, <1>5, <1>6, <1>7, <1>8 DEF RightInv

(* An acknowledgement is added. *)
LEMMA AckAdded ==
    ASSUME CallInv, AckInv, OrdersKeep, UNCHANGED <<call, calls>>, NEW a \in AckType,
           a.id \in 1 .. calls, a.ok /\ a.id = calls => Carried', inbox' = Append(inbox, a)
    PROVE  AckInv'
<1>1. /\ inbox \in Seq(AckType) /\ Len(inbox) \in Nat
      /\ calls \in Nat /\ (calls # 0 => call.id \in Ids)
      /\ \A i \in 1 .. Len(inbox) :
            /\ inbox[i].id \in 1 .. calls
            /\ inbox[i].ok /\ inbox[i].id = calls => Carried
  BY LenProperties DEF AckInv, CallInv
<1>2. /\ inbox' \in Seq(AckType) /\ Len(inbox') = Len(inbox) + 1 /\ inbox'[Len(inbox) + 1] = a
      /\ \A i \in 1 .. Len(inbox) : inbox'[i] = inbox[i]
  BY <1>1
<1>3. Carried /\ call.id \in Ids => Carried'
  BY CarriedStays
<1>4. ASSUME NEW i \in 1 .. Len(inbox')
      PROVE  /\ inbox'[i].id \in 1 .. calls
             /\ inbox'[i].ok /\ inbox'[i].id = calls => Carried'
  <2>1. CASE i \in 1 .. Len(inbox)
    <3>1. inbox'[i] = inbox[i] /\ calls # 0
      BY <1>1, <1>2, <2>1
    <3> QED BY <1>1, <1>3, <2>1, <3>1
  <2>2. CASE i = Len(inbox) + 1
    BY <1>2, <2>2
  <2> QED BY <1>1, <1>2, <2>1, <2>2
<1> QED BY <1>2, <1>4 DEF AckInv

(* OKX executes a request, and answers. *)
LEMMA Executed ==
    ASSUME CallInv, OwnershipInv, RightInv, NEW r \in wire, Execute(r)
    PROVE  RightInv' /\ OkRight
<1>1. PICK v \in Verdicts(r) :
          /\ orders' = IF v = "ok" THEN [orders EXCEPT ![r.id] = Effect(r)] ELSE orders
          /\ accepted' = IF v = "ok" THEN accepted \cup {r.call} ELSE accepted
          /\ inbox' = IF r.via = "ws" /\ r.session = session
                      THEN Append(inbox, [id |-> r.call, ok |-> v = "ok"]) ELSE inbox
          /\ reply' = IF r.via = "rest" /\ r.call = calls /\ pc = "answer" THEN v ELSE reply
  BY DEF Execute
<1>2. UNCHANGED <<pc, call, calls, settled>> /\ wire' = wire \ {r}
  BY DEF Execute
<1>3. /\ OrdersKeep
      /\ \A id \in Ids : orders'[id].state = "live" =>
            orders[id].state = "live" \/ (id = r.id /\ Creates(r.op))
  BY ExecuteKeeps
<1>4. r \in RequestType /\ r.call \in 1 .. calls /\ calls \in Nat /\ calls # 0
      /\ call.id \in Ids
  <2>1. r \in RequestType /\ r.call <= calls /\ calls \in Nat /\ (calls # 0 => call.id \in Ids)
    BY DEF CallInv, OwnershipInv
  <2>2. r.call \in Nat \ {0}
    BY <2>1 DEF RequestType
  <2> QED BY <2>1, <2>2
<1>5. v = "ok" /\ r.call = calls => Carried'
  BY <1>1, <1>2, AcceptedIsCarried DEF RightInv
<1>6. AckInv'
  <2>1. CASE r.via = "ws" /\ r.session = session
    <3> DEFINE good == v = "ok"
               a == [id |-> r.call, ok |-> good]
    <3>1. inbox' = Append(inbox, a)
      BY <1>1, <2>1
    <3>0. good \in BOOLEAN
      OBVIOUS
    <3> HIDE DEF good
    <3>2. a \in AckType /\ a.id = r.call /\ (a.ok => good)
      BY <1>4, <3>0 DEF AckType
    <3>3. good => v = "ok"
      BY DEF good
    <3> HIDE DEF a
    <3> QED BY <1>2, <1>3, <1>4, <1>5, <3>1, <3>2, <3>3, AckAdded DEF RightInv
  <2>2. CASE ~(r.via = "ws" /\ r.session = session)
    <3>1. inbox' = inbox
      BY <1>1, <2>2
    <3> QED BY <1>2, <1>3, <3>1, AcksStay DEF RightInv, Reads
  <2> QED BY <2>1, <2>2
<1>7. ReplyInv'
  <2>1. Carried => Carried'
    BY <1>2, <1>3, <1>4, CarriedStays
  <2> QED BY <1>1, <1>2, <1>5, <2>1 DEF RightInv, ReplyInv
<1>8. PathInv'
  BY <1>2 DEF RightInv, PathInv
<1>9. SettledInv'
  <2>1. ASSUME NEW id \in settled PROVE orders'[id].state # "live" /\ ~UnderWay(id)' /\ id \in Ids
    BY <1>2, <1>3 DEF RightInv, SettledInv, UnderWay
  <2> QED BY <1>2, <2>1 DEF RightInv, SettledInv
<1>10. OkRight
  BY <1>2 DEF OkRight
<1> QED BY <1>6, <1>7, <1>8, <1>9, <1>10 DEF RightInv

(* A step that leaves the call where it is. *)
LEMMA Waits ==
    ASSUME CallInv, RightInv, UNCHANGED <<pc, call, calls, reply, settled>>,
           OrdersKeep, Reads, wire' \subseteq wire,
           \A id \in Ids : orders'[id].state = "live" => orders[id].state = "live"
    PROVE  RightInv' /\ OkRight
<1>1. AckInv'
  BY AcksStay DEF RightInv
<1>2. ReplyInv'
  <2>1. reply = "ok" => call.id \in Ids /\ Carried
    BY DEF RightInv, ReplyInv, CallInv
  <2>2. reply = "ok" => Carried'
    BY <2>1, CarriedStays
  <2> QED BY <2>2 DEF RightInv, ReplyInv
<1>3. PathInv'
  BY DEF RightInv, PathInv
<1>4. SettledInv'
  BY DEF RightInv, SettledInv, UnderWay
<1>5. OkRight
  BY DEF OkRight
<1> QED BY <1>1, <1>2, <1>3, <1>4, <1>5 DEF RightInv

(* An answer to a REST request is judged. *)
LEMMA AnswerJudged ==
    ASSUME CallInv, RightInv, pc = "answer", NEW answer, Answered(answer),
           answer = "ok" => reply = "ok"
    PROVE  RightInv' /\ OkRight
<1>1. /\ pc # "idle" /\ UNCHANGED <<call, calls, inbox, wire, orders, accepted>>
      /\ Reads /\ Sends /\ call.op \in Ops
  BY DEF Answered, sessionVars, okxVars, Reads, Sends, CallInv
<1>2. Judge(call.op, answer) \in {"ok", "err", "check"}
  BY <1>1 DEF Judge, PlaceAnswered, AmendAnswered, CancelAnswered, TriggerAnswered,
     CancelAlgoAnswered, OcoAnswered, AmendOcoAnswered, CancelOcoAnswered, Ops
<1>3. CASE Judge(call.op, answer) = "ok"
  <2>1. answer = "ok"
    BY <1>1, <1>3 DEF Judge, PlaceAnswered, AmendAnswered, CancelAnswered, TriggerAnswered,
       CancelAlgoAnswered, OcoAnswered, AmendOcoAnswered, CancelOcoAnswered, Ops
  <2>2. Fulfilled
    BY <2>1 DEF RightInv, ReplyInv, Carried, Fulfilled
  <2>3. Return("ok", "rest")
    BY <1>3 DEF Answered
  <2> QED BY <1>1, <2>2, <2>3, Returns
<1>4. CASE Judge(call.op, answer) = "err"
  <2>1. Return("err", "rest")
    BY <1>4 DEF Answered
  <2> QED BY <1>1, <2>1, Returns
<1>5. CASE Judge(call.op, answer) = "check"
  <2>1. pc' = "check" /\ reply' = answer /\ UNCHANGED <<result, settled>>
    BY <1>5 DEF Answered
  <2>2. call.op # "amendOco"
    BY <1>5 DEF Judge, AmendOcoAnswered
  <2>3. AckInv' /\ OrdersKeep
    <3>1. OrdersKeep
      BY <1>1 DEF OrdersKeep
    <3> QED BY <1>1, <3>1, AcksStay DEF RightInv
  <2>4. ReplyInv'
    BY <1>1, <2>1 DEF RightInv, ReplyInv, Carried
  <2>5. PathInv'
    BY <1>1, <2>1, <2>2 DEF RightInv, PathInv
  <2>6. SettledInv'
    BY <1>1, <2>1 DEF RightInv, SettledInv, UnderWay
  <2> QED BY <2>1, <2>3, <2>4, <2>5, <2>6 DEF RightInv, OkRight
<1> QED BY <1>2, <1>3, <1>4, <1>5

(* Connecting and giving a connection up forget what was not read. *)
LEMMA SessionReads ==
    ASSUME Connect \/ Disconnect \/ SessionFails
    PROVE  Reads
BY DEF Connect, Disconnect, SessionFails, Reads

(* The steps of a call over the WebSocket. *)
LEMMA SessionRight ==
    ASSUME CallInv, RightInv,
           EnsureSession \/ NoInstIdCode \/ PreparePlace \/ PrepareAmend \/ PrepareCancel
    PROVE  RightInv' /\ OkRight
<1>1. UNCHANGED <<call, calls, wire, orders, accepted>> /\ Sends /\ pc # "idle" /\ reply = "none"
      /\ call.op \in {"place", "cancel", "amend"}
  BY DEF EnsureSession, NoInstIdCode, PreparePlace, PrepareAmend, PrepareCancel, sessionVars,
     okxVars, Sends, RightInv, ReplyInv, PathInv
<1>2. CASE EnsureSession
  <2>1. Reads /\ (Goes("prepare") \/ Goes("rest"))
    BY <1>2, SessionReads DEF EnsureSession, Reads
  <2> QED BY <1>1, <2>1, GoesOn
<1>3. CASE ~EnsureSession
  <2>1. /\ Reads
        /\ Goes("send") \/ Goes("rest") \/ Return("refused", "none")
    BY <1>3 DEF NoInstIdCode, PreparePlace, PrepareAmend, PrepareCancel, sessionVars, Reads
  <2>2. CASE Goes("send") \/ Goes("rest")
    BY <1>1, <2>1, <2>2, GoesOn
  <2>3. CASE Return("refused", "none")
    BY <1>1, <2>1, <2>3, Returns
  <2> QED BY <2>1, <2>2, <2>3
<1> QED BY <1>2, <1>3

(* Sending a command over the WebSocket and waiting for its answer. *)
LEMMA CommandRight ==
    ASSUME CallInv, RightInv, SendCommand \/ NotSent \/ ReadAck \/ AckFails
    PROVE  RightInv' /\ OkRight
<1>1. /\ UNCHANGED <<call, calls, orders, accepted>> /\ pc # "idle" /\ reply = "none"
      /\ pc \in {"send", "ack"} /\ call.op \in {"place", "cancel", "amend"}
  BY DEF SendCommand, NotSent, ReadAck, AckFails, okxVars, RightInv, ReplyInv, PathInv
<1>2. CASE SendCommand
  <2>1. Reads /\ Sends /\ (Goes("rest") \/ Goes("ack"))
    BY <1>2, SessionReads DEF SendCommand, Sends, Reads
  <2> QED BY <1>1, <2>1, GoesOn
<1>3. CASE NotSent
  <2>1. Reads /\ Sends /\ Goes("rest")
    BY <1>3, SessionReads DEF NotSent, Sends
  <2> QED BY <1>1, <2>1, GoesOn
<1>4. ASSUME SessionFails, AfterAmbiguous, wire' = wire
      PROVE  RightInv' /\ OkRight
  <2>1. Reads /\ Sends /\ (Goes("rest") \/ Goes("check"))
    BY <1>4, SessionReads DEF Sends, AfterAmbiguous
  <2> QED BY <1>1, <2>1, GoesOn
<1>5. CASE AckFails
  BY <1>4, <1>5 DEF AckFails, okxVars
<1>6. CASE ReadAck
  <2> DEFINE ack == Head(inbox)
  <2>1. wire' = wire /\ inbox # <<>>
    BY <1>6 DEF ReadAck, okxVars
  <2>2. CASE inbox' = Tail(inbox) /\ UNCHANGED <<pc, reply, result, settled>>
    <3>1. Reads /\ OrdersKeep
      BY <1>1, <2>1, <2>2 DEF Reads, OrdersKeep
    <3> QED BY <1>1, <2>1, <2>2, <3>1, Waits
  <2>3. CASE IsExpected(ack) /\ ack.ok /\ inbox' = Tail(inbox) /\ Return("ok", "ws")
    <3>1. ack = inbox[1] /\ 1 \in 1 .. Len(inbox)
      <4>1. inbox \in Seq(AckType)
        BY DEF RightInv, AckInv
      <4>2. Len(inbox) \in Nat /\ Len(inbox) # 0
        BY <2>1, <4>1, LenProperties, EmptySeq
      <4> QED BY <2>1, <4>1, <4>2, HeadTailProperties
    <3>2. Carried
      BY <2>3, <3>1 DEF RightInv, AckInv, IsExpected
    <3>3. Fulfilled /\ Reads
      BY <2>1, <2>3, <3>2 DEF Carried, Fulfilled, Reads
    <3> QED BY <1>1, <2>1, <2>3, <3>3, Returns
  <2>4. CASE SessionFails /\ AfterAmbiguous
    BY <1>4, <2>1, <2>4
  <2> QED BY <1>6, <2>2, <2>3, <2>4 DEF ReadAck
<1> QED BY <1>2, <1>3, <1>5, <1>6

(* The steps of a call over REST. *)
LEMMA RestRight ==
    ASSUME CallInv, RightInv, RestSend \/ OrderAnswers \/ AlgoAnswers \/ RestFails \/ Check
    PROVE  RightInv' /\ OkRight
<1>1. CASE RestSend
  <2>1. UNCHANGED <<call, calls, orders, accepted>> /\ pc # "idle" /\ reply = "none" /\ Reads
    BY <1>1 DEF RestSend, sessionVars, RightInv, ReplyInv, Reads
  <2>2. CASE Goes("answer") /\ wire' = wire \cup {Request("rest", RestId(call.id))}
    <3>1. Sends
      BY <2>2 DEF Sends, RestId
    <3> QED BY <2>1, <2>2, <3>1, GoesOn
  <2>3. CASE Return("refused", "none") /\ UNCHANGED wire
    BY <2>1, <2>3, Returns
  <2> QED BY <1>1, <2>2, <2>3 DEF RestSend
<1>2. CASE OrderAnswers \/ AlgoAnswers \/ RestFails
  <2>1. pc = "answer" /\ (Answered(reply) \/ Answered("garbled") \/ Answered("error"))
    BY <1>2 DEF OrderAnswers, AlgoAnswers, RestFails
  <2> QED BY <2>1, AnswerJudged
<1>3. CASE Check
  <2>1. /\ UNCHANGED <<call, calls, orders, accepted, wire>> /\ pc = "check" /\ Reads
        /\ call.op \in Ops /\ call.op # "amendOco"
    BY <1>3 DEF Check, sessionVars, okxVars, RightInv, PathInv, CallInv, Reads
  <2>2. Confirms(call.op, call.id, call.terms, reply) => Fulfilled
    BY <2>1 DEF Confirms, Fulfilled, SubmitConfirmed, AmendConfirmed, AlgoSubmitConfirmed,
       OcoSubmitConfirmed, OrderGone, AlgoGone, OcoGone, Ops, Creates, Amends
  <2>3. \/ Return(IF Confirms(call.op, call.id, call.terms, reply) THEN "ok" ELSE "err", "check")
        \/ Return("err", "check")
    BY <1>3 DEF Check
  <2>4. PICK res \in {"ok", "err"} :
            /\ Return(res, "check")
            /\ res = "ok" => Confirms(call.op, call.id, call.terms, reply)
    BY <2>3
  <2> QED BY <2>1, <2>2, <2>4, Returns
<1> QED BY <1>1, <1>2, <1>3

(* The steps that are not the call's own. *)
LEMMA OthersRight ==
    ASSUME CallInv, RightInv,
           \/ Dropped \/ PrepareOrderCommandPath \/ Repeated \/ UNCHANGED vars
           \/ (\E r \in wire : Lost(r)) \/ (\E id \in Ids : Finishes(id))
    PROVE  RightInv' /\ OkRight
<1>1. CASE Dropped
  <2>1. /\ UNCHANGED <<call, calls, orders, accepted, wire>> /\ Reads /\ pc # "idle"
        /\ Return("dropped", "none")
    BY <1>1 DEF Dropped, sessionVars, okxVars, Reads
  <2> QED BY <2>1, Returns
<1>2. CASE PrepareOrderCommandPath \/ UNCHANGED vars \/ \E r \in wire : Lost(r)
  <2>1. /\ UNCHANGED <<pc, call, calls, reply, settled, orders, accepted>>
        /\ Reads /\ wire' \subseteq wire
    BY <1>2, SessionReads DEF PrepareOrderCommandPath, vars, Lost, sessionVars, okxVars, Reads
  <2>2. OrdersKeep
    BY <2>1 DEF OrdersKeep
  <2> QED BY <2>1, <2>2, Waits
<1>3. CASE \E id \in Ids : Finishes(id)
  <2>1. PICK id \in Ids : Finishes(id)
    BY <1>3
  <2>2. /\ UNCHANGED <<pc, call, calls, reply, settled, accepted, wire>> /\ Reads
        /\ orders[id].state = "live" /\ orders' = [orders EXCEPT ![id].state = "done"]
    BY <2>1 DEF Finishes, sessionVars, Reads
  <2>3. orders \in [Ids -> OrderType] /\ orders[id] \in OrderType
    BY DEF CallInv
  <2>4. /\ orders'[id].state = "done" /\ orders'[id].placed = orders[id].placed
        /\ \A a \in Ids \ {id} : orders'[a] = orders[a]
    BY <2>2, <2>3 DEF OrderType
  <2>5. OrdersKeep /\ \A a \in Ids : orders'[a].state = "live" => orders[a].state = "live"
    BY <2>2, <2>4 DEF OrdersKeep
  <2> QED BY <2>2, <2>5, Waits
<1>4. CASE Repeated
  <2>1. /\ UNCHANGED <<pc, call, calls, reply, settled, orders, accepted, wire>>
        /\ inbox # <<>> /\ inbox' = Append(inbox, Head(inbox))
    BY <1>4 DEF Repeated, okxVars
  <2>2. OrdersKeep
    BY <2>1 DEF OrdersKeep
  <2>3. PICK a : a = Head(inbox)
    OBVIOUS
  <2>4. /\ a \in AckType /\ a.id \in 1 .. calls /\ (a.ok /\ a.id = calls => Carried)
    <3>1. inbox \in Seq(AckType)
      BY DEF RightInv, AckInv
    <3>2. Len(inbox) \in Nat /\ Len(inbox) # 0
      BY <2>1, <3>1, LenProperties, EmptySeq
    <3>3. a = inbox[1] /\ a \in AckType /\ 1 \in 1 .. Len(inbox)
      BY <2>1, <2>3, <3>1, <3>2, HeadTailProperties
    <3> QED BY <3>3 DEF RightInv, AckInv
  <2>5. Carried => Carried'
    BY <2>1 DEF Carried
  <2>6. AckInv'
    BY <2>1, <2>2, <2>3, <2>4, <2>5, AckAdded DEF RightInv
  <2>7. ReplyInv' /\ PathInv' /\ SettledInv' /\ OkRight
    BY <2>1, <2>5 DEF RightInv, ReplyInv, PathInv, SettledInv, UnderWay, OkRight
  <2> QED BY <2>6, <2>7 DEF RightInv
<1> QED BY <1>1, <1>2, <1>3, <1>4

(* The invariant of the answers is inductive, and every ok is right. *)
LEMMA RightStep ==
    CallInv /\ OwnershipInv /\ RightInv /\ [Next]_vars => RightInv' /\ OkRight
BY Begun, Executed, SessionRight, CommandRight, RestRight, OthersRight DEF Next, Step

(* Before the first call. *)
LEMMA OrdersInit == Init => SessionInv /\ CallInv /\ OwnershipInv /\ RightInv
<1> SUFFICES ASSUME Init PROVE SessionInv /\ CallInv /\ OwnershipInv /\ RightInv
  OBVIOUS
<1>1. SessionInv
  BY DEF Init, SessionInv, NoSoiledSession
<1>2. orders \in [Ids -> OrderType] /\ \A a \in Ids : orders[a].by = 0
  BY DEF Init, NoOrder, OrderType
<1>3. CallInv /\ OwnershipInv
  BY <1>2 DEF Init, CallInv, OwnershipInv, OneOrderPerCall
<1>4. RightInv
  BY DEF Init, RightInv, AckInv, ReplyInv, PathInv, SettledInv
<1> QED BY <1>1, <1>3, <1>4

(* Once a cancel has succeeded while no placement of the id was under way, *)
(* the order is not live again (cancel_order of OkxTradingClient): not     *)
(* even a command that was dropped or timed out earlier revives it.        *)
THEOREM CanceledOrdersStay == Spec => []CanceledStays
<1>1. RightInv => CanceledStays
  BY DEF RightInv, SettledInv, CanceledStays
<1> QED BY <1>1, OrdersInit, SessionStep, OwnershipStep, RightStep, PTL DEF Spec

(* A call that says ok is right (private_order_mutation_request and the    *)
(* confirmations after an ambiguous error): OKX accepted this very call,   *)
(* or holds an order that is what was asked for.                           *)
THEOREM OkMeansDone == Spec => OkIsTrue
<1>1. OkRight =>
        (pc # "idle" /\ pc' = "idle" /\ result'.res = "ok" =>
          CASE Creates(call.op) -> /\ orders'[call.id].state # "none"
                                   /\ call.terms \in {orders'[call.id].placed, orders'[call.id].terms}
            [] Amends(call.op)  -> calls \in accepted' \/ orders'[call.id].terms = call.terms
            [] OTHER            -> orders'[call.id].state # "live")
  BY DEF OkRight
<1> QED BY <1>1, OrdersInit, SessionStep, OwnershipStep, RightStep, PTL DEF Spec, OkIsTrue
==============================================================================
