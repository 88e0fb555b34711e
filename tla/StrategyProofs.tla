--------------------------- MODULE StrategyProofs ---------------------------
(***************************************************************************)
(* A position is protected whenever a handler has returned Ok, and no      *)
(* order is submitted beside one it would double: for every order size and *)
(* minimum, every mix of faults and of events, any number of orders and    *)
(* all the calls that fail in between.                                     *)
(*                                                                         *)
(* The argument is about the list of steps that is left of a handler.      *)
(* Whatever its steps do to the position, and whatever they push in front, *)
(* ensure_stop_loss_order stands behind them, and nothing behind it but    *)
(* the evaluation of an entry.  A market exit stands first, or behind the  *)
(* read of the balance that sizes it: between the step that decided on it  *)
(* and its submission nothing can have become tracked.                     *)
(***************************************************************************)
EXTENDS StrategyProps, TLAPS, WellFoundedInduction, SequenceTheorems

(* The steps of the handlers. *)
StepName ==
    {"amend_take_profit_order", "cancel_shutdown_entry_order",
     "cancel_stop_loss_exit_order", "cancel_stop_loss_order",
     "cancel_take_profit_order", "cancel_tracked_entry_order",
     "clear_position_state", "ensure_stop_loss_order",
     "ensure_take_profit_order", "evaluate_balance", "evaluate_entry",
     "evaluate_stop_loss", "evaluate_take_profit", "exit_balance",
     "place_market_exit", "reconcile_shutdown_pending_stop_loss",
     "reconcile_shutdown_position", "reconstruct_balance",
     "reconstruct_evidence", "reconstruct_history", "reconstruct_open_algos",
     "reconstruct_open_orders", "refresh_bars", "refresh_entry_order",
     "refresh_entry_order_tail", "refresh_stop_loss_exit_order",
     "refresh_stop_loss_order", "refresh_take_profit_order",
     "refresh_take_profit_order_tail", "shutdown_ambiguous",
     "shutdown_entry_closed", "shutdown_exit_closed", "shutdown_protected",
     "shutdown_retry_exit", "shutdown_stop_loss_closed",
     "shutdown_take_profit_closed", "shutdown_with_position",
     "stop_loss_history", "triggered_balance", "triggered_cancel_take_profit"}

(* The steps that sell at the market. *)
Sells == {"evaluate_balance", "place_market_exit"}

Quiet(t, n) == \A i \in n .. Len(t) : t[i] \notin Sells

Untracked(s) == s.tp.id = NoId /\ s.sl.id = NoId /\ s.exit.id = NoId

(* A market exit stands first, or behind the balance it is sized by, and   *)
(* only while neither protection nor another exit is tracked.              *)
SellsFirst(t, s) ==
    \/ Quiet(t, 1)
    \/ Untracked(s) /\ Len(t) >= 1 /\ t[1] = "place_market_exit" /\ Quiet(t, 2)
    \/ /\ Untracked(s) /\ Len(t) >= 2 /\ t[1] = "evaluate_balance"
       /\ t[2] = "place_market_exit" /\ Quiet(t, 3)

NoBars(t) == \A i \in 1 .. Len(t) : t[i] # "refresh_bars"

EntryFrom(t, n) == \A i \in n .. Len(t) : t[i] = "evaluate_entry"

(* The protection is enforced last. *)
EndsProtected(t) ==
    \E k \in 1 .. Len(t) : t[k] = "ensure_stop_loss_order" /\ EntryFrom(t, k + 1)

(* The position of s has its stop-loss, or its exit is decided. *)
Covered(s) ==
    HasPos(s) => \/ s.sl.id # NoId /\ (s.sl.cxl \/ StopMatches(s.sl, s.pos))
                 \/ s.exit.id # NoId
                 \/ Pending(s)

(* With the steps t left in state s, the handler ends with it covered. *)
Guarded(t, s) ==
    \/ EndsProtected(t)
    \/ Covered(s) /\ EntryFrom(t, 1)
    \/ /\ t # <<>> /\ t[1] = "cancel_stop_loss_order" /\ EntryFrom(t, 2)
       /\ s.sl.id # NoId

(* ExchangeState and its stop_loss have the fields they have. *)
Shaped(s) ==
    /\ DOMAIN s = {"entry", "tp", "sl", "exit", "pos", "pending"}
    /\ DOMAIN s.sl = {"id", "size", "shape", "cxl"}

ShapedRec(r) ==
    /\ DOMAIN r = {"entry", "tp", "sl", "exit", "total"}
    /\ DOMAIN r.sl = {"id", "size", "shape", "cxl"}

StepsInv ==
    /\ todo \in Seq(StepName)
    /\ handler \in Running => SellsFirst(todo, st)
    /\ handler \in Running /\ todo # <<>> => ~NoCall(todo[1], st)
    /\ handler = "shutdown" => NoBars(todo)
    /\ handler \in Running \ {"shutdown"} => Guarded(todo, st)
    /\ handler = "idle" => Covered(st)
    /\ Shaped(st) /\ ShapedRec(rec)

-----------------------------------------------------------------------------
(* Lists of steps.                                                         *)

(* A set of numbers that is not empty has a least one. *)
LEMMA LeastNumber ==
    ASSUME NEW S \in SUBSET Nat, S # {}
    PROVE  \E n \in S : \A m \in S : n <= m
<1>1. PICK n \in S : \A m \in S : ~(<<m, n>> \in OpToRel(<, Nat))
  BY NatLessThanWellFounded, WFMin
<1>2. ASSUME NEW m \in S PROVE n <= m
  <2>1. ~(m < n)
    BY <1>1 DEF OpToRel
  <2> QED BY <2>1
<1> QED BY <1>2

(* A list from one of its places on. *)
LEMMA SuffixIs ==
    ASSUME NEW T, NEW t \in Seq(T), NEW m \in 1 .. Len(t)
    PROVE  /\ SubSeq(t, m, Len(t)) \in Seq(T)
           /\ Len(SubSeq(t, m, Len(t))) = Len(t) - m + 1
           /\ \A i \in 1 .. Len(t) - m + 1 : SubSeq(t, m, Len(t))[i] = t[m + i - 1]
<1>1. Len(t) \in Nat /\ m \in Int /\ Len(t) \in Int /\ m <= Len(t)
  BY LenProperties
<1>2. \A i \in m .. Len(t) : t[i] \in T
  BY <1>1, ElementOfSeq
<1> PICK n \in Int : n = Len(t)
  BY <1>1
<1>3. /\ SubSeq(t, m, n) \in Seq(T)
      /\ Len(SubSeq(t, m, n)) = IF m <= n THEN n - m + 1 ELSE 0
      /\ \A i \in 1 .. n - m + 1 : SubSeq(t, m, n)[i] = t[m + i - 1]
  BY <1>1, <1>2, SubSeqProperties
<1> QED BY <1>1, <1>3

(* next is what is left of the steps t from the first that makes a call. *)
SkippedTo(next, t, s, m) ==
    /\ \A i \in 1 .. m - 1 : NoCall(t[i], s)
    /\ ~NoCall(t[m], s)
    /\ next \in Seq(StepName) /\ Len(next) = Len(t) - m + 1
    /\ \A i \in 1 .. Len(t) - m + 1 : next[i] = t[m + i - 1]

Advances(next, t, s) ==
    \/ next = <<>> /\ \A i \in 1 .. Len(t) : NoCall(t[i], s)
    \/ \E m \in 1 .. Len(t) : SkippedTo(next, t, s, m)

(* The steps that make no call are skipped. *)
LEMMA AdvanceIs ==
    ASSUME NEW t \in Seq(StepName), NEW s
    PROVE  Advances(Advance(t, s), t, s)
<1> DEFINE calls == {i \in 1 .. Len(t) : ~NoCall(t[i], s)}
<1>1. Len(t) \in Nat /\ \A i \in 1 .. Len(t) : t[i] \in StepName
  BY LenProperties, ElementOfSeq
<1>2. CASE calls = {}
  <2>1. Advance(t, s) = <<>>
    BY <1>2 DEF Advance
  <2> QED BY <1>2, <2>1 DEF Advances
<1>3. CASE calls # {}
  <2>1. Advance(t, s) = SubSeq(t, Min(calls), Len(t))
    BY <1>3 DEF Advance
  <2>2. calls \in SUBSET Nat /\ \A i \in calls : i \in 1 .. Len(t)
    BY <1>1
  <2>3. \E n \in calls : \A m \in calls : n <= m
    <3> HIDE DEF calls
    <3> QED BY <1>3, <2>2, LeastNumber
  <2>4. Min(calls) \in calls /\ \A i \in calls : Min(calls) <= i
    <3> HIDE DEF calls
    <3> QED BY <2>3 DEF Min
  <2> PICK m : m = Min(calls)
    OBVIOUS
  <2>5. m \in 1 .. Len(t) /\ ~NoCall(t[m], s) /\ \A i \in 1 .. m - 1 : NoCall(t[i], s)
    <3>1. m \in calls
      BY <2>4
    <3>2. ASSUME NEW i \in 1 .. m - 1, ~NoCall(t[i], s) PROVE FALSE
      <4>1. i \in calls
        BY <1>1, <3>1, <3>2
      <4>2. m <= i
        BY <2>4, <4>1
      <4> QED BY <1>1, <3>1, <4>2
    <3> QED BY <3>1, <3>2
  <2>8. /\ SubSeq(t, m, Len(t)) \in Seq(StepName)
        /\ Len(SubSeq(t, m, Len(t))) = Len(t) - m + 1
        /\ \A i \in 1 .. Len(t) - m + 1 : SubSeq(t, m, Len(t))[i] = t[m + i - 1]
    BY <2>5, SuffixIs
  <2>9. Advance(t, s) = SubSeq(t, m, Len(t))
    BY <2>1
  <2> HIDE DEF calls
  <2>10. SkippedTo(Advance(t, s), t, s, m)
    BY <2>5, <2>8, <2>9 DEF SkippedTo
  <2> QED BY <2>5, <2>10 DEF Advances
<1> QED BY <1>2, <1>3

(* What is left of a list is as well formed as the list was, and when      *)
(* nothing is left the position is covered.                                *)
LEMMA Advanced ==
    ASSUME NEW t \in Seq(StepName), NEW s, NEW next, next = Advance(t, s)
    PROVE  /\ next \in Seq(StepName)
           /\ next # <<>> => ~NoCall(next[1], s)
           /\ SellsFirst(t, s) => SellsFirst(next, s)
           /\ NoBars(t) => NoBars(next)
           /\ Guarded(t, s) => Guarded(next, s) /\ (next = <<>> => Covered(s))
<1>1. Len(t) \in Nat
  BY LenProperties
<1>2. CASE next = <<>> /\ \A i \in 1 .. Len(t) : NoCall(t[i], s)
  <2>1. /\ next \in Seq(StepName) /\ NoBars(next) /\ EntryFrom(next, 1)
        /\ SellsFirst(next, s)
    BY <1>2 DEF SellsFirst, Quiet, NoBars, EntryFrom
  <2>2. Guarded(t, s) => Covered(s)
    <3>1. CASE EndsProtected(t)
      <4>1. NoCall("ensure_stop_loss_order", s)
        BY <1>2, <3>1 DEF EndsProtected
      <4> QED BY <4>1 DEF NoCall, Covered
    <3>2. CASE t # <<>> /\ t[1] = "cancel_stop_loss_order" /\ s.sl.id # NoId
      <4>1. 1 \in 1 .. Len(t)
        BY <1>1, <3>2, EmptySeq
      <4>2. NoCall("cancel_stop_loss_order", s)
        BY <1>2, <3>2, <4>1
      <4> QED BY <3>2, <4>2 DEF NoCall, Covered
    <3> QED BY <3>1, <3>2 DEF Guarded
  <2> QED BY <1>2, <2>1, <2>2 DEF Guarded
<1>3. ASSUME NEW m \in 1 .. Len(t), SkippedTo(next, t, s, m)
      PROVE  /\ (NoBars(t) => NoBars(next)) /\ next # <<>> /\ ~NoCall(next[1], s)
             /\ SellsFirst(t, s) => SellsFirst(next, s)
             /\ Guarded(t, s) => Guarded(next, s)
  <2> USE DEF SkippedTo
  <2>1. ~NoCall(next[1], s)
    <3>1. 1 \in 1 .. Len(t) - m + 1 /\ m + 1 - 1 = m
      BY <1>1
    <3>2. next[1] = t[m]
      BY <1>3, <3>1
    <3> QED BY <1>3, <3>2
  <2>9. ASSUME SellsFirst(t, s) PROVE SellsFirst(next, s)
    <3>1. CASE Quiet(t, 1)
      <4> SUFFICES ASSUME NEW i \in 1 .. Len(next) PROVE next[i] \notin Sells
        BY DEF SellsFirst, Quiet
      <4>1. m + i - 1 \in 1 .. Len(t) /\ next[i] = t[m + i - 1]
        BY <1>1, <1>3
      <4> QED BY <3>1, <4>1 DEF Quiet
    <3>2. CASE ~Quiet(t, 1)
      <4>1. ~NoCall(t[1], s) /\ 1 <= Len(t)
        BY <1>1, <2>9, <3>2 DEF SellsFirst, NoCall
      <4>2. m = 1
        <5>1. m # 1 => 1 \in 1 .. m - 1
          BY <1>1
        <5> QED BY <1>3, <4>1, <5>1
      <4>3. Len(next) = Len(t) /\ \A i \in 1 .. Len(t) : next[i] = t[i]
        <5>1. Len(t) - m + 1 = Len(t)
          BY <1>1, <4>2
        <5>2. ASSUME NEW i \in 1 .. Len(t) PROVE next[i] = t[i]
          <6>1. m + i - 1 = i
            BY <1>1, <4>2
          <6> QED BY <1>3, <5>1, <6>1
        <5> QED BY <1>3, <5>1, <5>2
      <4>4. \A n \in {2, 3} : Quiet(t, n) => Quiet(next, n)
        BY <1>1, <4>3 DEF Quiet
      <4>5. /\ Len(t) >= 1 => 1 \in 1 .. Len(t)
            /\ Len(t) >= 2 => 1 \in 1 .. Len(t) /\ 2 \in 1 .. Len(t)
        BY <1>1
      <4> QED BY <2>9, <3>2, <4>3, <4>4, <4>5 DEF SellsFirst
    <3> QED BY <3>1, <3>2
  <2>2. ASSUME NoBars(t) PROVE NoBars(next)
    <3> SUFFICES ASSUME NEW i \in 1 .. Len(next) PROVE next[i] # "refresh_bars"
      BY DEF NoBars
    <3>1. m + i - 1 \in 1 .. Len(t) /\ next[i] = t[m + i - 1]
      BY <1>1, <1>3
    <3> QED BY <2>2, <3>1 DEF NoBars
  <2>3. next # <<>>
    BY <1>1, <1>3
  <2> SUFFICES ASSUME Guarded(t, s) PROVE Guarded(next, s)
    BY <2>1, <2>2, <2>3, <2>9
  <2>4. ASSUME NEW n \in 1 .. Len(t) + 1, m < n, EntryFrom(t, n)
        PROVE  EntryFrom(next, n - m + 1)
    <3> SUFFICES ASSUME NEW i \in n - m + 1 .. Len(next) PROVE next[i] = "evaluate_entry"
      BY DEF EntryFrom
    <3>1. m + i - 1 \in n .. Len(t) /\ i \in 1 .. Len(t) - m + 1
      BY <1>1, <1>3, <2>4, SMTT(30)
    <3> QED BY <1>3, <2>4, <3>1 DEF EntryFrom
  <2>5. ASSUME NEW n \in 1 .. Len(t) + 1, n <= m, EntryFrom(t, n)
        PROVE  EntryFrom(next, 1)
    <3> SUFFICES ASSUME NEW i \in 1 .. Len(next) PROVE next[i] = "evaluate_entry"
      BY DEF EntryFrom
    <3>1. m + i - 1 \in n .. Len(t) /\ i \in 1 .. Len(t) - m + 1
      BY <1>1, <1>3, <2>5
    <3> QED BY <1>3, <2>5, <3>1 DEF EntryFrom
  <2>6. CASE EndsProtected(t)
    <3>1. PICK k \in 1 .. Len(t) : t[k] = "ensure_stop_loss_order" /\ EntryFrom(t, k + 1)
      BY <2>6 DEF EndsProtected
    <3>2. CASE m <= k
      <4>1. /\ k - m + 1 \in 1 .. Len(next) /\ m + (k - m + 1) - 1 = k
            /\ k - m + 1 \in 1 .. Len(t) - m + 1
        BY <1>1, <1>3, <3>2
      <4>2. next[k - m + 1] = "ensure_stop_loss_order"
        BY <1>3, <3>1, <4>1
      <4>3. k + 1 \in 1 .. Len(t) + 1 /\ m < k + 1 /\ (k + 1) - m + 1 = (k - m + 1) + 1
        BY <1>1, <3>2
      <4>4. EntryFrom(next, (k - m + 1) + 1)
        BY <2>4, <3>1, <4>3
      <4> QED BY <4>1, <4>2, <4>4 DEF EndsProtected, Guarded
    <3>3. CASE k < m
      <4>1. NoCall("ensure_stop_loss_order", s)
        BY <1>1, <1>3, <3>1, <3>3
      <4>2. Covered(s)
        BY <4>1 DEF NoCall, Covered
      <4>3. k + 1 \in 1 .. Len(t) + 1 /\ k + 1 <= m
        BY <1>1, <3>3
      <4> QED BY <2>5, <3>1, <4>2, <4>3 DEF Guarded
    <3> QED BY <1>1, <3>2, <3>3
  <2>7. CASE Covered(s) /\ EntryFrom(t, 1)
    <3>1. 1 \in 1 .. Len(t) + 1 /\ 1 <= m
      BY <1>1
    <3> QED BY <2>5, <2>7, <3>1 DEF Guarded
  <2>8. CASE t[1] = "cancel_stop_loss_order" /\ EntryFrom(t, 2) /\ s.sl.id # NoId
    <3>1. CASE m = 1
      <4>1. 2 \in 1 .. Len(t) + 1 /\ m < 2 /\ 2 - m + 1 = 2 /\ 1 \in 1 .. Len(t) - m + 1
        BY <1>1, <3>1
      <4>2. EntryFrom(next, 2)
        BY <2>4, <2>8, <4>1
      <4>3. next[1] = t[1]
        BY <1>3, <3>1, <4>1
      <4> QED BY <2>3, <2>8, <4>2, <4>3 DEF Guarded
    <3>2. CASE m # 1
      <4>1. 1 \in 1 .. m - 1 /\ 2 \in 1 .. Len(t) + 1 /\ 2 <= m
        BY <1>1, <3>2
      <4>2. NoCall("cancel_stop_loss_order", s)
        BY <1>3, <2>8, <4>1
      <4>3. Covered(s)
        BY <2>8, <4>2 DEF NoCall, Covered
      <4> QED BY <2>5, <2>8, <4>1, <4>3 DEF Guarded
    <3> QED BY <3>1, <3>2
  <2> QED BY <2>6, <2>7, <2>8 DEF Guarded
<1>4. Advances(next, t, s)
  BY AdvanceIs
<1>5. ASSUME NEW m \in 1 .. Len(t), SkippedTo(next, t, s, m) PROVE next \in Seq(StepName)
  BY <1>5 DEF SkippedTo
<1> QED BY <1>2, <1>3, <1>4, <1>5 DEF Advances

(* A list that may be what is left of a handler, whatever the state. *)
Fit(h, t) ==
    /\ t \in Seq(StepName) /\ Quiet(t, 1)
    /\ h = "shutdown" => NoBars(t)
    /\ h # "shutdown" => EndsProtected(t)

(* A list that may be pushed in front of one. *)
Prefix(h, p) == p \in Seq(StepName) /\ Quiet(p, 1) /\ (h = "shutdown" => NoBars(p))

(* A list without its first step. *)
LEMMA TailIs ==
    ASSUME NEW t \in Seq(StepName), t # <<>>
    PROVE  /\ Tail(t) \in Seq(StepName)
           /\ \A n \in {1, 2} : Quiet(t, n + 1) => Quiet(Tail(t), n)
           /\ NoBars(t) => NoBars(Tail(t))
           /\ EndsProtected(t) =>
                 \/ EndsProtected(Tail(t))
                 \/ t[1] = "ensure_stop_loss_order" /\ EntryFrom(Tail(t), 1)
           /\ EntryFrom(t, 2) => EntryFrom(Tail(t), 1)
<1>1. Len(t) \in Nat \ {0}
  BY LenProperties, EmptySeq
<1> DEFINE r == Tail(t)
<1>2. /\ r \in Seq(StepName) /\ Len(r) = Len(t) - 1
      /\ \A i \in 1 .. Len(t) - 1 : r[i] = t[i + 1]
  BY <1>1, HeadTailProperties
<1> HIDE DEF r
<1>3. ASSUME NEW n \in {1, 2}, Quiet(t, n + 1) PROVE Quiet(r, n)
  <2> SUFFICES ASSUME NEW i \in n .. Len(r) PROVE r[i] \notin Sells
    BY DEF Quiet
  <2>1. i + 1 \in n + 1 .. Len(t) /\ r[i] = t[i + 1]
    BY <1>1, <1>2
  <2> QED BY <1>3, <2>1 DEF Quiet
<1>4. ASSUME NoBars(t) PROVE NoBars(r)
  <2> SUFFICES ASSUME NEW i \in 1 .. Len(r) PROVE r[i] # "refresh_bars"
    BY DEF NoBars
  <2>1. i + 1 \in 1 .. Len(t) /\ r[i] = t[i + 1]
    BY <1>1, <1>2
  <2> QED BY <1>4, <2>1 DEF NoBars
<1>5. ASSUME NEW k \in 1 .. Len(t), EntryFrom(t, k + 1)
      PROVE  EntryFrom(r, k)
  <2> SUFFICES ASSUME NEW i \in k .. Len(r) PROVE r[i] = "evaluate_entry"
    BY DEF EntryFrom
  <2>1. i + 1 \in k + 1 .. Len(t) /\ i \in 1 .. Len(t) - 1
    BY <1>1, <1>2
  <2> QED BY <1>2, <1>5, <2>1 DEF EntryFrom
<1>6. ASSUME EndsProtected(t)
      PROVE  EndsProtected(r) \/ (t[1] = "ensure_stop_loss_order" /\ EntryFrom(r, 1))
  <2>1. PICK k \in 1 .. Len(t) : t[k] = "ensure_stop_loss_order" /\ EntryFrom(t, k + 1)
    BY <1>6 DEF EndsProtected
  <2>2. EntryFrom(r, k)
    BY <1>5, <2>1
  <2>3. CASE k # 1
    <3>1. k - 1 \in 1 .. Len(r) /\ k - 1 \in 1 .. Len(t) - 1 /\ (k - 1) + 1 = k
      BY <1>1, <1>2, <2>3
    <3>2. r[k - 1] = "ensure_stop_loss_order"
      BY <1>2, <2>1, <3>1
    <3> QED BY <2>2, <3>1, <3>2 DEF EndsProtected
  <2> QED BY <2>1, <2>2, <2>3
<1>7. ASSUME EntryFrom(t, 2) PROVE EntryFrom(r, 1)
  <2>1. 1 \in 1 .. Len(t) /\ 1 + 1 = 2
    BY <1>1
  <2> QED BY <1>5, <1>7, <2>1
<1> QED BY <1>2, <1>3, <1>4, <1>6, <1>7 DEF r

(* What is left of a handler behind its first step. *)
LEMMA RestIs ==
    ASSUME StepsInv, NEW step, At(step)
    PROVE  /\ handler \in Running /\ ~NoCall(step, st)
           /\ Rest \in Seq(StepName)
           /\ step # "evaluate_balance" => Quiet(Rest, 1)
           /\ step \in Sells => Untracked(st)
           /\ handler = "shutdown" => NoBars(Rest) /\ step # "refresh_bars"
           /\ handler # "shutdown" =>
                 \/ EndsProtected(Rest)
                 \/ step = "ensure_stop_loss_order" /\ EntryFrom(Rest, 1)
                 \/ step = "evaluate_entry" /\ Covered(st) /\ EntryFrom(Rest, 1)
                 \/ step = "cancel_stop_loss_order" /\ EntryFrom(Rest, 1) /\ st.sl.id # NoId
<1>1. /\ handler \in Running /\ todo \in Seq(StepName) /\ todo # <<>>
      /\ todo[1] = step /\ Len(todo) \in Nat \ {0} /\ 1 \in 1 .. Len(todo)
      /\ SellsFirst(todo, st) /\ ~NoCall(step, st)
  <2>1. /\ handler \in Running /\ todo \in Seq(StepName) /\ todo # <<>>
        /\ Head(todo) = step
    BY DEF StepsInv, At
  <2>2. Head(todo) = todo[1] /\ Len(todo) \in Nat \ {0}
    BY <2>1, HeadTailProperties, LenProperties, EmptySeq
  <2>3. SellsFirst(todo, st) /\ ~NoCall(todo[1], st)
    BY <2>1 DEF StepsInv
  <2> QED BY <2>1, <2>2, <2>3
<1>2. /\ Rest \in Seq(StepName)
      /\ Quiet(todo, 1 + 1) => Quiet(Rest, 1)
      /\ NoBars(todo) => NoBars(Rest)
      /\ EndsProtected(todo) =>
            EndsProtected(Rest) \/ (step = "ensure_stop_loss_order" /\ EntryFrom(Rest, 1))
      /\ EntryFrom(todo, 2) => EntryFrom(Rest, 1)
  BY <1>1, TailIs DEF Rest
<1>3. ASSUME handler = "shutdown" PROVE NoBars(Rest) /\ step # "refresh_bars"
  BY <1>1, <1>2, <1>3 DEF StepsInv, NoBars
<1>4. ASSUME handler # "shutdown"
      PROVE  \/ EndsProtected(Rest)
             \/ step = "ensure_stop_loss_order" /\ EntryFrom(Rest, 1)
             \/ step = "evaluate_entry" /\ Covered(st) /\ EntryFrom(Rest, 1)
             \/ step = "cancel_stop_loss_order" /\ EntryFrom(Rest, 1) /\ st.sl.id # NoId
  <2>1. Guarded(todo, st)
    BY <1>1, <1>4 DEF StepsInv
  <2>2. EntryFrom(todo, 1) => step = "evaluate_entry" /\ EntryFrom(todo, 2)
    BY <1>1 DEF EntryFrom
  <2> QED BY <1>1, <1>2, <2>1, <2>2 DEF Guarded
<1>5. ASSUME step # "evaluate_balance" PROVE Quiet(Rest, 1)
  <2>1. Quiet(todo, 1) => Quiet(todo, 2)
    BY <1>1 DEF Quiet
  <2> QED BY <1>1, <1>2, <1>5, <2>1 DEF SellsFirst
<1>6. ASSUME step \in Sells PROVE Untracked(st)
  <2>1. ~Quiet(todo, 1)
    BY <1>1, <1>6 DEF Quiet
  <2> QED BY <1>1, <2>1 DEF SellsFirst
<1> QED BY <1>1, <1>2, <1>3, <1>4, <1>5, <1>6

(* Behind a step that is not one of the last, the handler still protects. *)
LEMMA RestIsFit ==
    ASSUME StepsInv, NEW step, At(step),
           step \notin {"ensure_stop_loss_order", "evaluate_entry", "cancel_stop_loss_order",
                        "evaluate_balance"}
    PROVE  Fit(handler, Rest)
BY RestIs DEF Fit

(* A list with one step pushed in front. *)
LEMMA Prepended ==
    ASSUME NEW a \in StepName, NEW t \in Seq(StepName)
    PROVE  /\ <<a>> \o t \in Seq(StepName) /\ Len(<<a>> \o t) = 1 + Len(t)
           /\ (<<a>> \o t)[1] = a
           /\ \A i \in 2 .. 1 + Len(t) : (<<a>> \o t)[i] = t[i - 1]
<1> DEFINE e == <<a>>
<1>1. e \in Seq(StepName) /\ Len(e) = 1 /\ e[1] = a /\ Len(t) \in Nat
  BY LenProperties
<1> HIDE DEF e
<1> DEFINE c == e \o t
<1>2. /\ c \in Seq(StepName) /\ Len(c) = Len(e) + Len(t)
      /\ \A i \in 1 .. Len(e) + Len(t) : c[i] = IF i <= Len(e) THEN e[i] ELSE t[i - Len(e)]
  BY <1>1, ConcatProperties
<1> HIDE DEF c
<1>3. c[1] = a
  <2>1. 1 \in 1 .. Len(e) + Len(t) /\ 1 <= Len(e)
    BY <1>1
  <2> QED BY <1>1, <1>2, <2>1
<1>4. ASSUME NEW i \in 2 .. 1 + Len(t) PROVE c[i] = t[i - 1]
  <2>1. i \in 1 .. Len(e) + Len(t) /\ ~(i <= Len(e))
    BY <1>1
  <2> QED BY <1>1, <1>2, <2>1
<1> QED BY <1>1, <1>2, <1>3, <1>4 DEF c, e

(* Pushing steps in front of a list that protects does not undo that, *)
LEMMA StillEndsProtected ==
    ASSUME NEW p \in Seq(StepName), NEW t \in Seq(StepName), EndsProtected(t)
    PROVE  EndsProtected(p \o t)
<1>1. Len(t) \in Nat /\ Len(p) \in Nat
  BY LenProperties
<1> DEFINE c == p \o t
<1>2. /\ c \in Seq(StepName) /\ Len(c) = Len(p) + Len(t)
      /\ \A i \in 1 .. Len(p) + Len(t) : c[i] = IF i <= Len(p) THEN p[i] ELSE t[i - Len(p)]
  BY <1>1, ConcatProperties
<1> HIDE DEF c
<1>3. PICK k \in 1 .. Len(t) : t[k] = "ensure_stop_loss_order" /\ EntryFrom(t, k + 1)
  BY DEF EndsProtected
<1>4. k + Len(p) \in 1 .. Len(c) /\ c[k + Len(p)] = t[k]
  <2>1. k + Len(p) \in 1 .. Len(p) + Len(t) /\ ~(k + Len(p) <= Len(p)) /\ (k + Len(p)) - Len(p) = k
    BY <1>1
  <2> QED BY <1>2, <2>1
<1>5. EntryFrom(c, (k + Len(p)) + 1)
  <2> SUFFICES ASSUME NEW i \in (k + Len(p)) + 1 .. Len(c) PROVE c[i] = "evaluate_entry"
    BY DEF EntryFrom
  <2>1. i - Len(p) \in k + 1 .. Len(t) /\ i \in 1 .. Len(p) + Len(t) /\ ~(i <= Len(p))
    BY <1>1, <1>2
  <2> QED BY <1>2, <1>3, <2>1 DEF EntryFrom
<1> QED BY <1>3, <1>4, <1>5 DEF EndsProtected, c

(* nor anything else behind them. *)
LEMMA Pushed ==
    ASSUME NEW h, NEW t, Fit(h, t), NEW p, Prefix(h, p)
    PROVE  Fit(h, p \o t)
<1>1. /\ t \in Seq(StepName) /\ p \in Seq(StepName) /\ Len(t) \in Nat /\ Len(p) \in Nat
  BY LenProperties DEF Fit, Prefix
<1> DEFINE c == p \o t
<1>2. /\ c \in Seq(StepName) /\ Len(c) = Len(p) + Len(t)
      /\ \A i \in 1 .. Len(p) + Len(t) : c[i] = IF i <= Len(p) THEN p[i] ELSE t[i - Len(p)]
  BY <1>1, ConcatProperties
<1> HIDE DEF c
<1>3. Quiet(c, 1)
  <2> SUFFICES ASSUME NEW i \in 1 .. Len(c) PROVE c[i] \notin Sells
    BY DEF Quiet
  <2>1. CASE i <= Len(p)
    BY <1>1, <1>2, <2>1 DEF Prefix, Quiet
  <2>2. CASE i > Len(p)
    <3>1. i - Len(p) \in 1 .. Len(t) /\ c[i] = t[i - Len(p)]
      BY <1>1, <1>2, <2>2
    <3> QED BY <3>1 DEF Fit, Quiet
  <2> QED BY <1>1, <2>1, <2>2
<1>4. ASSUME h = "shutdown", NoBars(t) PROVE NoBars(c)
  <2> SUFFICES ASSUME NEW i \in 1 .. Len(c) PROVE c[i] # "refresh_bars"
    BY DEF NoBars
  <2>1. CASE i <= Len(p)
    BY <1>1, <1>2, <1>4, <2>1 DEF Prefix, NoBars
  <2>2. CASE i > Len(p)
    <3>1. i - Len(p) \in 1 .. Len(t) /\ c[i] = t[i - Len(p)]
      BY <1>1, <1>2, <2>2
    <3> QED BY <1>4, <3>1 DEF NoBars
  <2> QED BY <1>1, <2>1, <2>2
<1>5. ASSUME EndsProtected(t) PROVE EndsProtected(c)
  BY <1>1, <1>5, StillEndsProtected DEF c
<1> QED BY <1>2, <1>3, <1>4, <1>5 DEF Fit, c

(* The lists the steps push. *)
Plain(h, p) ==
    /\ p \in Seq(StepName)
    /\ \A i \in 1 .. Len(p) :
          p[i] \notin Sells /\ (h = "shutdown" => p[i] # "refresh_bars")

(* They may be pushed anywhere. *)
LEMMA PlainIsPrefix ==
    ASSUME NEW h, NEW p, Plain(h, p)
    PROVE  Prefix(h, p)
BY DEF Plain, Prefix, Quiet, NoBars

(* A single call is such a list, *)
LEMMA PlainOne ==
    ASSUME NEW h, NEW a \in StepName, a \notin Sells, h = "shutdown" => a # "refresh_bars"
    PROVE  Plain(h, <<a>>)
BY DEF Plain

(* so is a pair of calls, *)
LEMMA PlainTwo ==
    ASSUME NEW h,
           NEW a \in StepName, a \notin Sells, h = "shutdown" => a # "refresh_bars",
           NEW b \in StepName, b \notin Sells, h = "shutdown" => b # "refresh_bars"
    PROVE  Plain(h, <<a, b>>)
<1>1. <<a, b>> \in Seq(StepName) /\ Len(<<a, b>>) = 2
  OBVIOUS
<1>2. ASSUME NEW i \in 1 .. 2 PROVE <<a, b>>[i] = a \/ <<a, b>>[i] = b
  <2>1. i = 1 \/ i = 2
    OBVIOUS
  <2> QED BY <2>1
<1> QED BY <1>1, <1>2 DEF Plain

(* and so are two of these lists, one behind the other. *)
LEMMA PlainConcat ==
    ASSUME NEW h, NEW p, Plain(h, p), NEW q, Plain(h, q)
    PROVE  Plain(h, p \o q)
<1>1. p \in Seq(StepName) /\ q \in Seq(StepName) /\ Len(p) \in Nat /\ Len(q) \in Nat
  BY LenProperties DEF Plain
<1> DEFINE c == p \o q
<1>2. /\ c \in Seq(StepName) /\ Len(c) = Len(p) + Len(q)
      /\ \A i \in 1 .. Len(p) + Len(q) : c[i] = IF i <= Len(p) THEN p[i] ELSE q[i - Len(p)]
  BY <1>1, ConcatProperties
<1> HIDE DEF c
<1>3. ASSUME NEW i \in 1 .. Len(c)
      PROVE  c[i] \notin Sells /\ (h = "shutdown" => c[i] # "refresh_bars")
  <2>1. CASE i <= Len(p)
    BY <1>1, <1>2, <2>1 DEF Plain
  <2>2. CASE i > Len(p)
    <3>1. i - Len(p) \in 1 .. Len(q) /\ c[i] = q[i - Len(p)]
      BY <1>1, <1>2, <2>2
    <3> QED BY <3>1 DEF Plain
  <2> QED BY <1>1, <2>1, <2>2
<1> QED BY <1>2, <1>3 DEF Plain, c

(* The lists the model names. *)
LEMMA NamedLists ==
    ASSUME NEW h
    PROVE  /\ Plain(h, EnsureProtection) /\ Plain(h, RefreshTracked)
           /\ Plain(h, ShutdownWithoutPosition) /\ EndsProtected(EnsureProtection)
<1>1. Plain(h, EnsureProtection)
  <2>1. EnsureProtection \in Seq(StepName) /\ Len(EnsureProtection) = 2
    BY DEF EnsureProtection, StepName
  <2>2. ASSUME NEW i \in 1 .. 2
        PROVE  EnsureProtection[i] \notin Sells /\ EnsureProtection[i] # "refresh_bars"
    <3>1. i = 1 \/ i = 2
      OBVIOUS
    <3> QED BY <3>1 DEF EnsureProtection, Sells
  <2> QED BY <2>1, <2>2 DEF Plain
<1>2. Plain(h, RefreshTracked)
  <2>1. RefreshTracked \in Seq(StepName) /\ Len(RefreshTracked) = 4
    BY DEF RefreshTracked, StepName
  <2>2. ASSUME NEW i \in 1 .. 4
        PROVE  RefreshTracked[i] \notin Sells /\ RefreshTracked[i] # "refresh_bars"
    <3>1. i = 1 \/ i = 2 \/ i = 3 \/ i = 4
      OBVIOUS
    <3> QED BY <3>1 DEF RefreshTracked, Sells
  <2> QED BY <2>1, <2>2 DEF Plain
<1>3. Plain(h, ShutdownWithoutPosition)
  <2>1. ShutdownWithoutPosition \in Seq(StepName) /\ Len(ShutdownWithoutPosition) = 8
    BY DEF ShutdownWithoutPosition, StepName
  <2>2. ASSUME NEW i \in 1 .. 8
        PROVE  ShutdownWithoutPosition[i] \notin Sells /\ ShutdownWithoutPosition[i] # "refresh_bars"
    <3>1. i = 1 \/ i = 2 \/ i = 3 \/ i = 4 \/ i = 5 \/ i = 6 \/ i = 7 \/ i = 8
      OBVIOUS
    <3> QED BY <3>1 DEF ShutdownWithoutPosition, Sells
  <2> QED BY <2>1, <2>2 DEF Plain
<1>4. EndsProtected(EnsureProtection)
  <2>1. Len(EnsureProtection) = 2 /\ EnsureProtection[2] = "ensure_stop_loss_order"
    BY DEF EnsureProtection
  <2>2. EntryFrom(EnsureProtection, 2 + 1)
    BY <2>1 DEF EntryFrom
  <2> QED BY <2>1, <2>2 DEF EndsProtected
<1> QED BY <1>1, <1>2, <1>3, <1>4

(* Steps behind which only an entry may follow. *)
LEMMA EntryAppended ==
    ASSUME NEW h, h # "shutdown", NEW t, Fit(h, t)
    PROVE  Fit(h, t \o <<"evaluate_entry">>)
<1> DEFINE e == <<"evaluate_entry">>
           c == t \o e
<1>1. t \in Seq(StepName) /\ Len(t) \in Nat /\ e \in Seq(StepName) /\ Len(e) = 1
  <2>1. "evaluate_entry" \in StepName
    BY DEF StepName
  <2> QED BY <2>1, LenProperties DEF Fit
<1>2. /\ c \in Seq(StepName) /\ Len(c) = Len(t) + Len(e)
      /\ \A i \in 1 .. Len(t) + Len(e) : c[i] = IF i <= Len(t) THEN t[i] ELSE e[i - Len(t)]
  <2> HIDE DEF e
  <2> QED BY <1>1, ConcatProperties
<1>3. /\ Len(c) = Len(t) + 1
      /\ \A i \in 1 .. Len(t) : i \in 1 .. Len(c) /\ c[i] = t[i]
      /\ c[Len(t) + 1] = "evaluate_entry"
  <2>1. (Len(t) + 1) - Len(t) = 1 /\ Len(t) + 1 \in 1 .. Len(t) + 1 /\ e[1] = "evaluate_entry"
    BY <1>1
  <2>2. \A i \in 1 .. Len(t) : i \in 1 .. Len(t) + Len(e) /\ i <= Len(t)
    BY <1>1
  <2> HIDE DEF e, c
  <2>3. c[Len(t) + 1] = e[(Len(t) + 1) - Len(t)]
    BY <1>1, <1>2, <2>1
  <2> QED BY <1>1, <1>2, <2>1, <2>2, <2>3
<1> HIDE DEF c
<1>4. Quiet(c, 1)
  <2> SUFFICES ASSUME NEW i \in 1 .. Len(c) PROVE c[i] \notin Sells
    BY DEF Quiet
  <2>1. CASE i = Len(t) + 1
    BY <1>3, <2>1 DEF Sells
  <2>2. CASE i # Len(t) + 1
    <3>1. i \in 1 .. Len(t) /\ c[i] = t[i]
      BY <1>1, <1>3, <2>2
    <3> QED BY <3>1 DEF Fit, Quiet
  <2> QED BY <2>1, <2>2
<1>5. EndsProtected(c)
  <2>1. PICK k \in 1 .. Len(t) : t[k] = "ensure_stop_loss_order" /\ EntryFrom(t, k + 1)
    BY DEF Fit, EndsProtected
  <2>2. k \in 1 .. Len(c) /\ c[k] = "ensure_stop_loss_order"
    BY <1>3, <2>1
  <2>3. EntryFrom(c, k + 1)
    <3> SUFFICES ASSUME NEW i \in k + 1 .. Len(c) PROVE c[i] = "evaluate_entry"
      BY DEF EntryFrom
    <3>1. CASE i = Len(t) + 1
      BY <1>3, <3>1
    <3>2. CASE i # Len(t) + 1
      <4>1. i \in 1 .. Len(t) /\ i \in k + 1 .. Len(t)
        BY <1>1, <1>3, <3>2
      <4> QED BY <1>3, <2>1, <4>1 DEF EntryFrom
    <3> QED BY <3>1, <3>2
  <2> QED BY <2>2, <2>3 DEF EndsProtected
<1> QED BY <1>2, <1>4, <1>5 DEF Fit, c

(* Every handler of the runner but shutdown ends by protecting the         *)
(* position it leaves.                                                     *)
LEMMA ProgramsAreFit ==
    ASSUME NEW h \in Running
    PROVE  /\ h # "shutdown" => Fit(h, Program(h))
           /\ h = "shutdown" => Program(h) \in Seq(StepName) /\ Quiet(Program(h), 1) /\ NoBars(Program(h))
<1>1. ASSUME h # "shutdown" PROVE Fit(h, EnsureProtection)
  BY <1>1, NamedLists, PlainIsPrefix DEF Fit, Prefix
<1>2. ASSUME h # "shutdown" PROVE Fit(h, EnforceProtection)
  <2>1. Plain(h, <<"ensure_stop_loss_order", "evaluate_stop_loss">>)
    <3>1. "ensure_stop_loss_order" \in StepName \ Sells /\ "evaluate_stop_loss" \in StepName \ Sells
      BY DEF StepName, Sells
    <3> QED BY <1>2, <3>1, PlainTwo
  <2> QED BY <1>1, <1>2, <2>1, PlainIsPrefix, Pushed DEF EnforceProtection
<1>3. ASSUME h # "shutdown" PROVE Fit(h, RefreshTracked \o EnforceProtection)
  BY <1>2, <1>3, NamedLists, PlainIsPrefix, Pushed
<1>4. CASE h = "private"
  BY <1>3, <1>4 DEF Program
<1>5. ASSUME h # "shutdown" PROVE Fit(h, (<<"refresh_bars">> \o RefreshTracked) \o EnforceProtection)
  <2>1. Plain(h, <<"refresh_bars">> \o RefreshTracked)
    <3>1. "refresh_bars" \in StepName \ Sells
      BY DEF StepName, Sells
    <3>2. Plain(h, <<"refresh_bars">>)
      BY <1>5, <3>1, PlainOne
    <3> QED BY <3>2, PlainConcat, NamedLists
  <2> QED BY <1>2, <1>5, <2>1, PlainIsPrefix, Pushed
<1>6. CASE h = "timer"
  <2>1. Program(h) = (<<"refresh_bars">> \o RefreshTracked) \o EnforceProtection
    BY <1>6 DEF Program
  <2> QED BY <1>5, <1>6, <2>1
<1>7. CASE h = "candle"
  <2>1. Program(h) = ((<<"refresh_bars">> \o RefreshTracked) \o EnforceProtection)
                       \o <<"evaluate_entry">>
    BY <1>7 DEF Program
  <2> QED BY <1>5, <1>7, <2>1, EntryAppended
<1>8. CASE h \in {"instrument", "init"}
  <2>1. Program(h) = <<"reconstruct_open_orders">> \o EnsureProtection
    BY <1>8 DEF Program
  <2>2. Plain(h, <<"reconstruct_open_orders">>)
    <3>1. "reconstruct_open_orders" \in StepName \ Sells
      BY DEF StepName, Sells
    <3> QED BY <3>1, PlainOne
  <2> QED BY <1>1, <1>8, <2>1, <2>2, PlainIsPrefix, Pushed
<1>9. CASE h \in {"stream", "interrupted"}
  <2>1. Program(h) = ((<<"reconstruct_open_orders">> \o RefreshTracked)
                        \o <<"evaluate_stop_loss">>) \o EnsureProtection
    BY <1>9 DEF Program
  <2>2. Plain(h, (<<"reconstruct_open_orders">> \o RefreshTracked) \o <<"evaluate_stop_loss">>)
    <3>1. "reconstruct_open_orders" \in StepName \ Sells /\ "evaluate_stop_loss" \in StepName \ Sells
      BY DEF StepName, Sells
    <3>2. Plain(h, <<"reconstruct_open_orders">>) /\ Plain(h, <<"evaluate_stop_loss">>)
      BY <3>1, PlainOne
    <3>3. Plain(h, <<"reconstruct_open_orders">> \o RefreshTracked)
      BY <3>2, PlainConcat, NamedLists
    <3> QED BY <3>2, <3>3, PlainConcat
  <2> QED BY <1>1, <1>9, <2>1, <2>2, PlainIsPrefix, Pushed
<1>10. CASE h = "shutdown"
  <2> DEFINE e == <<"cancel_shutdown_entry_order", "reconcile_shutdown_position">>
  <2>1. Program(h) = RefreshTracked \o e
    BY <1>10 DEF Program
  <2>2. Plain(h, e)
    <3>1. /\ "cancel_shutdown_entry_order" \in StepName \ Sells
          /\ "reconcile_shutdown_position" \in StepName \ Sells
      BY DEF StepName, Sells
    <3> QED BY <3>1, PlainTwo
  <2> HIDE DEF e
  <2>3. Prefix(h, Program(h))
    BY <2>1, <2>2, NamedLists, PlainConcat, PlainIsPrefix
  <2> QED BY <1>10, <2>3 DEF Prefix
<1> QED BY <1>4, <1>6, <1>7, <1>8, <1>9, <1>10 DEF Running, Dispatchable

(* A reconstruction starts with its first call, whatever the state. *)
LEMMA ReconstructionStarts ==
    ASSUME NEW h \in {"init", "interrupted"}, NEW s
    PROVE  ~NoCall(Program(h)[1], s)
<1> DEFINE q == (RefreshTracked \o <<"evaluate_stop_loss">>) \o EnsureProtection
<1>1. /\ EnsureProtection \in Seq(StepName) /\ RefreshTracked \in Seq(StepName)
      /\ "reconstruct_open_orders" \in StepName /\ <<"evaluate_stop_loss">> \in Seq(StepName)
  BY DEF EnsureProtection, RefreshTracked, StepName
<1>2. q \in Seq(StepName)
  BY <1>1, ConcatProperties
<1>3. \/ Program(h) = <<"reconstruct_open_orders">> \o EnsureProtection
      \/ Program(h) = <<"reconstruct_open_orders">> \o q
  <2>1. h = "init" => Program(h) = <<"reconstruct_open_orders">> \o EnsureProtection
    BY DEF Program
  <2>2. h = "interrupted" =>
           Program(h) = ((<<"reconstruct_open_orders">> \o RefreshTracked)
                          \o <<"evaluate_stop_loss">>) \o EnsureProtection
    BY DEF Program
  <2>3. \A a, b, c \in Seq(StepName) : (a \o b) \o c = a \o (b \o c) /\ a \o b \in Seq(StepName)
    BY ConcatAssociative, ConcatProperties
  <2> DEFINE r == <<"reconstruct_open_orders">>
             e == <<"evaluate_stop_loss">>
  <2>4. r \in Seq(StepName) /\ e \in Seq(StepName)
    BY <1>1
  <2>5. h = "interrupted" => Program(h) = ((r \o RefreshTracked) \o e) \o EnsureProtection
    BY <2>2
  <2> HIDE DEF r, e
  <2>6. ((r \o RefreshTracked) \o e) \o EnsureProtection
          = r \o ((RefreshTracked \o e) \o EnsureProtection)
    <3>1. /\ (r \o RefreshTracked) \o e = r \o (RefreshTracked \o e)
          /\ RefreshTracked \o e \in Seq(StepName)
      BY <1>1, <2>3, <2>4
    <3>2. (r \o (RefreshTracked \o e)) \o EnsureProtection
            = r \o ((RefreshTracked \o e) \o EnsureProtection)
      BY <1>1, <2>3, <2>4, <3>1, SMTT(30)
    <3> QED BY <3>1, <3>2
  <2> QED BY <2>1, <2>5, <2>6 DEF r, e
<1> HIDE DEF q
<1>4. Program(h)[1] = "reconstruct_open_orders"
  BY <1>1, <1>2, <1>3, Prepended
<1> QED BY <1>4 DEF NoCall

-----------------------------------------------------------------------------
(* How a step ends.                                                        *)

(* A list that may be left in state s. *)
Ready(t, s) ==
    /\ t \in Seq(StepName) /\ SellsFirst(t, s)
    /\ handler = "shutdown" => NoBars(t)
    /\ handler # "shutdown" => Guarded(t, s)

(* A list that protects is one, in any state. *)
LEMMA FitIsReady ==
    ASSUME NEW t, Fit(handler, t), NEW s
    PROVE  Ready(t, s)
BY DEF Fit, Ready, SellsFirst, Guarded

(* A step that leaves such a list keeps the invariant. *)
LEMMA ThenKeeps ==
    ASSUME StepsInv, handler \in Running, NEW os, NEW s, NEW l, NEW t,
           Then(os, s, l, t), Shaped(s), Ready(t, s)
    PROVE  StepsInv'
<1> PICK next : next = Advance(t, s)
  OBVIOUS
<1>1. /\ st' = s /\ todo' = next /\ rec' = NoRec
      /\ handler' = IF next # <<>> THEN handler
                    ELSE IF handler = "shutdown" THEN "done" ELSE "idle"
  BY DEF Then
<1>2. /\ next \in Seq(StepName) /\ SellsFirst(next, s)
      /\ next # <<>> => ~NoCall(next[1], s)
      /\ NoBars(t) => NoBars(next)
      /\ Guarded(t, s) => Guarded(next, s) /\ (next = <<>> => Covered(s))
  BY Advanced DEF Ready
<1>3. ShapedRec(rec')
  BY <1>1 DEF ShapedRec, NoRec, NoTracked, NoAlgo
<1>4. handler' = "shutdown" => NoBars(todo')
  BY <1>1, <1>2 DEF Ready
<1>5. handler' \in Running \ {"shutdown"} => Guarded(todo', st')
  BY <1>1, <1>2 DEF Ready, Running, Dispatchable
<1>6. handler' = "idle" => Covered(st')
  BY <1>1, <1>2 DEF Ready, Running, Dispatchable
<1> QED BY <1>1, <1>2, <1>3, <1>4, <1>5, <1>6 DEF StepsInv

(* So does one that ends the handler without an Ok. *)
LEMMA EndsKeeps ==
    ASSUME StepsInv, NEW os, NEW s, NEW h \in {"retry", "halted", "interrupted"},
           Ends(os, s, h), Shaped(s)
    PROVE  StepsInv'
<1>1. /\ st' = s /\ rec' = NoRec /\ handler' = h
      /\ todo' = IF h = "interrupted" THEN Program(h) ELSE <<>>
  BY DEF Ends
<1>2. ShapedRec(rec')
  BY <1>1 DEF ShapedRec, NoRec, NoTracked, NoAlgo
<1>3. CASE h = "interrupted"
  <2>1. Fit(h, Program(h))
    BY <1>3, ProgramsAreFit DEF Running
  <2>2. ~NoCall(Program(h)[1], s)
    BY <1>3, ReconstructionStarts
  <2> QED BY <1>1, <1>2, <1>3, <2>1, <2>2 DEF StepsInv, Fit, SellsFirst, Guarded
<1>4. CASE h # "interrupted"
  <2>1. todo' = <<>> /\ todo' \in Seq(StepName)
    BY <1>1, <1>4
  <2>2. handler' \notin Running \cup {"idle"}
    BY <1>1, <1>4 DEF Running, Dispatchable
  <2>3. handler' # "shutdown" /\ handler' # "idle"
    BY <1>1, <1>4
  <2> QED BY <1>1, <1>2, <2>1, <2>2, <2>3 DEF StepsInv
<1> QED BY <1>3, <1>4

(* There is no other end. *)
LEMMA OutcomesAre ==
    ASSUME NEW kinds
    PROVE  /\ Outcomes(kinds) \subseteq {"retry", "halted", "interrupted"}
           /\ AfterError \subseteq {"retry", "halted", "interrupted"}
BY DEF Outcomes, AfterError, AfterTimeout

(* A read of the reconstruction changes neither the runner's state nor,    *)
(* yet, what the handler has to do.                                        *)
LEMMA ReadsKeeps ==
    ASSUME StepsInv, handler \in Running, NEW r, ShapedRec(r), Fit(handler, Rest),
           NEW a \in {"reconstruct_open_algos", "reconstruct_balance",
                      "reconstruct_evidence", "reconstruct_history"},
           Reads(r, <<a>> \o Rest)
    PROVE  StepsInv'
<1> PICK t : t = <<a>> \o Rest
  OBVIOUS
<1>1. rec' = r /\ todo' = t /\ st' = st /\ handler' = handler
  BY DEF Reads
<1>2. a \in StepName /\ a \notin Sells /\ a # "refresh_bars" /\ ~NoCall(a, st)
  BY DEF StepName, Sells, NoCall
<1>3. Fit(handler, t)
  BY <1>2, PlainOne, PlainIsPrefix, Pushed
<1>4. ~NoCall(t[1], st)
  BY <1>2, Prepended DEF Fit
<1> QED BY <1>1, <1>3, <1>4 DEF StepsInv, Fit, SellsFirst, Guarded, Running, Dispatchable

(* A call that fails, *)
LEMMA FailsKeeps ==
    ASSUME StepsInv, Fails
    PROVE  StepsInv'
<1>1. PICK h \in AfterError : Ends(orders, st, h)
  BY DEF Fails, FailsIn
<1> QED BY <1>1, OutcomesAre, EndsKeeps DEF StepsInv

(* a call that is answered or not, *)
LEMMA CallKeeps ==
    ASSUME StepsInv, handler \in Running, NEW i, NEW o, NEW s, NEW t,
           Call(i, o, s, t), Shaped(s), Ready(t, s)
    PROVE  StepsInv'
<1>1. CASE Then(Set(i, o), s, loc, t)
  BY <1>1, ThenKeeps
<1>2. CASE Unanswered(Set(i, o))
  <2>1. PICK h \in Outcomes({"timeout", "lost"}) : Ends(Set(i, o), st, h)
    BY <1>2 DEF Unanswered
  <2> QED BY <2>1, OutcomesAre, EndsKeeps DEF StepsInv
<1> QED BY <1>1, <1>2 DEF Call

(* What the runner keeps of an order it has placed. *)
LEMMA PlacedIs ==
    ASSUME Shaped(st), NEW i, NEW o, o.kind \in Kind
    PROVE  /\ Shaped(Placed(i, o)) /\ Placed(i, o).pos = st.pos
           /\ o.kind = "entry" => /\ Placed(i, o).sl = st.sl /\ Placed(i, o).exit = st.exit
                                  /\ Placed(i, o).pending = st.pending
           /\ o.kind = "sl" => /\ Placed(i, o).sl.id = i /\ Placed(i, o).sl.size = o.size
                               /\ Placed(i, o).sl.shape = o.shape
<1>1. CASE o.kind = "sl"
  BY <1>1 DEF Placed, Shaped, TrackAlgo
<1>2. CASE o.kind = "entry"
  BY <1>2 DEF Placed, Shaped
<1>3. CASE o.kind = "tp"
  BY <1>3 DEF Placed, Shaped
<1>4. CASE o.kind = "exit"
  BY <1>4 DEF Placed, Shaped
<1> QED BY <1>1, <1>2, <1>3, <1>4 DEF Kind

(* and an order that is submitted. *)
LEMMA SubmitKeeps ==
    ASSUME StepsInv, handler \in Running, NEW o, o.kind \in Kind, NEW t, Submit(o, t),
           Fit(handler, t)
    PROVE  StepsInv'
<1>1. PICK i \in FreeSlot(orders, o.kind, Used(st, rec)) : Call(i, o, Placed(i, o), t)
  BY DEF Submit
<1>2. Shaped(Placed(i, o))
  BY PlacedIs DEF StepsInv
<1> QED BY <1>1, <1>2, FitIsReady, CallKeeps

-----------------------------------------------------------------------------
(* What the steps push.                                                    *)

(* The lists of one, *)
LEMMA SinglePushes ==
    ASSUME NEW h,
           NEW a \in {"cancel_tracked_entry_order", "cancel_take_profit_order",
                      "ensure_take_profit_order", "amend_take_profit_order",
                      "ensure_stop_loss_order", "refresh_take_profit_order",
                      "stop_loss_history", "exit_balance", "evaluate_take_profit",
                      "evaluate_stop_loss", "reconstruct_open_algos", "reconstruct_balance",
                      "reconstruct_evidence", "reconstruct_history", "cancel_stop_loss_order",
                      "shutdown_protected"}
    PROVE  Plain(h, <<a>>) /\ Prefix(h, <<a>>)
<1>1. a \in StepName /\ a \notin Sells /\ a # "refresh_bars"
  BY DEF StepName, Sells
<1> QED BY <1>1, PlainOne, PlainIsPrefix

(* of two *)
LEMMA DoublePushes ==
    ASSUME NEW h
    PROVE  /\ Prefix(h, <<"cancel_stop_loss_order", "clear_position_state">>)
           /\ Prefix(h, <<"triggered_cancel_take_profit", "triggered_balance">>)
           /\ Prefix(h, <<"cancel_take_profit_order", "shutdown_ambiguous">>)
           /\ Prefix(h, <<"refresh_take_profit_order", "shutdown_retry_exit">>)
           /\ Plain(h, <<"ensure_take_profit_order", "refresh_entry_order_tail">>)
           /\ Plain(h, <<"cancel_stop_loss_order", "ensure_stop_loss_order">>)
           /\ Plain(h, <<"cancel_tracked_entry_order", "refresh_entry_order">>)
<1>1. \A a \in {"cancel_stop_loss_order", "clear_position_state",
                "triggered_cancel_take_profit", "triggered_balance",
                "cancel_take_profit_order", "shutdown_ambiguous",
                "refresh_take_profit_order", "shutdown_retry_exit",
                "ensure_take_profit_order", "refresh_entry_order_tail",
                "ensure_stop_loss_order", "cancel_tracked_entry_order",
                "refresh_entry_order"} :
         a \in StepName /\ a \notin Sells /\ a # "refresh_bars"
  BY DEF StepName, Sells
<1>2. Prefix(h, <<"cancel_stop_loss_order", "clear_position_state">>)
  BY <1>1, PlainTwo, PlainIsPrefix
<1>3. Prefix(h, <<"triggered_cancel_take_profit", "triggered_balance">>)
  BY <1>1, PlainTwo, PlainIsPrefix
<1>4. Prefix(h, <<"cancel_take_profit_order", "shutdown_ambiguous">>)
  BY <1>1, PlainTwo, PlainIsPrefix
<1>5. Prefix(h, <<"refresh_take_profit_order", "shutdown_retry_exit">>)
  BY <1>1, PlainTwo, PlainIsPrefix
<1>6. Plain(h, <<"ensure_take_profit_order", "refresh_entry_order_tail">>)
  BY <1>1, PlainTwo
<1>7. Plain(h, <<"cancel_stop_loss_order", "ensure_stop_loss_order">>)
  BY <1>1, PlainTwo
<1>8. Plain(h, <<"cancel_tracked_entry_order", "refresh_entry_order">>)
  BY <1>1, PlainTwo
<1> QED BY <1>2, <1>3, <1>4, <1>5, <1>6, <1>7, <1>8

(* and of three and six, *)
LEMMA LongPushes ==
    ASSUME NEW h
    PROVE  /\ Prefix(h, <<"cancel_stop_loss_order", "ensure_stop_loss_order",
                          "refresh_take_profit_order_tail">>)
           /\ Prefix(h, <<"cancel_tracked_entry_order", "refresh_entry_order",
                          "shutdown_entry_closed">>)
           /\ Prefix(h, <<"refresh_take_profit_order", "refresh_stop_loss_order",
                          "refresh_stop_loss_exit_order", "evaluate_stop_loss",
                          "reconcile_shutdown_pending_stop_loss", "shutdown_with_position">>)
<1> DEFINE closes == <<"cancel_stop_loss_order", "ensure_stop_loss_order",
                       "refresh_take_profit_order_tail">>
           cancels == <<"cancel_tracked_entry_order", "refresh_entry_order",
                        "shutdown_entry_closed">>
           looks == <<"refresh_take_profit_order", "refresh_stop_loss_order",
                      "refresh_stop_loss_exit_order", "evaluate_stop_loss",
                      "reconcile_shutdown_pending_stop_loss", "shutdown_with_position">>
<1>1. Plain(h, closes)
  <2>1. closes \in Seq(StepName) /\ Len(closes) = 3
    BY DEF StepName
  <2>2. ASSUME NEW i \in 1 .. 3
        PROVE  closes[i] \notin Sells /\ closes[i] # "refresh_bars"
    <3>1. i = 1 \/ i = 2 \/ i = 3
      OBVIOUS
    <3> QED BY <3>1 DEF Sells
  <2> HIDE DEF closes
  <2> QED BY <2>1, <2>2 DEF Plain
<1>2. Plain(h, cancels)
  <2>1. cancels \in Seq(StepName) /\ Len(cancels) = 3
    BY DEF StepName
  <2>2. ASSUME NEW i \in 1 .. 3
        PROVE  cancels[i] \notin Sells /\ cancels[i] # "refresh_bars"
    <3>1. i = 1 \/ i = 2 \/ i = 3
      OBVIOUS
    <3> QED BY <3>1 DEF Sells
  <2> HIDE DEF cancels
  <2> QED BY <2>1, <2>2 DEF Plain
<1>3. Plain(h, looks)
  <2>1. looks \in Seq(StepName) /\ Len(looks) = 6
    BY DEF StepName
  <2>2. ASSUME NEW i \in 1 .. 6
        PROVE  looks[i] \notin Sells /\ looks[i] # "refresh_bars"
    <3>1. i = 1 \/ i = 2 \/ i = 3 \/ i = 4 \/ i = 5 \/ i = 6
      OBVIOUS
    <3> QED BY <3>1 DEF Sells
  <2> HIDE DEF looks
  <2> QED BY <2>1, <2>2 DEF Plain
<1> QED BY <1>1, <1>2, <1>3, PlainIsPrefix

(* and the market exit, which a balance may precede: behind it the handler *)
(* still protects.                                                         *)
LEMMA ExitStepsReady ==
    ASSUME NEW t, Fit(handler, t), NEW s, s.tp.id = NoId, NEW was
    PROVE  Ready(ExitSteps(s, was) \o t, s)
<1>1. t \in Seq(StepName) /\ Len(t) \in Nat /\ Quiet(t, 1)
  BY LenProperties DEF Fit
<1>2. CASE s.sl.id # NoId \/ s.exit.id # NoId \/ ~HasPos(s)
  <2>1. ExitSteps(s, was) \o t = t
    BY <1>1, <1>2, ConcatEmptySeq DEF ExitSteps
  <2> QED BY <2>1, FitIsReady
<1>3. CASE Untracked(s) /\ HasPos(s)
  <2> DEFINE q == <<"place_market_exit">>
             b == <<"evaluate_balance">>
             c == q \o t
             d == b \o c
  <2>1. /\ q \in Seq(StepName) /\ Len(q) = 1 /\ q[1] = "place_market_exit"
        /\ b \in Seq(StepName) /\ Len(b) = 1 /\ b[1] = "evaluate_balance"
    BY DEF StepName
  <2>2. ExitSteps(s, was) \o t = IF was THEN d ELSE c
    <3>1. ExitSteps(s, was) = (IF was THEN b ELSE <<>>) \o q
      BY <1>3 DEF ExitSteps, Untracked
    <3>2. <<>> \o q = q
      OBVIOUS
    <3> HIDE DEF b, q
    <3>3. (b \o q) \o t = b \o (q \o t)
      BY <1>1, <2>1, ConcatAssociative
    <3> QED BY <3>1, <3>2, <3>3
  <2> HIDE DEF c, d
  <2>3. /\ c \in Seq(StepName) /\ Len(c) = 1 + Len(t) /\ c[1] = "place_market_exit"
        /\ \A i \in 2 .. 1 + Len(t) : c[i] = t[i - 1]
    BY <1>1, <2>1, Prepended DEF c, StepName
  <2>4. /\ d \in Seq(StepName) /\ Len(d) = 1 + Len(c) /\ d[1] = "evaluate_balance"
        /\ \A i \in 2 .. 1 + Len(c) : d[i] = c[i - 1]
    BY <2>1, <2>3, Prepended DEF d, StepName
  <2>5. Len(c) \in Nat /\ Len(c) >= 1 /\ Quiet(c, 2)
    <3>1. ASSUME NEW i \in 2 .. Len(c) PROVE c[i] \notin Sells
      <4>1. i - 1 \in 1 .. Len(t) /\ i \in 2 .. 1 + Len(t)
        BY <1>1, <2>3
      <4> QED BY <1>1, <2>3, <4>1 DEF Quiet
    <3> QED BY <1>1, <2>3, <3>1 DEF Quiet
  <2>6. Len(d) >= 2 /\ d[2] = "place_market_exit" /\ Quiet(d, 3)
    <3>1. 2 \in 2 .. 1 + Len(c) /\ 2 - 1 = 1
      BY <2>5
    <3>2. ASSUME NEW i \in 3 .. Len(d) PROVE d[i] \notin Sells
      <4>1. i - 1 \in 2 .. Len(c) /\ i \in 2 .. 1 + Len(c)
        BY <2>4, <2>5
      <4> QED BY <2>4, <2>5, <4>1 DEF Quiet
    <3> QED BY <2>3, <2>4, <2>5, <3>1, <3>2 DEF Quiet
  <2>7. SellsFirst(c, s) /\ SellsFirst(d, s)
    BY <1>3, <2>3, <2>4, <2>5, <2>6 DEF SellsFirst
  <2>8. /\ handler = "shutdown" => NoBars(c) /\ NoBars(d)
        /\ handler # "shutdown" => EndsProtected(c) /\ EndsProtected(d)
    <3>1. ASSUME handler = "shutdown" PROVE NoBars(c) /\ NoBars(d)
      <4>1. NoBars(c)
        <5> SUFFICES ASSUME NEW i \in 1 .. Len(c) PROVE c[i] # "refresh_bars"
          BY DEF NoBars
        <5>1. i = 1 \/ (i \in 2 .. 1 + Len(t) /\ i - 1 \in 1 .. Len(t))
          BY <1>1, <2>3
        <5> QED BY <2>3, <3>1, <5>1 DEF Fit, NoBars
      <4>2. NoBars(d)
        <5> SUFFICES ASSUME NEW i \in 1 .. Len(d) PROVE d[i] # "refresh_bars"
          BY DEF NoBars
        <5>1. i = 1 \/ (i \in 2 .. 1 + Len(c) /\ i - 1 \in 1 .. Len(c))
          BY <2>4, <2>5
        <5> QED BY <2>4, <4>1, <5>1 DEF NoBars
      <4> QED BY <4>1, <4>2
    <3>2. ASSUME handler # "shutdown" PROVE EndsProtected(c) /\ EndsProtected(d)
      <4>1. EndsProtected(c)
        BY <1>1, <2>1, <3>2, StillEndsProtected DEF Fit, c
      <4>2. EndsProtected(d)
        BY <2>1, <2>3, <4>1, StillEndsProtected DEF d
      <4> QED BY <4>1, <4>2
    <3> QED BY <3>1, <3>2
  <2>9. Ready(c, s) /\ Ready(d, s)
    BY <2>3, <2>4, <2>7, <2>8 DEF Ready, Guarded
  <2> QED BY <2>2, <2>9
<1> QED BY <1>2, <1>3 DEF Untracked

-----------------------------------------------------------------------------
(* The steps.                                                              *)

(* What is pushed in front of a list that protects the position still does.*)
LEMMA GoesOn ==
    ASSUME StepsInv, handler \in Running, NEW t, Fit(handler, t), NEW os, NEW s, NEW l,
           Shaped(s)
    PROVE  /\ Then(os, s, l, t) => StepsInv'
           /\ \A p : Prefix(handler, p) /\ Then(os, s, l, p \o t) => StepsInv'
<1>1. Then(os, s, l, t) => StepsInv'
  BY FitIsReady, ThenKeeps
<1>2. ASSUME NEW p, Prefix(handler, p), Then(os, s, l, p \o t) PROVE StepsInv'
  <2>1. Fit(handler, p \o t)
    BY <1>2, Pushed
  <2> QED BY <1>2, <2>1, FitIsReady, ThenKeeps
<1> QED BY <1>1, <1>2

(* The end of refresh_entry_order, wherever it is reached, *)
LEMMA EntryTailKeeps ==
    ASSUME StepsInv, handler \in Running, NEW t, Fit(handler, t), NEW s, Shaped(s),
           NEW seen, NEW l, EntryTail(s, seen, l, t)
    PROVE  StepsInv'
<1>1. Prefix(handler, <<"cancel_tracked_entry_order">>)
  BY SinglePushes
<1>2. Shaped([s EXCEPT !.entry = NoTracked])
  BY DEF Shaped
<1> QED BY <1>1, <1>2, GoesOn DEF EntryTail

(* and the end of refresh_take_profit_order. *)
LEMMA ProfitTailKeeps ==
    ASSUME StepsInv, handler \in Running, NEW t, Fit(handler, t), NEW s, Shaped(s),
           NEW seen, NEW l, ProfitTail(s, seen, l, t)
    PROVE  StepsInv'
<1> DEFINE gone == [s EXCEPT !.tp = NoTracked]
<1>1. Shaped(gone)
  BY DEF Shaped
<1>2. /\ Prefix(handler, <<"cancel_take_profit_order">>)
      /\ Prefix(handler, <<"amend_take_profit_order">>)
      /\ Prefix(handler, <<"cancel_stop_loss_order", "clear_position_state">>)
      /\ Prefix(handler, EnsureProtection)
  BY SinglePushes, DoublePushes, NamedLists, PlainIsPrefix
<1>3. \/ Then(orders, s, l, t)
      \/ Then(orders, s, l, <<"cancel_take_profit_order">> \o t)
      \/ Then(orders, s, l, <<"amend_take_profit_order">> \o t)
      \/ Then(orders, gone, l, <<"cancel_stop_loss_order", "clear_position_state">> \o t)
      \/ Then(orders, gone, l, EnsureProtection \o t)
      \/ Then(orders, gone, l, t)
  BY DEF ProfitTail
<1> HIDE DEF gone
<1>4. CASE Then(orders, s, l, t) \/ Then(orders, gone, l, t)
  BY <1>1, <1>4, GoesOn
<1>5. CASE Then(orders, s, l, <<"cancel_take_profit_order">> \o t)
  BY <1>2, <1>5, GoesOn
<1>6. CASE Then(orders, s, l, <<"amend_take_profit_order">> \o t)
  BY <1>2, <1>6, GoesOn
<1>7. CASE Then(orders, gone, l, <<"cancel_stop_loss_order", "clear_position_state">> \o t)
  BY <1>1, <1>2, <1>7, GoesOn
<1>8. CASE Then(orders, gone, l, EnsureProtection \o t)
  BY <1>1, <1>2, <1>8, GoesOn
<1> QED BY <1>3, <1>4, <1>5, <1>6, <1>7, <1>8

(* The steps on the entry order.  refresh_bars never runs during shutdown, *)
(* and the evaluation of an entry leaves the position alone.               *)
LEMMA EntryStepsKeep ==
    ASSUME StepsInv, EntrySteps
    PROVE  StepsInv'
<1>1. Shaped(st)
  BY DEF StepsInv
<1>2. CASE refresh_bars
  <2>1. At("refresh_bars")
    BY <1>2 DEF refresh_bars
  <2>2. handler \in Running \ {"shutdown"} /\ Fit(handler, Rest)
    BY <2>1, RestIs, RestIsFit
  <2> PICK next : next = Advance(Rest, st)
    OBVIOUS
  <2>3. /\ todo' = next /\ st' = st /\ rec' = rec
        /\ handler' = IF next = <<>> THEN "idle" ELSE handler
    BY <1>2 DEF refresh_bars
  <2>4. /\ next \in Seq(StepName) /\ Guarded(next, st) /\ (next = <<>> => Covered(st))
        /\ SellsFirst(next, st) /\ (next # <<>> => ~NoCall(next[1], st))
    <3>1. SellsFirst(Rest, st) /\ Guarded(Rest, st) /\ Rest \in Seq(StepName)
      BY <2>2 DEF Fit, SellsFirst, Guarded
    <3> QED BY <3>1, Advanced
  <2>5. handler' # "shutdown" /\ (handler' = "idle" => next = <<>>)
    BY <2>2, <2>3 DEF Running, Dispatchable
  <2> QED BY <2>3, <2>4, <2>5 DEF StepsInv
<1>3. CASE refresh_entry_order
  <2>1. At("refresh_entry_order")
    BY <1>3 DEF refresh_entry_order
  <2>2. handler \in Running /\ Fit(handler, Rest)
    BY <2>1, RestIs, RestIsFit
  <2> DEFINE o == orders[st.entry.id]
             delta == o.filled - st.entry.last
             seen == [id |-> st.entry.id, live |-> IsLive(o), filled |-> o.filled]
             opened == [st EXCEPT !.pos = Enlarge(@, delta), !.entry.last = o.filled]
             pushed == <<"ensure_stop_loss_order">>
                         \o (IF HasPos(st) THEN <<"refresh_take_profit_order">> ELSE <<>>)
                         \o <<"ensure_take_profit_order", "refresh_entry_order_tail">>
  <2>3. \/ Then(orders, st, loc, Rest)
        \/ Then(orders, opened, [loc EXCEPT !.entry = seen], pushed \o Rest)
        \/ EntryTail(st, seen, loc, Rest)
    BY <1>3 DEF refresh_entry_order, Local
  <2>4. Shaped(opened)
    BY <1>1 DEF Shaped
  <2>5. Prefix(handler, pushed)
    <3> DEFINE m == IF HasPos(st) THEN <<"refresh_take_profit_order">> ELSE <<>>
    <3>1. Plain(handler, m)
      <4>1. Plain(handler, <<>>)
        BY DEF Plain
      <4> QED BY <4>1, SinglePushes
    <3>2. Plain(handler, <<"ensure_stop_loss_order">>)
      BY SinglePushes
    <3> HIDE DEF m
    <3>3. Plain(handler, <<"ensure_stop_loss_order">> \o m)
      BY <3>1, <3>2, PlainConcat
    <3>4. Plain(handler, (<<"ensure_stop_loss_order">> \o m)
                           \o <<"ensure_take_profit_order", "refresh_entry_order_tail">>)
      BY <3>3, DoublePushes, PlainConcat
    <3> QED BY <3>4, PlainIsPrefix DEF m
  <2> HIDE DEF opened, seen, pushed
  <2> QED BY <1>1, <2>2, <2>3, <2>4, <2>5, GoesOn, EntryTailKeeps
<1>4. CASE refresh_entry_order_tail
  <2>1. At("refresh_entry_order_tail")
    BY <1>4 DEF refresh_entry_order_tail
  <2>2. handler \in Running /\ Fit(handler, Rest)
    BY <2>1, RestIs, RestIsFit
  <2> QED BY <1>1, <1>4, <2>2, EntryTailKeeps DEF refresh_entry_order_tail
<1>5. CASE cancel_tracked_entry_order
  <2>1. At("cancel_tracked_entry_order")
    BY <1>5 DEF cancel_tracked_entry_order
  <2>2. handler \in Running /\ Fit(handler, Rest)
    BY <2>1, RestIs, RestIsFit
  <2>3. Shaped([st EXCEPT !.entry.cxl = TRUE])
    BY <1>1 DEF Shaped
  <2> QED BY <1>5, <2>2, <2>3, FitIsReady, CallKeeps DEF cancel_tracked_entry_order
<1>6. CASE evaluate_entry
  <2>1. At("evaluate_entry")
    BY <1>6 DEF evaluate_entry
  <2>2. /\ handler \in Running /\ Rest \in Seq(StepName) /\ Quiet(Rest, 1)
        /\ handler = "shutdown" => NoBars(Rest)
        /\ handler # "shutdown" => EndsProtected(Rest) \/ (Covered(st) /\ EntryFrom(Rest, 1))
    BY <2>1, RestIs
  <2>3. CASE Local(st, Rest)
    <3>1. Ready(Rest, st)
      BY <2>2 DEF Ready, SellsFirst, Guarded
    <3> QED BY <1>1, <2>2, <2>3, <3>1, ThenKeeps DEF Local
  <2>4. CASE Submit(NewOrder("entry", EntrySize, 0), Rest)
    <3> PICK o : o = NewOrder("entry", EntrySize, 0)
      OBVIOUS
    <3>1. o.kind = "entry"
      BY DEF NewOrder
    <3>2. PICK i \in FreeSlot(orders, o.kind, Used(st, rec)) : Call(i, o, Placed(i, o), Rest)
      BY <2>4 DEF Submit
    <3> PICK s : s = Placed(i, o)
      OBVIOUS
    <3>3. Shaped(s) /\ s.pos = st.pos /\ s.sl = st.sl /\ s.exit = st.exit /\ s.pending = st.pending
      BY <1>1, <3>1, PlacedIs DEF Kind
    <3>4. Covered(st) => Covered(s)
      BY <3>3 DEF Covered, HasPos, Pending
    <3>5. Ready(Rest, s)
      BY <2>2, <3>4 DEF Ready, SellsFirst, Guarded
    <3> QED BY <2>2, <3>2, <3>3, <3>5, CallKeeps
  <2> QED BY <1>6, <2>3, <2>4 DEF evaluate_entry
<1> QED BY <1>2, <1>3, <1>4, <1>5, <1>6 DEF EntrySteps


(* The steps on the take-profit order. *)
LEMMA ProfitStepsKeep ==
    ASSUME StepsInv, ProfitSteps
    PROVE  StepsInv'
<1>1. Shaped(st)
  BY DEF StepsInv
<1>2. CASE refresh_take_profit_order
  <2>1. At("refresh_take_profit_order")
    BY <1>2 DEF refresh_take_profit_order
  <2>2. handler \in Running /\ Fit(handler, Rest)
    BY <2>1, RestIs, RestIsFit
  <2> DEFINE o == orders[st.tp.id]
             delta == o.filled - st.tp.last
             seen == [order |-> o, grew |-> delta > 0, cxl |-> st.tp.cxl]
             counted == [st EXCEPT !.pos = IF HasPos(st) THEN Reduce(@, delta) ELSE @,
                                   !.tp.last = o.filled]
             looked == [st EXCEPT !.tp.last = o.filled]
             gone == [st EXCEPT !.tp = NoTracked]
  <2>3. \/ Then(orders, gone, loc, <<"ensure_take_profit_order">> \o Rest)
        \/ Then(orders, counted, [loc EXCEPT !.tp = seen],
                <<"cancel_stop_loss_order", "ensure_stop_loss_order",
                  "refresh_take_profit_order_tail">> \o Rest)
        \/ ProfitTail(looked, seen, loc, Rest)
    BY <1>2 DEF refresh_take_profit_order, Local
  <2>4. Shaped(gone) /\ Shaped(counted) /\ Shaped(looked)
    BY <1>1 DEF Shaped
  <2>5. /\ Prefix(handler, <<"ensure_take_profit_order">>)
        /\ Prefix(handler, <<"cancel_stop_loss_order", "ensure_stop_loss_order",
                             "refresh_take_profit_order_tail">>)
    BY SinglePushes, LongPushes
  <2> HIDE DEF gone, counted, looked, seen
  <2>6. CASE Then(orders, gone, loc, <<"ensure_take_profit_order">> \o Rest)
    BY <2>2, <2>4, <2>5, <2>6, GoesOn
  <2>7. CASE Then(orders, counted, [loc EXCEPT !.tp = seen],
                  <<"cancel_stop_loss_order", "ensure_stop_loss_order",
                    "refresh_take_profit_order_tail">> \o Rest)
    BY <2>2, <2>4, <2>5, <2>7, GoesOn
  <2>8. CASE ProfitTail(looked, seen, loc, Rest)
    BY <2>2, <2>4, <2>8, ProfitTailKeeps
  <2> QED BY <2>3, <2>6, <2>7, <2>8
<1>3. CASE refresh_take_profit_order_tail
  <2>1. At("refresh_take_profit_order_tail")
    BY <1>3 DEF refresh_take_profit_order_tail
  <2>2. handler \in Running /\ Fit(handler, Rest)
    BY <2>1, RestIs, RestIsFit
  <2> QED BY <1>1, <1>3, <2>2, ProfitTailKeeps DEF refresh_take_profit_order_tail
<1>4. CASE cancel_take_profit_order
  <2>1. At("cancel_take_profit_order")
    BY <1>4 DEF cancel_take_profit_order
  <2>2. handler \in Running /\ Fit(handler, Rest)
    BY <2>1, RestIs, RestIsFit
  <2>3. Shaped([st EXCEPT !.tp.cxl = TRUE])
    BY <1>1 DEF Shaped
  <2> QED BY <1>4, <2>2, <2>3, FitIsReady, CallKeeps DEF cancel_take_profit_order
<1>5. CASE amend_take_profit_order
  <2>1. At("amend_take_profit_order")
    BY <1>5 DEF amend_take_profit_order
  <2>2. handler \in Running /\ Fit(handler, Rest)
    BY <2>1, RestIs, RestIsFit
  <2> DEFINE amended == [orders[st.tp.id] EXCEPT !.size = st.pos.qty, !.shape = atr]
  <2>3. \/ Then(orders, st, loc, <<"cancel_take_profit_order">> \o Rest)
        \/ Call(st.tp.id, amended, st, Rest)
        \/ Fails
    BY <1>5 DEF amend_take_profit_order, Local
  <2>4. Prefix(handler, <<"cancel_take_profit_order">>)
    BY SinglePushes
  <2> HIDE DEF amended
  <2> QED BY <1>1, <2>2, <2>3, <2>4, GoesOn, FitIsReady, CallKeeps, FailsKeeps
<1>6. CASE ensure_take_profit_order
  <2>1. At("ensure_take_profit_order")
    BY <1>6 DEF ensure_take_profit_order
  <2>2. handler \in Running /\ Fit(handler, Rest)
    BY <2>1, RestIs, RestIsFit
  <2> PICK o : o = NewOrder("tp", st.pos.qty, atr)
    OBVIOUS
  <2>3. o.kind \in Kind
    BY DEF NewOrder, Kind
  <2>4. Submit(o, Rest) \/ Fails
    BY <1>6 DEF ensure_take_profit_order
  <2> QED BY <2>2, <2>3, <2>4, SubmitKeeps, FailsKeeps
<1>7. CASE clear_position_state
  <2>1. At("clear_position_state")
    BY <1>7 DEF clear_position_state
  <2>2. handler \in Running /\ Fit(handler, Rest)
    BY <2>1, RestIs, RestIsFit
  <2>3. Shaped(Cleared)
    BY DEF Shaped, Cleared, Fresh, NoAlgo
  <2> QED BY <1>7, <2>2, <2>3, GoesOn DEF clear_position_state, Local
<1> QED BY <1>2, <1>3, <1>4, <1>5, <1>6, <1>7 DEF ProfitSteps

(* What is left of the state once a balance has been read. *)
LEMMA CapsAreShaped ==
    ASSUME NEW s, Shaped(s)
    PROVE  Shaped(BalanceCaps(s))
<1>1. Shaped(Cleared)
  BY DEF Shaped, Cleared, Fresh, NoAlgo
<1>2. \A q : Shaped([s EXCEPT !.pos.qty = q])
  BY DEF Shaped
<1> QED BY <1>1, <1>2 DEF BalanceCaps

(* The steps on the stop-loss algo: after ensure_stop_loss_order the       *)
(* position has one, or the cancel of the one that does not match is next. *)
LEMMA StopStepsKeep ==
    ASSUME StepsInv, StopSteps
    PROVE  StepsInv'
<1>1. Shaped(st)
  BY DEF StepsInv
<1>2. CASE refresh_stop_loss_order
  <2>1. At("refresh_stop_loss_order")
    BY <1>2 DEF refresh_stop_loss_order
  <2>2. handler \in Running /\ Fit(handler, Rest)
    BY <2>1, RestIs, RestIsFit
  <2> DEFINE o == orders[st.sl.id]
             seen == [st EXCEPT !.sl = TrackAlgo(@.id, o, @.cxl)]
             back == [seen EXCEPT !.pending = "none"]
             gone == [st EXCEPT !.sl = NoAlgo]
  <2>3. \/ Then(orders, seen, loc, Rest)
        \/ Then(orders, back, loc, <<"ensure_take_profit_order">> \o Rest)
        \/ Then(orders, gone, loc, Rest)
        \/ Then(orders, st, loc, <<"stop_loss_history">> \o Rest)
    BY <1>2 DEF refresh_stop_loss_order, Local
  <2>4. Shaped(seen) /\ Shaped(gone)
    BY <1>1 DEF Shaped, TrackAlgo, NoAlgo
  <2>5. Shaped(back)
    <3> HIDE DEF seen
    <3> QED BY <2>4 DEF Shaped
  <2>6. /\ Prefix(handler, <<"ensure_take_profit_order">>)
        /\ Prefix(handler, <<"stop_loss_history">>)
    BY SinglePushes
  <2> HIDE DEF seen, back, gone
  <2> QED BY <1>1, <2>2, <2>3, <2>4, <2>5, <2>6, GoesOn
<1>3. CASE stop_loss_history
  <2>1. At("stop_loss_history")
    BY <1>3 DEF stop_loss_history
  <2>2. handler \in Running /\ Fit(handler, Rest)
    BY <2>1, RestIs, RestIsFit
  <2> DEFINE none == [st EXCEPT !.sl = NoAlgo]
             fired == <<"triggered_cancel_take_profit", "triggered_balance">>
  <2>3. \/ Then(orders, st, loc, fired \o Rest)
        \/ Then(orders, none, loc, fired \o Rest)
        \/ Then(orders, none, loc, Rest)
    BY <1>3 DEF stop_loss_history, Local
  <2>4. Shaped(none)
    BY <1>1 DEF Shaped, NoAlgo
  <2>5. Prefix(handler, fired)
    BY DoublePushes
  <2> HIDE DEF none, fired
  <2> QED BY <1>1, <2>2, <2>3, <2>4, <2>5, GoesOn
<1>4. CASE cancel_stop_loss_order
  <2>1. At("cancel_stop_loss_order")
    BY <1>4 DEF cancel_stop_loss_order
  <2>2. /\ handler \in Running /\ Rest \in Seq(StepName) /\ Quiet(Rest, 1)
        /\ handler = "shutdown" => NoBars(Rest)
        /\ handler # "shutdown" => \/ EndsProtected(Rest)
                                   \/ EntryFrom(Rest, 1) /\ st.sl.id # NoId
    BY <2>1, RestIs
  <2> PICK s : s = [st EXCEPT !.sl.cxl = TRUE]
    OBVIOUS
  <2>3. Shaped(s) /\ s.sl.cxl /\ s.sl.id = st.sl.id
    BY <1>1 DEF Shaped
  <2>4. st.sl.id # NoId => Covered(s)
    BY <2>3 DEF Covered
  <2>5. Ready(Rest, s)
    BY <2>2, <2>4 DEF Ready, SellsFirst, Guarded
  <2>6. PICK o : Call(st.sl.id, o, s, Rest)
    BY <1>4 DEF cancel_stop_loss_order
  <2> QED BY <2>2, <2>3, <2>5, <2>6, CallKeeps
<1>5. CASE ensure_stop_loss_order
  <2>1. At("ensure_stop_loss_order")
    BY <1>5 DEF ensure_stop_loss_order
  <2>2. /\ handler \in Running /\ Rest \in Seq(StepName) /\ Quiet(Rest, 1)
        /\ handler = "shutdown" => NoBars(Rest)
        /\ handler # "shutdown" => EndsProtected(Rest) \/ EntryFrom(Rest, 1)
    BY <2>1, RestIs
  <2>3. CASE Fails
    BY <2>3, FailsKeeps
  <2>4. CASE st.sl.id # NoId /\ Local(st, <<"cancel_stop_loss_order">> \o Rest)
    <3> DEFINE c == <<"cancel_stop_loss_order">> \o Rest
    <3>1. Prefix(handler, <<"cancel_stop_loss_order">>)
      BY SinglePushes
    <3>2. CASE handler = "shutdown" \/ EndsProtected(Rest)
      <4>1. Fit(handler, Rest)
        BY <2>2, <3>2 DEF Fit
      <4> QED BY <1>1, <2>2, <2>4, <3>1, <4>1, GoesOn DEF Local
    <3>3. CASE handler # "shutdown" /\ EntryFrom(Rest, 1)
      <4>1. /\ "cancel_stop_loss_order" \in StepName /\ Len(Rest) \in Nat
        BY <2>2, LenProperties DEF StepName
      <4>2. /\ c \in Seq(StepName) /\ Len(c) = 1 + Len(Rest) /\ c[1] = "cancel_stop_loss_order"
            /\ \A i \in 2 .. 1 + Len(Rest) : c[i] = Rest[i - 1]
        BY <2>2, <4>1, Prepended
      <4> HIDE DEF c
      <4>3. c # <<>>
        BY <4>1, <4>2
      <4>4. EntryFrom(c, 2)
        <5> SUFFICES ASSUME NEW i \in 2 .. Len(c) PROVE c[i] = "evaluate_entry"
          BY DEF EntryFrom
        <5>1. i - 1 \in 1 .. Len(Rest) /\ i \in 2 .. 1 + Len(Rest)
          BY <4>1, <4>2
        <5> QED BY <3>3, <4>2, <5>1 DEF EntryFrom
      <4>5. Quiet(c, 1)
        <5> SUFFICES ASSUME NEW i \in 1 .. Len(c) PROVE c[i] \notin Sells
          BY DEF Quiet
        <5>1. CASE i = 1
          BY <4>2, <5>1 DEF Sells
        <5>2. CASE i # 1
          <6>1. i \in 2 .. Len(c)
            BY <4>1, <4>2, <5>2
          <6> QED BY <4>4, <6>1 DEF EntryFrom, Sells
        <5> QED BY <5>1, <5>2
      <4>6. Ready(c, st)
        BY <2>4, <3>3, <4>2, <4>3, <4>4, <4>5 DEF Ready, SellsFirst, Guarded
      <4> QED BY <1>1, <2>2, <2>4, <4>6, ThenKeeps DEF Local, c
    <3> QED BY <2>2, <3>2, <3>3
  <2>5. CASE Submit(NewOrder("sl", st.pos.qty, st.pos.shape), Rest)
    <3> PICK o : o = NewOrder("sl", st.pos.qty, st.pos.shape)
      OBVIOUS
    <3>1. o.kind = "sl" /\ o.size = st.pos.qty /\ o.shape = st.pos.shape
      BY DEF NewOrder
    <3>2. PICK i \in FreeSlot(orders, o.kind, Used(st, rec)) : Call(i, o, Placed(i, o), Rest)
      BY <2>5 DEF Submit
    <3> PICK s : s = Placed(i, o)
      OBVIOUS
    <3>3. /\ Shaped(s) /\ s.pos = st.pos
          /\ s.sl.id = i /\ s.sl.size = o.size /\ s.sl.shape = o.shape
      BY <1>1, <3>1, PlacedIs DEF Kind
    <3>4. i # NoId
      <4>1. PICK n : i = <<"sl", n>>
        BY <3>1, <3>2 DEF FreeSlot
      <4>2. i[1] = "sl" /\ NoId[1] = "none"
        BY <4>1 DEF NoId
      <4> QED BY <4>2
    <3>5. Covered(s)
      BY <3>1, <3>3, <3>4 DEF Covered, StopMatches
    <3>6. Ready(Rest, s)
      BY <2>2, <3>5 DEF Ready, SellsFirst, Guarded
    <3> QED BY <2>2, <3>2, <3>3, <3>6, CallKeeps
  <2> QED BY <1>5, <2>3, <2>4, <2>5 DEF ensure_stop_loss_order
<1>6. CASE triggered_cancel_take_profit
  <2>1. At("triggered_cancel_take_profit")
    BY <1>6 DEF triggered_cancel_take_profit
  <2>2. handler \in Running /\ Fit(handler, Rest)
    BY <2>1, RestIs, RestIsFit
  <2> PICK s : s = [st EXCEPT !.tp.cxl = TRUE]
    OBVIOUS
  <2>3. Shaped(s)
    BY <1>1 DEF Shaped
  <2>4. Then(orders, st, loc, Rest) \/ \E o : Call(st.tp.id, o, s, Rest)
    BY <1>6 DEF triggered_cancel_take_profit, Local
  <2> QED BY <1>1, <2>2, <2>3, <2>4, GoesOn, FitIsReady, CallKeeps
<1>7. CASE triggered_balance
  <2>1. At("triggered_balance")
    BY <1>7 DEF triggered_balance
  <2>2. handler \in Running /\ Fit(handler, Rest)
    BY <2>1, RestIs, RestIsFit
  <2> PICK s : s = BalanceCaps(st)
    OBVIOUS
  <2> DEFINE u == IF HasPos(s) THEN [s EXCEPT !.sl = NoAlgo, !.pending = "exit"] ELSE Cleared
  <2>3. Shaped(s)
    BY <1>1, CapsAreShaped
  <2>4. Shaped(u)
    BY <2>3 DEF Shaped, Cleared, Fresh, NoAlgo
  <2>5. Fails \/ Then(orders, u, loc, Rest)
    BY <1>7 DEF triggered_balance, Local
  <2> HIDE DEF u
  <2> QED BY <2>2, <2>4, <2>5, GoesOn, FailsKeeps
<1> QED BY <1>2, <1>3, <1>4, <1>5, <1>6, <1>7 DEF StopSteps


(* The steps of a breach: the market exit, and what comes before it. *)
LEMMA ExitStepsKeep ==
    ASSUME StepsInv, ExitStepsNext
    PROVE  StepsInv'
<1>1. Shaped(st) /\ Shaped(Cleared)
  BY DEF StepsInv, Shaped, Cleared, Fresh, NoAlgo
<1>2. CASE refresh_stop_loss_exit_order
  <2>1. At("refresh_stop_loss_exit_order")
    BY <1>2 DEF refresh_stop_loss_exit_order
  <2>2. handler \in Running /\ Fit(handler, Rest)
    BY <2>1, RestIs, RestIsFit
  <2> DEFINE o == orders[st.exit.id]
             delta == o.filled - st.exit.last
             counted == [st EXCEPT !.pos = IF delta > 0 /\ HasPos(st) THEN Reduce(@, delta) ELSE @]
             seen == [counted EXCEPT !.exit.last = o.filled]
             over == [counted EXCEPT !.exit = NoTracked, !.pending = "exit"]
             gone == [st EXCEPT !.exit = NoTracked]
  <2>3. \/ Then(orders, gone, loc, <<"exit_balance">> \o Rest)
        \/ Then(orders, seen, loc, Rest)
        \/ Then(orders, over, loc, Rest)
        \/ Then(orders, Cleared, loc, Rest)
    BY <1>2 DEF refresh_stop_loss_exit_order, Local
  <2>4. Shaped(gone) /\ Shaped(counted)
    BY <1>1 DEF Shaped
  <2>5. Shaped(seen) /\ Shaped(over)
    <3> HIDE DEF counted
    <3> QED BY <2>4 DEF Shaped
  <2>6. Prefix(handler, <<"exit_balance">>)
    BY SinglePushes
  <2> HIDE DEF gone, seen, over
  <2> QED BY <1>1, <2>2, <2>3, <2>4, <2>5, <2>6, GoesOn
<1>3. CASE exit_balance
  <2>1. At("exit_balance")
    BY <1>3 DEF exit_balance
  <2>2. handler \in Running /\ Fit(handler, Rest)
    BY <2>1, RestIs, RestIsFit
  <2> PICK s : s = BalanceCaps(st)
    OBVIOUS
  <2> DEFINE u == IF HasPos(s) THEN [s EXCEPT !.pending = "exit"] ELSE s
  <2>3. Shaped(s)
    BY <1>1, CapsAreShaped
  <2>4. Shaped(u)
    BY <2>3 DEF Shaped
  <2>5. Fails \/ Then(orders, st, loc, Rest) \/ Then(orders, u, loc, Rest)
    BY <1>3 DEF exit_balance, Local
  <2> HIDE DEF u
  <2> QED BY <1>1, <2>2, <2>4, <2>5, GoesOn, FailsKeeps
<1>4. CASE cancel_stop_loss_exit_order
  <2>1. At("cancel_stop_loss_exit_order")
    BY <1>4 DEF cancel_stop_loss_exit_order
  <2>2. handler \in Running /\ Fit(handler, Rest)
    BY <2>1, RestIs, RestIsFit
  <2>3. Shaped([st EXCEPT !.exit.cxl = TRUE])
    BY <1>1 DEF Shaped
  <2> QED BY <1>4, <2>2, <2>3, FitIsReady, CallKeeps DEF cancel_stop_loss_exit_order
<1>5. CASE evaluate_stop_loss
  <2>1. At("evaluate_stop_loss")
    BY <1>5 DEF evaluate_stop_loss
  <2>2. handler \in Running /\ Fit(handler, Rest)
    BY <2>1, RestIs, RestIsFit
  <2> DEFINE was == Pending(st)
             s == [st EXCEPT !.pending = IF was THEN @ ELSE "local"]
  <2>3. \/ Then(orders, st, loc, Rest)
        \/ \E l : Then(orders, s, l, <<"evaluate_take_profit">> \o Rest)
        \/ st.tp.id = NoId /\ Then(orders, s, loc, ExitSteps(s, was) \o Rest)
    BY <1>5 DEF evaluate_stop_loss, Local
  <2>4. Shaped(s) /\ s.tp = st.tp
    BY <1>1 DEF Shaped
  <2>5. Prefix(handler, <<"evaluate_take_profit">>)
    BY SinglePushes
  <2> HIDE DEF s, was
  <2>6. CASE st.tp.id = NoId /\ Then(orders, s, loc, ExitSteps(s, was) \o Rest)
    BY <2>2, <2>4, <2>6, ExitStepsReady, ThenKeeps
  <2> QED BY <1>1, <2>2, <2>3, <2>4, <2>5, <2>6, GoesOn
<1>6. CASE evaluate_take_profit
  <2>1. At("evaluate_take_profit")
    BY <1>6 DEF evaluate_take_profit
  <2>2. handler \in Running /\ Fit(handler, Rest)
    BY <2>1, RestIs, RestIsFit
  <2> DEFINE o == orders[st.tp.id]
             delta == o.filled - st.tp.last
             s == [st EXCEPT !.tp = NoTracked,
                             !.pos = IF delta > 0 /\ ~loc.wasPending THEN Reduce(@, delta) ELSE @]
             l == [loc EXCEPT !.wasPending = FALSE]
  <2>3. \/ \E c : Then(orders, [st EXCEPT !.tp.cxl = c], l, Rest)
        \/ Then(orders, st, l, <<"cancel_take_profit_order">> \o Rest)
        \/ Then(orders, s, l, ExitSteps(s, loc.wasPending) \o Rest)
    BY <1>6 DEF evaluate_take_profit
  <2>4. Shaped(s) /\ s.tp.id = NoId /\ \A c : Shaped([st EXCEPT !.tp.cxl = c])
    BY <1>1 DEF Shaped, NoTracked
  <2>5. Prefix(handler, <<"cancel_take_profit_order">>)
    BY SinglePushes
  <2> HIDE DEF s, l
  <2>6. CASE Then(orders, s, l, ExitSteps(s, loc.wasPending) \o Rest)
    BY <2>2, <2>4, <2>6, ExitStepsReady, ThenKeeps
  <2> QED BY <1>1, <2>2, <2>3, <2>4, <2>5, <2>6, GoesOn
<1>7. CASE evaluate_balance
  <2>1. At("evaluate_balance")
    BY <1>7 DEF evaluate_balance
  <2>2. /\ handler \in Running /\ Rest \in Seq(StepName) /\ Untracked(st)
        /\ handler = "shutdown" => NoBars(Rest)
        /\ handler # "shutdown" => EndsProtected(Rest)
    BY <2>1, RestIs DEF Sells
  <2>3. /\ Len(Rest) \in Nat \ {0} /\ Rest # <<>>
        /\ Rest[1] = "place_market_exit" /\ Quiet(Rest, 2)
    <3>1. /\ todo \in Seq(StepName) /\ todo # <<>> /\ todo[1] = "evaluate_balance"
          /\ SellsFirst(todo, st)
      <4>1. todo \in Seq(StepName) /\ todo # <<>> /\ Head(todo) = "evaluate_balance"
        BY <2>1 DEF StepsInv, At
      <4>2. SellsFirst(todo, st)
        BY <2>2 DEF StepsInv
      <4> QED BY <4>1, <4>2, HeadTailProperties
    <3>2. 1 \in 1 .. Len(todo) /\ Len(todo) \in Nat
      BY <3>1, LenProperties, EmptySeq
    <3>3. ~Quiet(todo, 1)
      BY <3>1, <3>2 DEF Quiet, Sells
    <3>4. Len(todo) >= 2 /\ todo[1 + 1] = "place_market_exit" /\ Quiet(todo, 2 + 1)
      BY <3>1, <3>3 DEF SellsFirst
    <3>5. Len(Rest) = Len(todo) - 1 /\ Rest[1] = todo[1 + 1]
      BY <3>1, <3>2, <3>4, HeadTailProperties DEF Rest
    <3>6. Quiet(Rest, 2)
      BY <3>1, <3>4, TailIs DEF Rest
    <3> QED BY <3>2, <3>4, <3>5, <3>6
  <2>4. Fit(handler, Tail(Rest))
    <3>1. Quiet(Rest, 1 + 1)
      BY <2>3
    <3>2. Quiet(Tail(Rest), 1)
      BY <2>2, <2>3, <3>1, TailIs
    <3> QED BY <2>2, <2>3, <3>2, TailIs DEF Fit
  <2> PICK s : s = BalanceCaps(st)
    OBVIOUS
  <2>5. Shaped(s)
    BY <1>1, CapsAreShaped
  <2>6. Untracked(s)
    <3>1. Untracked(Cleared)
      BY DEF Untracked, Cleared, Fresh, NoTracked, NoAlgo
    <3>2. \A q : Untracked([st EXCEPT !.pos.qty = q])
      BY <1>1, <2>2 DEF Untracked, Shaped
    <3> QED BY <3>1, <3>2 DEF BalanceCaps
  <2>7. Ready(Rest, s)
    BY <2>2, <2>3, <2>6 DEF Ready, SellsFirst, Guarded
  <2>8. Fails \/ Then(orders, s, loc, Rest) \/ Then(orders, s, loc, Tail(Rest))
    BY <1>7 DEF evaluate_balance, Local
  <2>9. CASE Then(orders, s, loc, Rest)
    BY <2>2, <2>5, <2>7, <2>9, ThenKeeps
  <2> QED BY <2>2, <2>4, <2>5, <2>8, <2>9, GoesOn, FailsKeeps
<1>8. CASE place_market_exit
  <2>1. At("place_market_exit")
    BY <1>8 DEF place_market_exit
  <2>2. handler \in Running /\ Fit(handler, Rest)
    BY <2>1, RestIs, RestIsFit
  <2> PICK o : o = NewOrder("exit", st.pos.qty, 0)
    OBVIOUS
  <2>3. o.kind \in Kind
    BY DEF NewOrder, Kind
  <2>4. Submit(o, Rest) \/ Fails
    BY <1>8 DEF place_market_exit
  <2> QED BY <2>2, <2>3, <2>4, SubmitKeeps, FailsKeeps
<1> QED BY <1>2, <1>3, <1>4, <1>5, <1>6, <1>7, <1>8 DEF ExitStepsNext

(* The reads of the reconstruction, and its end. *)
LEMMA ReconstructedKeeps ==
    ASSUME StepsInv, handler \in Running, Fit(handler, Rest), NEW qty, Reconstructed(qty)
    PROVE  StepsInv'
<1> DEFINE pos == IF qty = 0 THEN NoPos ELSE [qty |-> qty, shape |-> atr]
           s == [entry |-> rec.entry, tp |-> rec.tp, sl |-> rec.sl, exit |-> rec.exit,
                 pos |-> pos, pending |-> IF rec.exit.id # NoId THEN "exit" ELSE "none"]
<1>1. Fails \/ Then(orders, s, loc, Rest)
  BY DEF Reconstructed, Local
<1>2. Shaped(s)
  BY DEF StepsInv, Shaped, ShapedRec
<1> HIDE DEF s
<1> QED BY <1>1, <1>2, GoesOn, FailsKeeps

(* One call after the other, the reconstruction works towards its end. *)
LEMMA ReconstructStepsKeep ==
    ASSUME StepsInv, ReconstructSteps
    PROVE  StepsInv'
<1>1. ShapedRec(rec) /\ ShapedRec(NoRec)
  BY DEF StepsInv, ShapedRec, NoRec, NoTracked, NoAlgo
<1>2. CASE reconstruct_open_orders
  <2>1. At("reconstruct_open_orders")
    BY <1>2 DEF reconstruct_open_orders
  <2>2. handler \in Running /\ Fit(handler, Rest)
    BY <2>1, RestIs, RestIsFit
  <2> DEFINE r == [NoRec EXCEPT !.entry = Found("entry"),
                                !.tp = Found("tp"), !.exit = Found("exit")]
  <2>3. Fails \/ Reads(r, <<"reconstruct_open_algos">> \o Rest)
    BY <1>2 DEF reconstruct_open_orders
  <2>4. ShapedRec(r)
    BY <1>1 DEF ShapedRec
  <2> HIDE DEF r
  <2> QED BY <2>2, <2>3, <2>4, ReadsKeeps, FailsKeeps
<1>3. CASE reconstruct_open_algos
  <2>1. At("reconstruct_open_algos")
    BY <1>3 DEF reconstruct_open_algos
  <2>2. handler \in Running /\ Fit(handler, Rest)
    BY <2>1, RestIs, RestIsFit
  <2> DEFINE live == Live(orders, "sl")
             a == IF live = {} THEN NoAlgo
                  ELSE LET i == CHOOSE i \in live : TRUE IN TrackAlgo(i, orders[i], FALSE)
             r == [rec EXCEPT !.sl = a]
  <2>3. Fails \/ Reads(r, <<"reconstruct_balance">> \o Rest)
    BY <1>3 DEF reconstruct_open_algos
  <2>4. DOMAIN a = {"id", "size", "shape", "cxl"}
    BY DEF TrackAlgo, NoAlgo
  <2>5. ShapedRec(r)
    <3> HIDE DEF a
    <3> QED BY <1>1, <2>4 DEF ShapedRec
  <2> HIDE DEF r
  <2> QED BY <2>2, <2>3, <2>5, ReadsKeeps, FailsKeeps
<1>4. CASE reconstruct_balance
  <2>1. At("reconstruct_balance")
    BY <1>4 DEF reconstruct_balance
  <2>2. handler \in Running /\ Fit(handler, Rest)
    BY <2>1, RestIs, RestIsFit
  <2> DEFINE r == [rec EXCEPT !.total = held]
  <2>3. Fails \/ Reads(r, <<"reconstruct_evidence">> \o Rest)
    BY <1>4 DEF reconstruct_balance
  <2>4. ShapedRec(r)
    BY <1>1 DEF ShapedRec
  <2> HIDE DEF r
  <2> QED BY <2>2, <2>3, <2>4, ReadsKeeps, FailsKeeps
<1>5. CASE reconstruct_evidence
  <2>1. At("reconstruct_evidence")
    BY <1>5 DEF reconstruct_evidence
  <2>2. handler \in Running /\ Fit(handler, Rest)
    BY <2>1, RestIs, RestIsFit
  <2>3. Reconstructed(Tradeable(rec.total)) \/ Reads(rec, <<"reconstruct_history">> \o Rest)
    BY <1>5 DEF reconstruct_evidence
  <2> QED BY <1>1, <2>2, <2>3, ReadsKeeps, ReconstructedKeeps
<1>6. CASE reconstruct_history
  <2>1. At("reconstruct_history")
    BY <1>6 DEF reconstruct_history
  <2>2. handler \in Running /\ Fit(handler, Rest)
    BY <2>1, RestIs, RestIsFit
  <2>3. Reconstructed(Tradeable(rec.total)) \/ Fails
    BY <1>6 DEF reconstruct_history
  <2> QED BY <2>2, <2>3, FailsKeeps, ReconstructedKeeps
<1> QED BY <1>2, <1>3, <1>4, <1>5, <1>6 DEF ReconstructSteps


(* The steps of a shutdown. *)
LEMMA ShutdownStepsKeep ==
    ASSUME StepsInv, ShutdownSteps
    PROVE  StepsInv'
<1>1. Shaped(st)
  BY DEF StepsInv
<1>2. PICK step : /\ At(step)
                  /\ step \notin {"ensure_stop_loss_order", "evaluate_entry",
                                  "cancel_stop_loss_order", "evaluate_balance"}
  BY DEF ShutdownSteps, cancel_shutdown_entry_order, shutdown_entry_closed,
         reconcile_shutdown_position, shutdown_take_profit_closed, shutdown_stop_loss_closed,
         shutdown_exit_closed, reconcile_shutdown_pending_stop_loss, shutdown_ambiguous,
         shutdown_retry_exit, shutdown_with_position, shutdown_protected
<1>3. handler \in Running /\ Fit(handler, Rest)
  BY <1>2, RestIs, RestIsFit
<1>4. CASE cancel_shutdown_entry_order
  <2>1. Prefix(handler, <<"cancel_tracked_entry_order", "refresh_entry_order",
                          "shutdown_entry_closed">>)
    BY LongPushes
  <2>2. \E l : Then(orders, st, l, <<"cancel_tracked_entry_order", "refresh_entry_order",
                                     "shutdown_entry_closed">> \o Rest)
    BY <1>4 DEF cancel_shutdown_entry_order
  <2> QED BY <1>1, <1>3, <2>1, <2>2, GoesOn
<1>5. CASE shutdown_entry_closed
  <2> DEFINE s == IF ~HasPos(st) /\ st.entry.id = loc.shutEntry
                  THEN [st EXCEPT !.entry = NoTracked] ELSE st
  <2>1. Shaped(s)
    BY <1>1 DEF Shaped
  <2>2. Fails \/ \E l : Then(orders, s, l, Rest)
    BY <1>5 DEF shutdown_entry_closed
  <2> HIDE DEF s
  <2> QED BY <1>3, <2>1, <2>2, GoesOn, FailsKeeps
<1>6. CASE reconcile_shutdown_position
  <2> DEFINE looks == <<"refresh_take_profit_order", "refresh_stop_loss_order",
                        "refresh_stop_loss_exit_order", "evaluate_stop_loss",
                        "reconcile_shutdown_pending_stop_loss", "shutdown_with_position">>
  <2>1. Prefix(handler, looks) /\ Prefix(handler, ShutdownWithoutPosition)
    BY LongPushes, NamedLists, PlainIsPrefix
  <2>2. \/ Then(orders, st, loc, looks \o Rest)
        \/ Then(orders, st, loc, ShutdownWithoutPosition \o Rest)
    BY <1>6 DEF reconcile_shutdown_position, Local
  <2> HIDE DEF looks
  <2> QED BY <1>1, <1>3, <2>1, <2>2, GoesOn
<1>7. CASE shutdown_take_profit_closed
  <2>1. Shaped([st EXCEPT !.tp = NoTracked])
    BY <1>1 DEF Shaped
  <2> QED BY <1>3, <1>7, <2>1, GoesOn, FailsKeeps DEF shutdown_take_profit_closed, Local
<1>8. CASE shutdown_stop_loss_closed
  BY <1>1, <1>3, <1>8, GoesOn, FailsKeeps DEF shutdown_stop_loss_closed, Local
<1>9. CASE shutdown_exit_closed
  <2>1. Shaped([st EXCEPT !.exit = NoTracked])
    BY <1>1 DEF Shaped
  <2> QED BY <1>3, <1>9, <2>1, GoesOn, FailsKeeps DEF shutdown_exit_closed, Local
<1>10. CASE reconcile_shutdown_pending_stop_loss
  <2>1. /\ Prefix(handler, <<"cancel_take_profit_order", "shutdown_ambiguous">>)
        /\ Prefix(handler, <<"refresh_take_profit_order", "shutdown_retry_exit">>)
    BY DoublePushes
  <2>2. \/ Then(orders, st, loc, Rest)
        \/ Then(orders, st, loc, <<"cancel_take_profit_order", "shutdown_ambiguous">> \o Rest)
        \/ Then(orders, st, loc, <<"refresh_take_profit_order", "shutdown_retry_exit">> \o Rest)
    BY <1>10 DEF reconcile_shutdown_pending_stop_loss, Local
  <2> QED BY <1>1, <1>3, <2>1, <2>2, GoesOn
<1>11. CASE shutdown_ambiguous
  BY <1>11, FailsKeeps DEF shutdown_ambiguous
<1>12. CASE shutdown_retry_exit
  <2>1. Prefix(handler, <<"evaluate_stop_loss">>)
    BY SinglePushes
  <2>2. Then(orders, st, loc, Rest) \/ Then(orders, st, loc, <<"evaluate_stop_loss">> \o Rest)
    BY <1>12 DEF shutdown_retry_exit, Local
  <2> QED BY <1>1, <1>3, <2>1, <2>2, GoesOn
<1>13. CASE shutdown_with_position
  <2> DEFINE p == EnsureProtection \o <<"shutdown_protected">>
  <2>1. Prefix(handler, p) /\ Prefix(handler, ShutdownWithoutPosition)
    BY SinglePushes, NamedLists, PlainConcat, PlainIsPrefix
  <2>2. \/ Then(orders, st, loc, p \o Rest)
        \/ Then(orders, st, loc, ShutdownWithoutPosition \o Rest)
    BY <1>13 DEF shutdown_with_position, Local
  <2> HIDE DEF p
  <2> QED BY <1>1, <1>3, <2>1, <2>2, GoesOn
<1>14. CASE shutdown_protected
  BY <1>1, <1>3, <1>14, GoesOn, FailsKeeps DEF shutdown_protected, Local
<1> QED BY <1>4, <1>5, <1>6, <1>7, <1>8, <1>9, <1>10, <1>11, <1>12, <1>13, <1>14
        DEF ShutdownSteps

-----------------------------------------------------------------------------
(* The theorem.                                                            *)

(* The process starts with the reconstruction of a fresh state. *)
LEMMA StepsInit ==
    ASSUME Init
    PROVE  StepsInv
<1>1. Fit("init", Program("init"))
  BY ProgramsAreFit DEF Running
<1>2. Shaped(Fresh) /\ ShapedRec(NoRec)
  BY DEF Shaped, ShapedRec, Fresh, NoRec, NoTracked, NoAlgo
<1>3. ~NoCall(Program("init")[1], Fresh)
  BY ReconstructionStarts
<1> QED BY <1>1, <1>2, <1>3 DEF Init, StepsInv, Fit, SellsFirst, Guarded

(* Every step of the system keeps StepsInv. *)
LEMMA StepsStep ==
    ASSUME StepsInv, [Next]_vars
    PROVE  StepsInv'
<1>1. CASE Steps
  BY <1>1, EntryStepsKeep, ProfitStepsKeep, StopStepsKeep, ExitStepsKeep,
     ReconstructStepsKeep, ShutdownStepsKeep DEF Steps
<1>2. CASE Abort
  <2>1. PICK h \in Outcomes({"error", "timeout"}) : Ends(orders, st, h)
    BY <1>2 DEF Abort
  <2> QED BY <2>1, OutcomesAre, EndsKeeps DEF StepsInv
<1>3. ASSUME NEW h \in Events, Dispatch(h) PROVE StepsInv'
  <2>1. h \in Running
    BY EventsAssumption DEF Running
  <2> PICK next : next = Advance(Program(h), st)
    OBVIOUS
  <2>2. next # <<>> /\ todo' = next /\ handler' = h /\ st' = st /\ rec' = rec
    BY <1>3 DEF Dispatch
  <2>3. h # "idle"
    BY EventsAssumption DEF Dispatchable
  <2>4. /\ Program(h) \in Seq(StepName) /\ SellsFirst(Program(h), st)
        /\ h = "shutdown" => NoBars(Program(h))
        /\ h # "shutdown" => Guarded(Program(h), st)
    BY <2>1, ProgramsAreFit DEF Fit, SellsFirst, Guarded
  <2>5. /\ next \in Seq(StepName) /\ SellsFirst(next, st) /\ ~NoCall(next[1], st)
        /\ h = "shutdown" => NoBars(next)
        /\ h # "shutdown" => Guarded(next, st)
    BY <2>2, <2>4, Advanced
  <2> QED BY <2>2, <2>3, <2>5 DEF StepsInv
<1>4. CASE Restart
  <2>1. Fit("init", Program("init"))
    BY ProgramsAreFit DEF Running
  <2>2. Shaped(Fresh)
    BY DEF Shaped, Fresh, NoAlgo
  <2>3. handler' = "init" /\ todo' = Program("init") /\ st' = Fresh /\ rec' = rec
    BY <1>4 DEF Restart
  <2>4. ~NoCall(Program("init")[1], Fresh)
    BY ReconstructionStarts
  <2> QED BY <2>1, <2>2, <2>3, <2>4 DEF StepsInv, Fit, SellsFirst, Guarded
<1>5. ASSUME handler' = handler, todo' = todo, st' = st, rec' = rec PROVE StepsInv'
  BY <1>5 DEF StepsInv
<1>6. CASE Exchange
  <2>1. PICK i \in Slot : Fill(i) \/ Canceled(i) \/ Trigger(i)
    BY <1>6 DEF Exchange
  <2>2. \E o, lots : ExchangeMoves(i, o, lots)
    BY <2>1 DEF Fill, Canceled, Trigger
  <2> QED BY <1>5, <2>2 DEF ExchangeMoves
<1>7. CASE UNCHANGED vars
  BY <1>5, <1>7 DEF vars
<1> QED BY <1>1, <1>2, <1>3, <1>4, <1>6, <1>7 DEF Next

(* Whenever a handler has returned Ok with a position open, the position   *)
(* is covered (enforce_tick_exit_protection, ensure_stop_loss_order): by a *)
(* stop-loss of its size and trigger or one being replaced, by a market    *)
(* exit, or by a breach the next tick acts on.                             *)
THEOREM PositionsAreProtected == Spec => []ProtectedWhenIdle
<1>1. StepsInv => ProtectedWhenIdle
  BY DEF StepsInv, Covered, ProtectedWhenIdle
<1> QED BY <1>1, StepsInit, StepsStep, PTL DEF Spec

-----------------------------------------------------------------------------
(* The orders a step may add.                                              *)

(* The step leaves no order resting that did not rest before. *)
NothingNew ==
    DOMAIN orders' = Slot /\ \A i \in Slot : IsLive(orders'[i]) => IsLive(orders[i])

(* The orders it adds are submitted beside none they would double. *)
AddsAlone ==
    /\ DOMAIN orders' = Slot
    /\ \A i \in Slot : IsLive(orders'[i]) /\ ~IsLive(orders[i]) =>
          /\ st[i[1]].id = NoId
          /\ i[1] \in {"tp", "sl"} => st.exit.id = NoId /\ ~Pending(st)
          /\ i[1] = "exit" => st.tp.id = NoId /\ st.sl.id = NoId

(* Recycling slots adds no order, *)
LEMMA RetiredIs ==
    \A os, s, r : /\ DOMAIN Retired(os, s, r) = Slot
                  /\ \A i \in Slot : IsLive(Retired(os, s, r)[i]) => IsLive(os[i])
<1>1. ~IsLive(NoOrder)
  BY DEF IsLive, NoOrder
<1> QED BY <1>1 DEF Retired

(* and changing one order adds that one at most. *)
LEMMA SetIs ==
    ASSUME DOMAIN orders = Slot, NEW i, NEW o
    PROVE  \A j \in Slot : IsLive(Set(i, o)[j]) => IsLive(orders[j]) \/ (j = i /\ IsLive(o))
BY DEF Set, IsLive

(* A step that computes, reads or fails adds none, *)
LEMMA ComputesNothingNew ==
    ASSUME NEW s, NEW r, orders' = Retired(orders, s, r)
    PROVE  NothingNew
BY RetiredIs DEF NothingNew

(* nor does a call that changes an order which rests, *)
LEMMA CallsNothingNew ==
    ASSUME DOMAIN orders = Slot, NEW i, NEW o, NEW s, NEW t, Call(i, o, s, t),
           IsLive(o) => IsLive(orders[i])
    PROVE  NothingNew
<1>1. \E u : orders' = Retired(Set(i, o), u, NoRec)
  BY DEF Call, Then, Unanswered, Ends
<1> QED BY <1>1, RetiredIs, SetIs DEF NothingNew

(* and a submission adds the one it is for. *)
LEMMA SubmitAdds ==
    ASSUME DOMAIN orders = Slot, NEW o, o.kind \in Kind, NEW t, Submit(o, t)
    PROVE  /\ DOMAIN orders' = Slot
           /\ \A j \in Slot : IsLive(orders'[j]) /\ ~IsLive(orders[j]) => j[1] = o.kind
<1>1. PICK i \in FreeSlot(orders, o.kind, Used(st, rec)) : Call(i, o, Placed(i, o), t)
  BY DEF Submit
<1>2. i[1] = o.kind
  <2>1. PICK n : i = <<o.kind, n>>
    BY <1>1 DEF FreeSlot
  <2> QED BY <2>1
<1>3. \E u : orders' = Retired(Set(i, o), u, NoRec)
  BY <1>1 DEF Call, Then, Unanswered, Ends
<1> QED BY <1>2, <1>3, RetiredIs, SetIs

(* A step that adds none adds none beside another. *)
LEMMA NothingIsAlone ==
    NothingNew => AddsAlone
BY DEF NothingNew, AddsAlone

(* An accepted cancel does not revive an order. *)
LEMMA CancelAdds ==
    ASSUME NEW o
    PROVE  IsLive(CancelAccepted(o)) => IsLive(o)
BY DEF IsLive, CancelAccepted

(* The steps on the entry order. *)
LEMMA EntryStepsAddAlone ==
    ASSUME StepsInv, DOMAIN orders = Slot, EntrySteps
    PROVE  AddsAlone
<1>1. CASE refresh_bars
  BY <1>1 DEF refresh_bars, AddsAlone
<1>2. CASE refresh_entry_order \/ refresh_entry_order_tail
  <2>1. \E s : orders' = Retired(orders, s, NoRec)
    BY <1>2 DEF refresh_entry_order, refresh_entry_order_tail, EntryTail, Local, Then
  <2> QED BY <2>1, ComputesNothingNew, NothingIsAlone
<1>3. CASE cancel_tracked_entry_order
  BY <1>3, CancelAdds, CallsNothingNew, NothingIsAlone DEF cancel_tracked_entry_order
<1>4. CASE evaluate_entry
  <2>1. CASE Local(st, Rest)
    BY <2>1, ComputesNothingNew, NothingIsAlone DEF Local, Then
  <2>2. CASE Submit(NewOrder("entry", EntrySize, 0), Rest)
    <3>1. ~NoCall("evaluate_entry", st)
      BY <1>4, RestIs DEF evaluate_entry
    <3>2. st.entry.id = NoId
      BY <3>1 DEF NoCall, EntryBlocked
    <3> PICK o : o = NewOrder("entry", EntrySize, 0)
      OBVIOUS
    <3>3. o.kind = "entry"
      BY DEF NewOrder
    <3> QED BY <2>2, <3>2, <3>3, SubmitAdds DEF AddsAlone, Kind
  <2> QED BY <1>4, <2>1, <2>2 DEF evaluate_entry
<1> QED BY <1>1, <1>2, <1>3, <1>4 DEF EntrySteps

(* The steps on the take-profit order: one is placed only where none is    *)
(* tracked and no exit is decided.                                         *)
LEMMA ProfitStepsAddAlone ==
    ASSUME StepsInv, DOMAIN orders = Slot, ProfitSteps
    PROVE  AddsAlone
<1>1. CASE refresh_take_profit_order \/ refresh_take_profit_order_tail \/ clear_position_state
  <2>1. \E s : orders' = Retired(orders, s, NoRec)
    BY <1>1 DEF refresh_take_profit_order, refresh_take_profit_order_tail, clear_position_state,
                ProfitTail, Local, Then
  <2> QED BY <2>1, ComputesNothingNew, NothingIsAlone
<1>2. CASE cancel_take_profit_order
  BY <1>2, CancelAdds, CallsNothingNew, NothingIsAlone DEF cancel_take_profit_order
<1>3. CASE amend_take_profit_order
  <2> DEFINE amended == [orders[st.tp.id] EXCEPT !.size = st.pos.qty, !.shape = atr]
  <2>1. \/ \E s : orders' = Retired(orders, s, NoRec)
        \/ IsLive(orders[st.tp.id]) /\ Call(st.tp.id, amended, st, Rest)
    BY <1>3 DEF amend_take_profit_order, Local, Then, Fails, FailsIn, Ends
  <2> HIDE DEF amended
  <2> QED BY <2>1, ComputesNothingNew, CallsNothingNew, NothingIsAlone
<1>4. CASE ensure_take_profit_order
  <2>1. ~NoCall("ensure_take_profit_order", st)
    BY <1>4, RestIs DEF ensure_take_profit_order
  <2>2. st.tp.id = NoId /\ st.exit.id = NoId /\ ~Pending(st)
    BY <2>1 DEF NoCall
  <2> PICK o : o = NewOrder("tp", st.pos.qty, atr)
    OBVIOUS
  <2>3. o.kind = "tp"
    BY DEF NewOrder
  <2>4. Submit(o, Rest) \/ \E s : orders' = Retired(orders, s, NoRec)
    BY <1>4 DEF ensure_take_profit_order, Fails, FailsIn, Ends
  <2> QED BY <2>2, <2>3, <2>4, SubmitAdds, ComputesNothingNew, NothingIsAlone DEF AddsAlone, Kind
<1> QED BY <1>1, <1>2, <1>3, <1>4 DEF ProfitSteps

(* The steps on the stop-loss algo: likewise. *)
LEMMA StopStepsAddAlone ==
    ASSUME StepsInv, DOMAIN orders = Slot, StopSteps
    PROVE  AddsAlone
<1>1. CASE refresh_stop_loss_order \/ stop_loss_history \/ triggered_balance
  <2>1. \E s : orders' = Retired(orders, s, NoRec)
    BY <1>1 DEF refresh_stop_loss_order, stop_loss_history, triggered_balance,
                Local, Then, Fails, FailsIn, Ends
  <2> QED BY <2>1, ComputesNothingNew, NothingIsAlone
<1>2. CASE cancel_stop_loss_order
  BY <1>2, CancelAdds, CallsNothingNew, NothingIsAlone DEF cancel_stop_loss_order
<1>3. CASE triggered_cancel_take_profit
  <2>1. \/ \E s : orders' = Retired(orders, s, NoRec)
        \/ \E s : Call(st.tp.id, CancelAccepted(orders[st.tp.id]), s, Rest)
    BY <1>3 DEF triggered_cancel_take_profit, Local, Then
  <2> QED BY <2>1, CancelAdds, ComputesNothingNew, CallsNothingNew, NothingIsAlone
<1>4. CASE ensure_stop_loss_order
  <2>1. ~NoCall("ensure_stop_loss_order", st)
    BY <1>4, RestIs DEF ensure_stop_loss_order
  <2>2. st.exit.id = NoId /\ ~Pending(st)
    BY <2>1 DEF NoCall
  <2> PICK o : o = NewOrder("sl", st.pos.qty, st.pos.shape)
    OBVIOUS
  <2>3. o.kind = "sl"
    BY DEF NewOrder
  <2>4. \/ st.sl.id = NoId /\ Submit(o, Rest)
        \/ \E s : orders' = Retired(orders, s, NoRec)
    BY <1>4 DEF ensure_stop_loss_order, Local, Then, Fails, FailsIn, Ends
  <2> QED BY <2>2, <2>3, <2>4, SubmitAdds, ComputesNothingNew, NothingIsAlone DEF AddsAlone, Kind
<1> QED BY <1>1, <1>2, <1>3, <1>4 DEF StopSteps

(* The steps of a breach: the market exit is sent with nothing tracked     *)
(* that sells.                                                             *)
LEMMA ExitStepsAddAlone ==
    ASSUME StepsInv, DOMAIN orders = Slot, ExitStepsNext
    PROVE  AddsAlone
<1>1. CASE \/ refresh_stop_loss_exit_order \/ exit_balance \/ evaluate_stop_loss
           \/ evaluate_take_profit \/ evaluate_balance
  <2>1. \E s : orders' = Retired(orders, s, NoRec)
    BY <1>1 DEF refresh_stop_loss_exit_order, exit_balance, evaluate_stop_loss,
                evaluate_take_profit, evaluate_balance, Local, Then, Fails, FailsIn, Ends
  <2> QED BY <2>1, ComputesNothingNew, NothingIsAlone
<1>2. CASE cancel_stop_loss_exit_order
  BY <1>2, CancelAdds, CallsNothingNew, NothingIsAlone DEF cancel_stop_loss_exit_order
<1>3. CASE place_market_exit
  <2>1. Untracked(st)
    BY <1>3, RestIs DEF place_market_exit, Sells
  <2> PICK o : o = NewOrder("exit", st.pos.qty, 0)
    OBVIOUS
  <2>2. o.kind = "exit"
    BY DEF NewOrder
  <2>3. Submit(o, Rest) \/ \E s : orders' = Retired(orders, s, NoRec)
    BY <1>3 DEF place_market_exit, Fails, FailsIn, Ends
  <2> QED BY <2>1, <2>2, <2>3, SubmitAdds, ComputesNothingNew, NothingIsAlone
          DEF AddsAlone, Untracked, Kind
<1> QED BY <1>1, <1>2, <1>3 DEF ExitStepsNext

(* The reconstruction and the shutdown submit nothing themselves. *)
LEMMA OtherStepsAddNothing ==
    ASSUME ReconstructSteps \/ ShutdownSteps
    PROVE  NothingNew
<1>1. CASE ReconstructSteps
  <2>1. \E s, r : orders' = Retired(orders, s, r)
    BY <1>1 DEF ReconstructSteps, reconstruct_open_orders, reconstruct_open_algos,
                reconstruct_balance, reconstruct_evidence, reconstruct_history, Reconstructed,
                Reads, Local, Then, Fails, FailsIn, Ends
  <2> QED BY <2>1, ComputesNothingNew
<1>2. CASE ShutdownSteps
  <2>1. \E s : orders' = Retired(orders, s, NoRec)
    BY <1>2 DEF ShutdownSteps, cancel_shutdown_entry_order, shutdown_entry_closed,
                reconcile_shutdown_position, shutdown_take_profit_closed,
                shutdown_stop_loss_closed, shutdown_exit_closed,
                reconcile_shutdown_pending_stop_loss, shutdown_ambiguous, shutdown_retry_exit,
                shutdown_with_position, shutdown_protected,
                Local, Then, Fails, FailsIn, Ends
  <2> QED BY <2>1, ComputesNothingNew
<1> QED BY <1>1, <1>2

(* Every step of the system submits alone what it submits. *)
LEMMA StepAddsAlone ==
    ASSUME StepsInv, DOMAIN orders = Slot, [Next]_vars
    PROVE  AddsAlone
<1>1. CASE Steps
  BY <1>1, EntryStepsAddAlone, ProfitStepsAddAlone, StopStepsAddAlone, ExitStepsAddAlone,
     OtherStepsAddNothing, NothingIsAlone DEF Steps
<1>2. CASE Abort \/ Restart
  <2>1. \E s : orders' = Retired(orders, s, NoRec)
    BY <1>2 DEF Abort, Ends, Restart
  <2> QED BY <2>1, ComputesNothingNew, NothingIsAlone
<1>3. CASE orders' = orders
  BY <1>3 DEF AddsAlone
<1>4. ASSUME NEW h \in Events, Dispatch(h) PROVE AddsAlone
  BY <1>3, <1>4 DEF Dispatch
<1>5. CASE Exchange
  <2>1. PICK i \in Slot : Fill(i) \/ Canceled(i) \/ Trigger(i)
    BY <1>5 DEF Exchange
  <2>2. IsLive(orders[i]) /\ \E o, lots : ExchangeMoves(i, o, lots)
    BY <2>1 DEF Fill, Canceled, Trigger
  <2>3. PICK o : orders' = Retired(Set(i, o), st, rec)
    BY <2>2 DEF ExchangeMoves
  <2>4. NothingNew
    BY <2>2, <2>3, RetiredIs, SetIs DEF NothingNew
  <2> QED BY <2>4, NothingIsAlone
<1>6. CASE UNCHANGED vars
  BY <1>3, <1>6 DEF vars
<1> QED BY <1>1, <1>2, <1>4, <1>5, <1>6 DEF Next

(* No order is submitted beside one that is tracked for its purpose, no    *)
(* protection beside an exit that is decided, and no market exit beside    *)
(* tracked protection (the early returns of ensure_take_profit_order,      *)
(* ensure_stop_loss_order, evaluate_entry and evaluate_stop_loss, calls    *)
(* before the submission).                                                 *)
THEOREM SubmissionsAreAlone == Spec => SubmitsAlone
<1> DEFINE SlotsInv == DOMAIN orders = Slot
<1>1. Init => StepsInv /\ SlotsInv
  BY StepsInit DEF Init
<1>2. StepsInv /\ SlotsInv /\ [Next]_vars => StepsInv' /\ AddsAlone
  BY StepAddsAlone, StepsStep
<1>3. AddsAlone => SlotsInv'
  BY DEF AddsAlone
<1>4. AddsAlone =>
         \A i \in Slot : IsLive(orders'[i]) /\ ~IsLive(orders[i]) =>
            /\ st[i[1]].id = NoId
            /\ i[1] \in {"tp", "sl"} => st.exit.id = NoId /\ ~Pending(st)
            /\ i[1] = "exit" => st.tp.id = NoId /\ st.sl.id = NoId
  BY DEF AddsAlone
<1> HIDE DEF SlotsInv
<1> QED BY <1>1, <1>2, <1>3, <1>4, PTL DEF Spec, SubmitsAlone
=============================================================================
