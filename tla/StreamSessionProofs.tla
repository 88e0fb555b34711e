------------------------- MODULE StreamSessionProofs -------------------------
(***************************************************************************)
(* One stream task in detail implements StreamLife, loses nothing silently *)
(* and keeps its hints in order, for every backoff, cache limit, channel   *)
(* capacity and set of keys.                                               *)
(***************************************************************************)
EXTENDS StreamSession, TLAPS, WellFoundedInduction, SequenceTheorems, FiniteSetTheorems

(* Events wait to be sent only while the run is past its login and no      *)
(* report is under way, so that a channel without room fails a live run.   *)
SendingInv == outgoing # <<>> => said = "none" /\ phase \in {"subscribing", "up"}

(* Any failure of a run is a step of StreamLife. *)
LEMMA FailureImplements ==
    ASSUME phase \in {"connecting", "login", "subscribing", "up"}, said = "none", FailsIn(phase)
    PROVE  Life!LifeNext
<1>1. CASE phase = "up"
  <2>1. Conn = "up" /\ Conn' = "down" /\ said' = "lost"
    BY <1>1 DEF FailsIn, Conn
  <2> QED BY <2>1 DEF Life!LifeNext, Life!Falls
<1>2. CASE phase # "up"
  <2>1. Conn = "down" /\ Conn' = "down" /\ said' = "failed"
    BY <1>2 DEF FailsIn, Conn
  <2> QED BY <2>1 DEF Life!LifeNext, Life!Says
<1> QED BY <1>1, <1>2

(* A step that only says something while the stream is not subscribed. *)
LEMMA TalkImplements ==
    ASSUME said = "none", said' \in {"trying", "failed"}, phase \notin {"up", "dead"},
           phase' \notin {"up", "dead"}
    PROVE  Life!LifeNext
<1>1. Conn = "down" /\ Conn' = "down"
  BY DEF Conn
<1> QED BY <1>1 DEF Life!LifeNext, Life!Says

(* A step that leaves phase and report alone is a stutter of StreamLife. *)
LEMMA QuietImplements ==
    ASSUME UNCHANGED <<phase, said>>
    PROVE  UNCHANGED Life!lifeVars
BY DEF Life!lifeVars, Conn

(* A message that arrives ends the run or leaves phase and report alone. *)
LEMMA ArrivesStep ==
    ASSUME NEW c, Arrives(c)
    PROVE  /\ phase \in {"subscribing", "up"} /\ Ready
           /\ \/ FailsIn(phase) /\ UNCHANGED outgoing
              \/ UNCHANGED <<phase, said>>
<1>1. PICK rows \in Messages(c) : \E bad \in 0 .. Len(rows) : Receive(c, rows, bad)
  BY DEF Arrives
<1>2. PICK bad \in 0 .. Len(rows) : Receive(c, rows, bad)
  BY <1>1
<1> QED BY <1>2 DEF Receive

(* Every step of the task is a step of StreamLife or invisible to it, and  *)
(* keeps the invariant.                                                    *)
LEMMA StepImplements ==
    ASSUME SendingInv, [Next]_vars
    PROVE  SendingInv' /\ [Life!LifeNext]_(Life!lifeVars)
<1> USE DEF SendingInv, Ready
<1>1. CASE Attempt \/ PublicConnected \/ PrivateConnected \/ LoggedIn
  BY <1>1, TalkImplements DEF Attempt, PublicConnected, PrivateConnected, LoggedIn, dataVars
<1>2. CASE PublicAcknowledged \/ PrivateAcknowledged
  <2>1. PICK c \in pending : Acknowledged(c)
    BY <1>2 DEF PublicAcknowledged, PrivateAcknowledged
  <2>2. CASE pending' = {}
    <3>1. Conn = "down" /\ said = "none" /\ Conn' = "up" /\ said' = "ack" /\ outgoing' = <<>>
      BY <2>1, <2>2 DEF Acknowledged, Conn, dataVars
    <3> QED BY <3>1 DEF Life!LifeNext, Life!Rises
  <2>3. CASE pending' # {}
    BY <2>1, <2>3, QuietImplements DEF Acknowledged, dataVars
  <2> QED BY <2>2, <2>3
<1>3. CASE Fails \/ LoginFails
  <2>1. /\ phase \in {"connecting", "login", "subscribing", "up"} /\ said = "none"
        /\ FailsIn(phase) /\ outgoing' = <<>>
    BY <1>3 DEF Fails, LoginFails
  <2> QED BY <2>1, FailureImplements
<1>4. CASE CannotSend \/ ReportOutcome
  BY <1>4, TalkImplements DEF CannotSend, ReportOutcome, dataVars
<1>5. CASE Ping \/ Pong
  BY <1>5, QuietImplements DEF Ping, Pong, dataVars
<1>6. CASE PublicData \/ PrivateData
  <2>1. \E c \in {"instruments", "tickers", "candle"} \cup
                 {"orders", "account", "fills", "orders-algo"} : Arrives(c)
    BY <1>6 DEF PublicData, PrivateData
  <2>2. /\ phase \in {"subscribing", "up"} /\ Ready
        /\ \/ FailsIn(phase) /\ UNCHANGED outgoing
           \/ UNCHANGED <<phase, said>>
    BY <2>1, ArrivesStep
  <2> QED BY <2>2, FailureImplements, QuietImplements
<1>7. CASE Send
  <2>1. UNCHANGED <<phase, said>> /\ outgoing # <<>>
    BY <1>7 DEF Send
  <2> QED BY <2>1, QuietImplements
<1>8. CASE SendTimesOut
  BY <1>8, FailureImplements DEF SendTimesOut
<1>9. CASE EngineTakes \/ UNCHANGED vars
  BY <1>9, QuietImplements DEF EngineTakes, vars
<1>10. CASE ScheduleReconnect
  BY <1>10, TalkImplements DEF ScheduleReconnect, dataVars
<1>11. CASE Wake
  <2>1. said' = said /\ Conn' = Conn /\ outgoing' = <<>>
    BY <1>11 DEF Wake, Conn, dataVars
  <2> QED BY <2>1 DEF Life!lifeVars
<1>12. CASE Heard
  <2>1. said # "none" /\ said' = "none" /\ Conn' = Conn /\ outgoing' = <<>>
    BY <1>12 DEF Heard, Conn, dataVars
  <2> QED BY <2>1 DEF Life!LifeNext, Life!Heard
<1>13. CASE Dies
  <2>1. Conn # "dead" /\ Conn' = "dead" /\ said' = "dead" /\ outgoing' = <<>>
    BY <1>13 DEF Dies, Conn
  <2> QED BY <2>1 DEF Life!LifeNext, Life!Ends
<1> QED
  BY <1>1, <1>2, <1>3, <1>4, <1>5, <1>6, <1>7, <1>8, <1>9, <1>10, <1>11, <1>12, <1>13 DEF Next

(* A stream task keeps the promise of StreamLife: the connection never     *)
(* changes without the report that says so (run_public_market_stream,      *)
(* run_private_stream, supervise_websocket_task).                          *)
THEOREM StreamImplementsLife == Spec => KeepsPromise
<1>1. Init => SendingInv /\ Life!LifeInit
  BY DEF Init, SendingInv, Life!LifeInit, Conn
<1>2. SendingInv /\ [Next]_vars => SendingInv' /\ [Life!LifeNext]_(Life!lifeVars)
  BY StepImplements
<1> QED BY <1>1, <1>2, PTL DEF Spec, KeepsPromise, Life!Spec

-----------------------------------------------------------------------------
(* The hints of a channel.                                                 *)

HintType(c) == [key : Keys[c], ts : Nat, confirm : BOOLEAN]
OnePerKey(hints) == \A i, j \in 1 .. Len(hints) : hints[i].key = hints[j].key => i = j

(* What every cache is: no two hints of a key, none without a timestamp. *)
Proper(c, hints) ==
    /\ hints \in Seq(HintType(c)) /\ OnePerKey(hints)
    /\ \A i \in 1 .. Len(hints) : hints[i].ts # NoTs

(* No hint of after is older than the one of before for the same key. *)
NoOlder(before, after) ==
    \A i \in 1 .. Len(before), j \in 1 .. Len(after) :
        before[i].key = after[j].key => before[i].ts <= after[j].ts

(* Of the keys in S none is forgotten. *)
Keeps(before, after, S) ==
    \A k \in 1 .. Len(before) :
        before[k].key \in S => \E j \in 1 .. Len(after) : after[j].key = before[k].key

(* A set of numbers that is not empty has a least one. *)
LEMMA LeastNumber ==
    ASSUME NEW S \in SUBSET Nat, S # {}
    PROVE  \E n \in S : \A m \in S : n <= m
<1>1. PICK n \in S : \A m \in S : ~(<<m, n>> \in OpToRel(<, Nat))
  BY NatLessThanWellFounded, WFMin
<1>2. ASSUME NEW m \in S PROVE n <= m
  <2>1. ~(m < n)
    BY <1>1 DEF OpToRel
  <2> QED BY <2>1
<1> QED BY <1>2

(* A sequence without the element at one place. *)
LEMMA RemoveAtIs ==
    ASSUME NEW T, NEW s \in Seq(T), NEW i \in 1 .. Len(s)
    PROVE  /\ RemoveAt(s, i) \in Seq(T) /\ Len(RemoveAt(s, i)) = Len(s) - 1
           /\ \A j \in 1 .. Len(s) - 1 : RemoveAt(s, i)[j] = IF j < i THEN s[j] ELSE s[j + 1]
<1>1. Len(s) \in Nat /\ i \in Nat /\ i >= 1 /\ i <= Len(s) /\ \A j \in 1 .. Len(s) : s[j] \in T
  BY LenProperties, ElementOfSeq
<1> DEFINE a == SubSeq(s, 1, i - 1)
           z == SubSeq(s, i + 1, Len(s))
<1>2. /\ 1 .. i - 1 \subseteq 1 .. Len(s) /\ i + 1 .. Len(s) \subseteq 1 .. Len(s)
      /\ i - 1 \in Int /\ i + 1 \in Int /\ Len(s) \in Int /\ 1 \in Int
  BY <1>1
<1>3. /\ a \in Seq(T) /\ Len(a) = i - 1
      /\ \A j \in 1 .. i - 1 : a[j] = s[j]
  <2>1. /\ a \in Seq(T) /\ Len(a) = (IF 1 <= i - 1 THEN (i - 1) - 1 + 1 ELSE 0)
        /\ \A j \in 1 .. (i - 1) - 1 + 1 : a[j] = s[1 + j - 1]
    BY <1>1, <1>2, SubSeqProperties
  <2> HIDE DEF a
  <2> QED BY <1>1, <2>1
<1>4. /\ z \in Seq(T) /\ Len(z) = Len(s) - i
      /\ \A j \in 1 .. Len(s) - i : z[j] = s[j + i]
  <2>1. /\ z \in Seq(T) /\ Len(z) = (IF i + 1 <= Len(s) THEN Len(s) - (i + 1) + 1 ELSE 0)
        /\ \A j \in 1 .. Len(s) - (i + 1) + 1 : z[j] = s[(i + 1) + j - 1]
    BY <1>1, <1>2, SubSeqProperties
  <2> HIDE DEF z
  <2>2. Len(z) = Len(s) - i
    BY <1>1, <2>1
  <2>3. ASSUME NEW j \in 1 .. Len(s) - i PROVE z[j] = s[j + i]
    <3>1. (i + 1) + j - 1 = j + i /\ j \in 1 .. Len(s) - (i + 1) + 1
      BY <1>1
    <3> QED BY <2>1, <3>1
  <2> QED BY <2>1, <2>2, <2>3
<1>5. RemoveAt(s, i) = a \o z
  BY DEF RemoveAt
<1> HIDE DEF a, z
<1>6. /\ a \o z \in Seq(T) /\ Len(a \o z) = Len(a) + Len(z)
      /\ \A j \in 1 .. Len(a) + Len(z) :
            (a \o z)[j] = IF j <= Len(a) THEN a[j] ELSE z[j - Len(a)]
  BY <1>3, <1>4, ConcatProperties
<1>7. ASSUME NEW j \in 1 .. Len(s) - 1
      PROVE  (a \o z)[j] = IF j < i THEN s[j] ELSE s[j + 1]
  <2>1. j \in 1 .. Len(a) + Len(z)
    BY <1>1, <1>3, <1>4
  <2>2. CASE j < i
    BY <1>1, <1>3, <1>6, <2>1, <2>2
  <2>3. CASE ~(j < i)
    <3>1. j - Len(a) \in 1 .. Len(s) - i /\ (j - Len(a)) + i = j + 1 /\ ~(j <= Len(a))
      BY <1>1, <1>3, <2>3
    <3> QED BY <1>4, <1>6, <2>1, <2>3, <3>1
  <2> QED BY <2>2, <2>3
<1> QED BY <1>1, <1>3, <1>4, <1>5, <1>6, <1>7

(* The hint that is evicted goes, the others stay. *)
LEMMA Removed ==
    ASSUME NEW c, NEW hints, Proper(c, hints), NEW i \in 1 .. Len(hints)
    PROVE  /\ Proper(c, RemoveAt(hints, i))
           /\ \A j \in 1 .. Len(RemoveAt(hints, i)) :
                 \E k \in 1 .. Len(hints) \ {i} : RemoveAt(hints, i)[j] = hints[k]
           /\ \A k \in 1 .. Len(hints) \ {i} :
                 \E j \in 1 .. Len(RemoveAt(hints, i)) : RemoveAt(hints, i)[j] = hints[k]
<1> DEFINE r == RemoveAt(hints, i)
           old(j) == IF j < i THEN j ELSE j + 1
<1>1. Len(hints) \in Nat /\ hints \in Seq(HintType(c))
  BY LenProperties DEF Proper
<1>2. /\ r \in Seq(HintType(c)) /\ Len(r) = Len(hints) - 1
      /\ \A j \in 1 .. Len(hints) - 1 : r[j] = IF j < i THEN hints[j] ELSE hints[j + 1]
  BY <1>1, RemoveAtIs
<1> HIDE DEF r
<1>3. ASSUME NEW j \in 1 .. Len(r)
      PROVE  old(j) \in 1 .. Len(hints) \ {i} /\ r[j] = hints[old(j)]
  <2>1. CASE j < i
    BY <1>1, <1>2, <2>1
  <2>2. CASE ~(j < i)
    BY <1>1, <1>2, <2>2
  <2> QED BY <2>1, <2>2
<1>4. ASSUME NEW k \in 1 .. Len(hints) \ {i}
      PROVE  \E j \in 1 .. Len(r) : r[j] = hints[k]
  <2>1. CASE k < i
    <3>1. k \in 1 .. Len(hints) - 1 /\ r[k] = hints[k]
      BY <1>1, <1>2, <2>1
    <3> QED BY <1>2, <3>1
  <2>2. CASE ~(k < i)
    <3>1. k - 1 \in 1 .. Len(hints) - 1 /\ ~(k - 1 < i) /\ (k - 1) + 1 = k
      BY <1>1, <2>2
    <3>2. r[k - 1] = hints[k]
      BY <1>2, <3>1
    <3> QED BY <1>2, <3>1, <3>2
  <2> QED BY <2>1, <2>2
<1>5. OnePerKey(r)
  <2> SUFFICES ASSUME NEW j \in 1 .. Len(r), NEW k \in 1 .. Len(r), r[j].key = r[k].key
               PROVE  j = k
    BY DEF OnePerKey
  <2>1. old(j) \in 1 .. Len(hints) /\ old(k) \in 1 .. Len(hints)
        /\ hints[old(j)].key = hints[old(k)].key
    BY <1>3
  <2>2. old(j) = old(k)
    <3> HIDE DEF old
    <3> QED BY <2>1 DEF Proper, OnePerKey
  <2> QED BY <1>1, <1>2, <2>2
<1>6. \A j \in 1 .. Len(r) : r[j].ts # NoTs
  BY <1>3 DEF Proper
<1>7. \A j \in 1 .. Len(r) : \E k \in 1 .. Len(hints) \ {i} : r[j] = hints[k]
  <2> HIDE DEF old
  <2> QED BY <1>3
<1> QED BY <1>2, <1>4, <1>5, <1>6, <1>7 DEF Proper, r

(* The hint of a key, where there is one. *)
LEMMA PlaceIs ==
    ASSUME NEW c, NEW hints, Proper(c, hints), NEW key, Cached(hints, key)
    PROVE  /\ Place(hints, key) \in 1 .. Len(hints) /\ hints[Place(hints, key)].key = key
           /\ \A i \in 1 .. Len(hints) : hints[i].key = key => hints[i] = HintOf(hints, key)
<1>1. DOMAIN hints = 1 .. Len(hints)
  BY LenProperties DEF Proper
<1>2. Place(hints, key) \in 1 .. Len(hints) /\ hints[Place(hints, key)].key = key
  BY <1>1 DEF Place, Cached
<1> QED BY <1>2 DEF HintOf, Proper, OnePerKey

(* Inserting replaces the hint of the key, if there is one. *)
LEMMA WithoutIs ==
    ASSUME NEW c, NEW hints, Proper(c, hints), NEW key
    PROVE  /\ Proper(c, Without(hints, key))
           /\ \A j \in 1 .. Len(Without(hints, key)) :
                 /\ Without(hints, key)[j].key # key
                 /\ \E k \in 1 .. Len(hints) : Without(hints, key)[j] = hints[k]
           /\ \A k \in 1 .. Len(hints) : hints[k].key # key =>
                 \E j \in 1 .. Len(Without(hints, key)) : Without(hints, key)[j] = hints[k]
<1>1. CASE Cached(hints, key)
  <2> DEFINE i == Place(hints, key)
             r == RemoveAt(hints, i)
  <2>1. i \in 1 .. Len(hints) /\ hints[i].key = key
    BY <1>1, PlaceIs
  <2>2. Without(hints, key) = r
    BY <1>1 DEF Without
  <2> HIDE DEF i
  <2>3. /\ Proper(c, r)
        /\ \A j \in 1 .. Len(r) : \E k \in 1 .. Len(hints) \ {i} : r[j] = hints[k]
        /\ \A k \in 1 .. Len(hints) \ {i} : \E j \in 1 .. Len(r) : r[j] = hints[k]
    BY <2>1, Removed
  <2> HIDE DEF r
  <2>4. \A k \in 1 .. Len(hints) : k # i => hints[k].key # key
    BY <2>1 DEF Proper, OnePerKey
  <2>5. \A j \in 1 .. Len(r) : r[j].key # key /\ \E k \in 1 .. Len(hints) : r[j] = hints[k]
    BY <2>3, <2>4
  <2>6. \A k \in 1 .. Len(hints) : hints[k].key # key => \E j \in 1 .. Len(r) : r[j] = hints[k]
    BY <2>1, <2>3
  <2> QED BY <2>2, <2>3, <2>5, <2>6
<1>2. CASE ~Cached(hints, key)
  <2>1. DOMAIN hints = 1 .. Len(hints)
    BY LenProperties DEF Proper
  <2>2. \A k \in 1 .. Len(hints) : hints[k].key # key
    BY <1>2, <2>1 DEF Cached
  <2> QED BY <1>2, <2>2 DEF Without
<1> QED BY <1>1, <1>2

(* The hints of a are row and those of other keys. *)
IsAppended(hints, row, a) ==
    /\ \A j \in 1 .. Len(a) :
          a[j] = row \/ \E k \in 1 .. Len(hints) : a[j] = hints[k] /\ hints[k].key # row.key
    /\ \E j \in 1 .. Len(a) : a[j] = row
    /\ \A k \in 1 .. Len(hints) : hints[k].key # row.key =>
          \E j \in 1 .. Len(a) : a[j] = hints[k]

(* The new hint is received last. *)
LEMMA AppendedIs ==
    ASSUME NEW c, NEW hints, Proper(c, hints), NEW row \in HintType(c), row.ts # NoTs,
           NEW a, a = Append(Without(hints, row.key), row)
    PROVE  Proper(c, a) /\ IsAppended(hints, row, a)
<1> DEFINE w == Without(hints, row.key)
<1>1. /\ Proper(c, w)
      /\ \A j \in 1 .. Len(w) : w[j].key # row.key /\ \E k \in 1 .. Len(hints) : w[j] = hints[k]
      /\ \A k \in 1 .. Len(hints) : hints[k].key # row.key =>
            \E j \in 1 .. Len(w) : w[j] = hints[k]
  BY WithoutIs
<1>2. a = Append(w, row)
  OBVIOUS
<1> HIDE DEF w
<1>3. w \in Seq(HintType(c)) /\ Len(w) \in Nat
  BY <1>1, LenProperties DEF Proper
<1>4. /\ a \in Seq(HintType(c)) /\ Len(a) = Len(w) + 1 /\ a[Len(w) + 1] = row
      /\ \A j \in 1 .. Len(w) : a[j] = w[j]
  BY <1>2, <1>3
<1>5. OnePerKey(a)
  <2> SUFFICES ASSUME NEW i \in 1 .. Len(a), NEW j \in 1 .. Len(a), a[i].key = a[j].key
               PROVE  i = j
    BY DEF OnePerKey
  <2>1. CASE i \in 1 .. Len(w) /\ j \in 1 .. Len(w)
    BY <1>1, <1>4, <2>1 DEF Proper, OnePerKey
  <2>2. CASE i = Len(w) + 1 /\ j \in 1 .. Len(w)
    BY <1>1, <1>4, <2>2
  <2>3. CASE j = Len(w) + 1 /\ i \in 1 .. Len(w)
    BY <1>1, <1>4, <2>3
  <2> QED BY <1>3, <1>4, <2>1, <2>2, <2>3
<1>6. ASSUME NEW j \in 1 .. Len(a)
      PROVE  /\ a[j].ts # NoTs
             /\ a[j] = row \/ \E k \in 1 .. Len(hints) : a[j] = hints[k] /\ hints[k].key # row.key
  <2>1. CASE j \in 1 .. Len(w)
    <3>1. PICK k \in 1 .. Len(hints) : w[j] = hints[k]
      BY <1>1, <2>1
    <3> QED BY <1>1, <1>4, <2>1, <3>1 DEF Proper
  <2>2. CASE j = Len(w) + 1
    BY <1>4, <2>2
  <2> QED BY <1>3, <1>4, <2>1, <2>2
<1>7. Len(w) + 1 \in 1 .. Len(a) /\ \A j \in 1 .. Len(w) : j \in 1 .. Len(a)
  BY <1>3, <1>4
<1>8. ASSUME NEW k \in 1 .. Len(hints), hints[k].key # row.key
      PROVE  \E j \in 1 .. Len(a) : a[j] = hints[k]
  <2>1. PICK j \in 1 .. Len(w) : w[j] = hints[k]
    BY <1>1, <1>8
  <2> QED BY <1>4, <1>7, <2>1
<1> QED BY <1>4, <1>5, <1>6, <1>7, <1>8 DEF Proper, IsAppended

(* The type of what a cache holds. *)
LEMMA HintsAre ==
    ASSUME NEW c, NEW hints, Proper(c, hints)
    PROVE  /\ Len(hints) \in Nat /\ DOMAIN hints = 1 .. Len(hints)
           /\ \A i \in 1 .. Len(hints) :
                 /\ hints[i] \in HintType(c)
                 /\ hints[i].key \in Keys[c] /\ hints[i].ts \in Nat
<1>1. \A i \in 1 .. Len(hints) : hints[i] \in HintType(c)
  BY ElementOfSeq DEF Proper
<1> QED BY <1>1, LenProperties DEF Proper, HintType

(* The numbers up to n are n. *)
LEMMA UpTo ==
    ASSUME NEW n \in Nat
    PROVE  IsFiniteSet(1 .. n) /\ Cardinality(1 .. n) = n
<1>1. 1 \in Int /\ n \in Int
  OBVIOUS
<1>2. IsFiniteSet(1 .. n) /\ Cardinality(1 .. n) = IF 1 > n THEN 0 ELSE n - 1 + 1
  BY <1>1, FS_Interval
<1> QED BY <1>2

(* There are no more hints than keys. *)
LEMMA NoMoreThanKeys ==
    ASSUME NEW c, NEW hints, Proper(c, hints), NEW S, IsFiniteSet(S),
           \A i \in 1 .. Len(hints) : hints[i].key \in S
    PROVE  Len(hints) <= Cardinality(S)
<1>1. Len(hints) \in Nat /\ Cardinality(S) \in Nat
  BY LenProperties, FS_CardinalityType DEF Proper
<1>2. IsFiniteSet(1 .. Len(hints)) /\ Cardinality(1 .. Len(hints)) = Len(hints)
  BY <1>1, UpTo
<1> SUFFICES ASSUME Cardinality(S) < Len(hints) PROVE FALSE
  BY <1>1
<1> DEFINE f == [i \in 1 .. Len(hints) |-> hints[i].key]
<1>3. f \in [1 .. Len(hints) -> S]
  OBVIOUS
<1>4. \A i \in 1 .. Len(hints) : f[i] = hints[i].key
  OBVIOUS
<1> HIDE DEF f
<1>5. \E i, j \in 1 .. Len(hints) : i # j /\ f[i] = f[j]
  BY <1>2, <1>3, FS_PigeonHole
<1> QED BY <1>4, <1>5 DEF Proper, OnePerKey

(* The hint to evict is one of the hints, and no configured instrument's. *)
LEMMA VictimIs ==
    ASSUME NEW c \in Channels, NEW hints, Proper(c, hints), Len(hints) > Limit
    PROVE  /\ Victim(c, hints) \in 1 .. Len(hints)
           /\ c = "instruments" => hints[Victim(c, hints)].key \notin Configured
<1>1. Len(hints) \in Nat /\ DOMAIN hints = 1 .. Len(hints) /\ Limit \in Nat \ {0}
      /\ \A i \in 1 .. Len(hints) : hints[i] \in HintType(c)
  BY LenProperties, ElementOfSeq, LimitAssumption DEF Proper
<1>2. 1 \in 1 .. Len(hints)
  BY <1>1
<1>3. CASE c = "candle"
  <2> DEFINE opens == {hints[i].key : i \in 1 .. Len(hints)}
  <2>1. \A i \in 1 .. Len(hints) : hints[i].key \in Nat
    BY <1>1, <1>3, KeysAssumption DEF HintType
  <2>2. opens \in SUBSET Nat /\ opens # {}
    BY <1>2, <2>1
  <2>3. PICK n \in opens : \A m \in opens : n <= m
    <3> HIDE DEF opens
    <3> QED BY <2>2, LeastNumber
  <2>4. \E i \in 1 .. Len(hints) : \A j \in 1 .. Len(hints) : hints[i].key <= hints[j].key
    BY <2>3
  <2>5. Victim(c, hints) =
          CHOOSE i \in DOMAIN hints : \A j \in DOMAIN hints : hints[i].key <= hints[j].key
    BY <1>3 DEF Victim
  <2> QED BY <1>1, <1>3, <2>4, <2>5
<1>4. CASE c # "candle" /\ c # "instruments"
  <2>1. Victim(c, hints) = 1
    BY <1>4 DEF Victim
  <2> QED BY <1>2, <1>4, <2>1
<1>5. CASE c = "instruments"
  <2> DEFINE spared == {i \in 1 .. Len(hints) : hints[i].key \notin Configured}
  <2>1. spared # {}
    <3> SUFFICES ASSUME \A i \in 1 .. Len(hints) : hints[i].key \in Configured PROVE FALSE
      OBVIOUS
    <3>1. Len(hints) <= Cardinality(Configured)
      BY NoMoreThanKeys, KeysAssumption
    <3>2. Cardinality(Configured) \in Nat /\ Cardinality(Configured) <= Limit
      BY KeysAssumption, LimitAssumption, FS_CardinalityType
    <3> QED BY <1>1, <3>1, <3>2
  <2>2. spared \in SUBSET Nat
    BY <1>1
  <2>3. \E i \in spared : \A j \in spared : i <= j
    <3> HIDE DEF spared
    <3> QED BY <2>1, <2>2, LeastNumber
  <2>4. Victim(c, hints) = CHOOSE i \in spared : \A j \in spared : i <= j
    BY <1>1, <1>5, <2>1 DEF Victim
  <2>5. Victim(c, hints) \in spared
    <3> HIDE DEF spared
    <3> QED BY <2>3, <2>4
  <2> QED BY <2>5
<1> QED BY <1>3, <1>4, <1>5

(* An eviction takes one hint at most, none where all keys have room, and  *)
(* spares the configured instruments.                                      *)
LEMMA EvictedIs ==
    ASSUME NEW c \in Channels, NEW hints, Proper(c, hints)
    PROVE  /\ Proper(c, Evicted(c, hints))
           /\ \A j \in 1 .. Len(Evicted(c, hints)) :
                 \E k \in 1 .. Len(hints) : Evicted(c, hints)[j] = hints[k]
           /\ c = "instruments" =>
                 \A k \in 1 .. Len(hints) : hints[k].key \in Configured =>
                    \E j \in 1 .. Len(Evicted(c, hints)) : Evicted(c, hints)[j] = hints[k]
           /\ Cardinality(Keys[c]) <= Limit => Evicted(c, hints) = hints
<1>1. CASE Len(hints) > Limit
  <2> DEFINE v == Victim(c, hints)
             r == RemoveAt(hints, v)
  <2>1. v \in 1 .. Len(hints) /\ (c = "instruments" => hints[v].key \notin Configured)
    BY <1>1, VictimIs
  <2>2. Evicted(c, hints) = r
    BY <1>1 DEF Evicted
  <2> HIDE DEF v
  <2>3. /\ Proper(c, r)
        /\ \A j \in 1 .. Len(r) : \E k \in 1 .. Len(hints) \ {v} : r[j] = hints[k]
        /\ \A k \in 1 .. Len(hints) \ {v} : \E j \in 1 .. Len(r) : r[j] = hints[k]
    BY <2>1, Removed
  <2> HIDE DEF r
  <2>4. c = "instruments" =>
            \A k \in 1 .. Len(hints) : hints[k].key \in Configured =>
               \E j \in 1 .. Len(r) : r[j] = hints[k]
    BY <2>1, <2>3
  <2>5. ~(Cardinality(Keys[c]) <= Limit)
    <3>1. IsFiniteSet(Keys[c]) /\ \A i \in 1 .. Len(hints) : hints[i].key \in Keys[c]
      BY KeysAssumption, HintsAre
    <3>2. Len(hints) <= Cardinality(Keys[c]) /\ Cardinality(Keys[c]) \in Nat
      BY <3>1, NoMoreThanKeys, FS_CardinalityType
    <3>3. Len(hints) \in Nat /\ Limit \in Nat
      BY LenProperties, LimitAssumption DEF Proper
    <3> QED BY <1>1, <3>2, <3>3
  <2> QED BY <2>2, <2>3, <2>4, <2>5
<1>2. CASE ~(Len(hints) > Limit)
  BY <1>2 DEF Evicted
<1> QED BY <1>1, <1>2

(* What applying a row does to the hints. *)
LEMMA AppliedIs ==
    ASSUME NEW c \in Channels, NEW hints, Proper(c, hints), NEW row \in HintType(c)
    PROVE  /\ Proper(c, Applied(c, hints, row))
           /\ NoOlder(hints, Applied(c, hints, row))
           /\ \A j \in 1 .. Len(Applied(c, hints, row)) :
                 \/ Applied(c, hints, row)[j] = row /\ ~ShouldIgnore(hints, row)
                 \/ \E k \in 1 .. Len(hints) : Applied(c, hints, row)[j] = hints[k]
           /\ c = "instruments" => Keeps(hints, Applied(c, hints, row), Configured)
           /\ Cardinality(Keys[c]) <= Limit => Keeps(hints, Applied(c, hints, row), Keys[c])
<1>1. CASE ShouldIgnore(hints, row)
  <2>1. Applied(c, hints, row) = hints
    BY <1>1 DEF Applied
  <2>2. NoOlder(hints, hints)
    <3>1. \A i \in 1 .. Len(hints) : hints[i].ts \in Nat
      BY HintsAre
    <3> QED BY <3>1 DEF NoOlder, Proper, OnePerKey
  <2>3. \A S : Keeps(hints, hints, S)
    BY DEF Keeps
  <2> QED BY <2>1, <2>2, <2>3
<1>2. CASE ~ShouldIgnore(hints, row)
  <2>0. PICK a, e : a = Append(Without(hints, row.key), row) /\ e = Evicted(c, a)
    OBVIOUS
  <2>1. row.ts # NoTs /\ (Cached(hints, row.key) => ~(row.ts < HintOf(hints, row.key).ts))
    BY <1>2 DEF ShouldIgnore
  <2>2. Applied(c, hints, row) = e
    BY <1>2, <2>0 DEF Applied, Inserted
  <2>3. Proper(c, a) /\ IsAppended(hints, row, a)
    BY <2>0, <2>1, AppendedIs
  <2>4. /\ Proper(c, e)
        /\ \A j \in 1 .. Len(e) : \E k \in 1 .. Len(a) : e[j] = a[k]
        /\ c = "instruments" =>
              \A k \in 1 .. Len(a) : a[k].key \in Configured => \E j \in 1 .. Len(e) : e[j] = a[k]
        /\ Cardinality(Keys[c]) <= Limit => e = a
    <3>1. Proper(c, a)
      BY <2>3
    <3>2. e = Evicted(c, a)
      BY <2>0
    <3> QED BY <3>1, <3>2, EvictedIs
  <2>5. \A j \in 1 .. Len(e) :
          e[j] = row \/ \E k \in 1 .. Len(hints) : e[j] = hints[k] /\ hints[k].key # row.key
    BY <2>3, <2>4 DEF IsAppended
  <2>6. NoOlder(hints, e)
    <3> SUFFICES ASSUME NEW i \in 1 .. Len(hints), NEW j \in 1 .. Len(e),
                        hints[i].key = e[j].key
                 PROVE  hints[i].ts <= e[j].ts
      BY DEF NoOlder
    <3>1. hints[i].ts \in Nat /\ row.ts \in Nat
      <4>1. hints[i].ts \in Nat
        BY HintsAre
      <4> QED BY <4>1 DEF HintType
    <3>2. CASE e[j] = row
      <4>1. Cached(hints, row.key) /\ hints[i] = HintOf(hints, row.key)
        <5>1. Cached(hints, row.key)
          BY <3>2, LenProperties DEF Proper, Cached
        <5> QED BY <3>2, <5>1, PlaceIs
      <4> QED BY <2>1, <3>1, <3>2, <4>1
    <3>3. CASE \E k \in 1 .. Len(hints) : e[j] = hints[k] /\ hints[k].key # row.key
      BY <3>1, <3>3, SMTT(30) DEF Proper, OnePerKey
    <3> QED BY <2>5, <3>2, <3>3
  <2>7. ASSUME NEW k \in 1 .. Len(hints) PROVE \E j \in 1 .. Len(a) : a[j].key = hints[k].key
    <3>1. CASE hints[k].key = row.key
      BY <2>3, <3>1 DEF IsAppended
    <3>2. CASE hints[k].key # row.key
      BY <2>3, <3>2 DEF IsAppended
    <3> QED BY <3>1, <3>2
  <2>8. c = "instruments" => Keeps(hints, e, Configured)
    <3> SUFFICES ASSUME c = "instruments", NEW k \in 1 .. Len(hints), hints[k].key \in Configured
                 PROVE  \E j \in 1 .. Len(e) : e[j].key = hints[k].key
      BY DEF Keeps
    <3>1. PICK m \in 1 .. Len(a) : a[m].key = hints[k].key
      BY <2>7
    <3>2. PICK j \in 1 .. Len(e) : e[j] = a[m]
      BY <2>4, <3>1
    <3> QED BY <3>1, <3>2
  <2>9. Cardinality(Keys[c]) <= Limit => Keeps(hints, e, Keys[c])
    BY <2>4, <2>7 DEF Keeps
  <2>10. \A j \in 1 .. Len(e) :
          (e[j] = row /\ ~ShouldIgnore(hints, row)) \/ \E k \in 1 .. Len(hints) : e[j] = hints[k]
    BY <1>2, <2>5
  <2>11. Proper(c, e)
    BY <2>4
  <2> QED BY <2>2, <2>6, <2>8, <2>9, <2>10, <2>11
<1> QED BY <1>1, <1>2

-----------------------------------------------------------------------------
(* A message.                                                              *)

Start(hints) == [hints |-> hints, events |-> <<>>]

(* The rows of a message are handled in turn. *)
LEMMA HandledIs ==
    ASSUME NEW c, NEW hints, NEW rows
    PROVE  /\ Len(rows) = 0 => Handled(c, hints, rows) = Start(hints)
           /\ Len(rows) = 1 => Handled(c, hints, rows) = HandleRow(c, Start(hints), rows[1])
           /\ Len(rows) = 2 => Handled(c, hints, rows) =
                                  HandleRow(c, HandleRow(c, Start(hints), rows[1]), rows[2])
<1> DEFINE n == Len(rows)
           first == HandleRow(c, Start(hints), rows[1])
           second == HandleRow(c, first, rows[2])
           Is(f) == f = [i \in 0 .. n |-> IF i = 0 THEN Start(hints)
                                           ELSE HandleRow(c, f[i - 1], rows[i])]
           found == [i \in 0 .. n |-> IF i = 0 THEN Start(hints) ELSE IF i = 1 THEN first ELSE second]
<1>1. Trail(c, hints, rows) = CHOOSE f : Is(f)
  BY DEF Trail, Start
<1> HIDE DEF n, second, first
<1>2. ASSUME n \in {0, 1, 2} PROVE Is(found)
  <2> SUFFICES ASSUME NEW i \in 0 .. n, i # 0
               PROVE  HandleRow(c, found[i - 1], rows[i]) = IF i = 1 THEN first ELSE second
    OBVIOUS
  <2>1. CASE i = 1
    <3>1. found[i - 1] = Start(hints)
      BY <2>1, <1>2
    <3> QED BY <2>1, <3>1 DEF first
  <2>2. CASE i = 2
    <3>1. found[i - 1] = first
      BY <2>2, <1>2
    <3> QED BY <2>2, <3>1 DEF second
  <2> QED BY <1>2, <2>1, <2>2
<1> HIDE DEF found
<1>3. ASSUME n \in {0, 1, 2} PROVE Is(Trail(c, hints, rows))
  <2> HIDE DEF Is
  <2> QED BY <1>1, <1>2, <1>3
<1> DEFINE t == Trail(c, hints, rows)
<1>4. Handled(c, hints, rows) = t[n]
  BY DEF Handled, n
<1> HIDE DEF t
<1>5. ASSUME n \in {0, 1, 2}
      PROVE  \A i \in 0 .. n : t[i] = IF i = 0 THEN Start(hints)
                                      ELSE HandleRow(c, t[i - 1], rows[i])
  BY <1>3, <1>5 DEF t
<1>6. n = 0 => t[n] = Start(hints)
  BY <1>5
<1>7. n = 1 => t[n] = first
  <2> SUFFICES ASSUME n = 1 PROVE t[1] = first
    OBVIOUS
  <2>1. t[0] = Start(hints)
    BY <1>5
  <2>2. t[1] = HandleRow(c, t[1 - 1], rows[1])
    BY <1>5
  <2> QED BY <2>1, <2>2 DEF first
<1>8. n = 2 => t[n] = second
  <2> SUFFICES ASSUME n = 2 PROVE t[2] = second
    OBVIOUS
  <2>1. t[0] = Start(hints)
    BY <1>5
  <2>2. t[1] = HandleRow(c, t[1 - 1], rows[1])
    BY <1>5
  <2>3. t[2] = HandleRow(c, t[2 - 1], rows[2])
    BY <1>5
  <2> QED BY <2>1, <2>2, <2>3 DEF first, second
<1> QED BY <1>4, <1>6, <1>7, <1>8 DEF n, first, second

(* Handling one row. *)
LEMMA RowHandled ==
    ASSUME NEW c \in Channels, NEW now, Proper(c, now.hints),
           now.events \in Seq({c} \X Keys[c]), NEW row \in HintType(c),
           NEW next, next = HandleRow(c, now, row)
    PROVE  /\ next.hints = Applied(c, now.hints, row) /\ Proper(c, next.hints)
           /\ next.events \in Seq({c} \X Keys[c])
           /\ Range(now.events) \subseteq Range(next.events)
           /\ MakesEvent(c, now.hints, row) => <<c, row.key>> \in Range(next.events)
<1>1. /\ next.hints = Applied(c, now.hints, row)
      /\ next.events = IF MakesEvent(c, now.hints, row)
                       THEN Append(now.events, <<c, row.key>>) ELSE now.events
  BY DEF HandleRow
<1>2. Proper(c, next.hints)
  BY <1>1, AppliedIs
<1>3. CASE MakesEvent(c, now.hints, row)
  <2> DEFINE E == {c} \X Keys[c]
  <2>1. <<c, row.key>> \in E
    BY DEF HintType
  <2> PICK e : e = <<c, row.key>>
    OBVIOUS
  <2>2. e \in E /\ next.events = Append(now.events, e) /\ now.events \in Seq(E)
    BY <1>1, <1>3, <2>1
  <2> HIDE DEF E
  <2>3. /\ next.events \in Seq(E) /\ Len(next.events) = Len(now.events) + 1
        /\ next.events[Len(now.events) + 1] = e
        /\ \A i \in 1 .. Len(now.events) : next.events[i] = now.events[i]
        /\ Len(now.events) \in Nat
    BY <2>2
  <2>4. /\ DOMAIN next.events = 1 .. Len(now.events) + 1
        /\ DOMAIN now.events = 1 .. Len(now.events)
    BY <2>2, <2>3, LenProperties
  <2>5. Range(now.events) \subseteq Range(next.events) /\ e \in Range(next.events)
    BY <2>3, <2>4, SMTT(30) DEF Range
  <2> QED BY <1>1, <1>2, <2>3, <2>5 DEF E
<1>4. CASE ~MakesEvent(c, now.hints, row)
  BY <1>1, <1>2, <1>4
<1> QED BY <1>3, <1>4

(* A row that is ignored is not what the cache holds. *)
LEMMA IgnoredIsNotHeld ==
    ASSUME NEW c, NEW hints, Proper(c, hints), NEW row \in HintType(c), ShouldIgnore(hints, row),
           Cached(hints, row.key)
    PROVE  HintOf(hints, row.key) # row
<1>1. PICK i \in 1 .. Len(hints) : hints[i] = HintOf(hints, row.key)
  BY PlaceIs
<1>2. hints[i].ts # NoTs /\ hints[i].ts \in Nat
  BY HintsAre DEF Proper
<1> QED BY <1>1, <1>2 DEF ShouldIgnore

(* What messages are made of. *)
LEMMA MessagesAre ==
    ASSUME NEW c \in Channels, NEW rows \in Messages(c)
    PROVE  /\ rows \in Seq(HintType(c)) /\ DOMAIN rows = 1 .. Len(rows)
           /\ \/ Len(rows) = 1
              \/ Len(rows) = 2 /\ c \notin {"candle", "tickers", "account", "instruments"}
           /\ \A i \in 1 .. Len(rows) :
                 /\ rows[i] \in HintType(c)
                 /\ c = "candle" => rows[i].ts = rows[i].key /\ rows[i].key \in Nat \ {0}
<1>1. ASSUME NEW r \in Rows(c)
      PROVE  /\ r \in HintType(c)
             /\ c = "candle" => r.ts = r.key /\ r.key \in Nat \ {0}
  <2>1. CASE c = "candle"
    <3>1. PICK b \in Keys[c], conf \in BOOLEAN : r = Hint(b, b, conf)
      BY <2>1 DEF Rows, BarRows
    <3>2. b \in Nat \ {0}
      BY <2>1, KeysAssumption
    <3> QED BY <3>1, <3>2 DEF Hint, HintType
  <2>2. CASE c # "candle"
    <3>1. Times(c) \subseteq Nat
      BY SessionBounds DEF Times, NoTs
    <3>2. r \in OtherRows(c)
      BY <2>2 DEF Rows
    <3> QED BY <2>2, <3>1, <3>2 DEF HintType, OtherRows
  <2> QED BY <2>1, <2>2
<1>2. CASE \E r \in Rows(c) : rows = <<r>>
  BY <1>1, <1>2
<1>3. CASE /\ c \notin {"candle", "tickers", "account", "instruments"}
           /\ \E r, q \in Rows(c) : rows = <<r, q>>
  <2>1. PICK r \in Rows(c), q \in Rows(c) : rows = <<r, q>>
    BY <1>3
  <2>2. Len(rows) = 2 /\ rows[1] = r /\ rows[2] = q /\ DOMAIN rows = 1 .. 2
    BY <2>1
  <2>3. rows \in Seq(HintType(c))
    BY <1>1, <2>1
  <2> QED BY <1>1, <1>3, <2>2, <2>3
<1> QED BY <1>2, <1>3 DEF Messages

(* The events of a message tell the engine all it has to hear.             *)
LEMMA EventsTell ==
    ASSUME NEW c \in Channels, NEW hints, Proper(c, hints), NEW rows \in Messages(c),
           NEW done, done = Handled(c, hints, rows),
           c = "candle" => \A i \in 1 .. Len(hints) :
                              /\ hints[i].ts = hints[i].key
                              /\ hints[i].confirm => hints[i].key \in told
    PROVE  /\ ToTell(c, hints, done.hints, rows) \subseteq Range(done.events)
           /\ done.events \in Seq({c} \X Keys[c])
<1> DEFINE start == Start(hints)
           mid == HandleRow(c, start, rows[1])
           last == HandleRow(c, mid, rows[2])
           Needs(j) == CASE c = "tickers" -> FALSE
                         [] c = "candle"  -> rows[j].confirm /\ rows[j].key \notin told
                         [] OTHER -> \/ c = "instruments" /\ rows[j].ts = NoTs
                                     \/ /\ done.hints # hints /\ Cached(done.hints, rows[j].key)
                                        /\ HintOf(done.hints, rows[j].key) = rows[j]
<1>1. /\ DOMAIN rows = 1 .. Len(rows)
      /\ \/ Len(rows) = 1
         \/ Len(rows) = 2 /\ c \notin {"candle", "tickers", "account", "instruments"}
      /\ \A i \in 1 .. Len(rows) :
            /\ rows[i] \in HintType(c)
            /\ c = "candle" => rows[i].ts = rows[i].key /\ rows[i].key \in Nat \ {0}
  BY MessagesAre
<1>2. /\ Len(rows) = 1 => done = mid
      /\ Len(rows) = 2 => done = last
  BY HandledIs
<1>3. rows[1] \in HintType(c) /\ (Len(rows) = 2 => rows[2] \in HintType(c))
  BY <1>1
<1>4. start.hints = hints /\ start.events \in Seq({c} \X Keys[c])
  BY DEF Start
<1> HIDE DEF start
<1>5. /\ mid.hints = Applied(c, hints, rows[1]) /\ Proper(c, mid.hints)
      /\ mid.events \in Seq({c} \X Keys[c])
      /\ MakesEvent(c, hints, rows[1]) => <<c, rows[1].key>> \in Range(mid.events)
  BY <1>3, <1>4, RowHandled
<1> HIDE DEF mid
<1>6. Len(rows) = 2 =>
      /\ last.hints = Applied(c, mid.hints, rows[2]) /\ Proper(c, last.hints)
      /\ last.events \in Seq({c} \X Keys[c])
      /\ Range(mid.events) \subseteq Range(last.events)
      /\ MakesEvent(c, mid.hints, rows[2]) => <<c, rows[2].key>> \in Range(last.events)
  BY <1>3, <1>5, RowHandled
<1> HIDE DEF last
<1>7. CASE Len(rows) = 1
  <2>1. done = mid
    BY <1>2, <1>7
  <2>2. ASSUME Needs(1) PROVE MakesEvent(c, hints, rows[1])
    <3>1. CASE c = "candle"
      <4>1. rows[1].confirm /\ rows[1].key \notin told /\ rows[1].ts = rows[1].key
            /\ rows[1].key \in Nat \ {0}
        BY <1>1, <1>7, <2>2, <3>1
      <4>2. ASSUME Cached(hints, rows[1].key)
            PROVE  /\ HintOf(hints, rows[1].key).ts = rows[1].key
                   /\ ~HintOf(hints, rows[1].key).confirm
        <5>1. /\ Place(hints, rows[1].key) \in 1 .. Len(hints)
              /\ hints[Place(hints, rows[1].key)].key = rows[1].key
          BY <4>2, PlaceIs
        <5> QED BY <3>1, <4>1, <5>1 DEF HintOf
      <4>3. ~ShouldIgnore(hints, rows[1])
        BY <4>1, <4>2 DEF ShouldIgnore, NoTs
      <4>4. NewlyConfirmed(hints, rows[1])
        BY <4>1, <4>2 DEF NewlyConfirmed
      <4> QED BY <3>1, <4>3, <4>4 DEF MakesEvent
    <3>2. CASE c = "instruments" /\ rows[1].ts = NoTs
      BY <3>2 DEF MakesEvent
    <3>3. CASE c \notin {"candle", "tickers"} /\ done.hints # hints
      <4>1. ~ShouldIgnore(hints, rows[1])
        BY <1>5, <2>1, <3>3 DEF Applied
      <4> QED BY <3>3, <4>1 DEF MakesEvent
    <3> QED BY <2>2, <3>1, <3>2, <3>3
  <2>3. ToTell(c, hints, done.hints, rows) = {<<c, rows[i].key>> : i \in {j \in DOMAIN rows : Needs(j)}}
    BY DEF ToTell
  <2>4. \A i \in DOMAIN rows : i = 1
    BY <1>1, <1>7
  <2> HIDE DEF Needs
  <2> QED BY <1>5, <2>1, <2>2, <2>3, <2>4
<1>8. CASE Len(rows) = 2
  <2>1. done = last /\ c \notin {"candle", "tickers", "instruments"}
    BY <1>1, <1>2, <1>8
  <2>2. ASSUME Needs(1) PROVE <<c, rows[1].key>> \in Range(done.events)
    <3>1. Cached(done.hints, rows[1].key) /\ HintOf(done.hints, rows[1].key) = rows[1]
      BY <2>1, <2>2
    <3>2. CASE ~ShouldIgnore(hints, rows[1])
      <4>1. MakesEvent(c, hints, rows[1])
        BY <2>1, <3>2 DEF MakesEvent
      <4> QED BY <1>5, <1>6, <1>8, <2>1, <4>1
    <3>3. CASE ShouldIgnore(hints, rows[1])
      <4>1. mid.hints = hints
        BY <1>5, <3>3 DEF Applied
      <4>2. NoOlder(hints, done.hints) /\ Proper(c, done.hints)
        BY <1>3, <1>6, <1>8, <2>1, <4>1, AppliedIs
      <4>3. PICK j \in 1 .. Len(done.hints) : done.hints[j] = rows[1]
        BY <3>1, <4>2, PlaceIs DEF HintOf
      <4>4. rows[1].ts # NoTs
        BY <4>2, <4>3 DEF Proper
      <4>5. Cached(hints, rows[1].key) /\ rows[1].ts < HintOf(hints, rows[1].key).ts
        BY <3>3, <4>4 DEF ShouldIgnore
      <4>6. PICK i \in 1 .. Len(hints) : hints[i].key = rows[1].key
                                         /\ hints[i] = HintOf(hints, rows[1].key)
        BY <4>5, PlaceIs DEF HintOf
      <4>7. hints[i].ts <= rows[1].ts
        BY <4>2, <4>3, <4>6 DEF NoOlder
      <4>8. hints[i].ts \in Nat /\ rows[1].ts \in Nat
        BY <1>3, HintsAre DEF HintType
      <4> QED BY <4>5, <4>6, <4>7, <4>8
    <3> QED BY <3>2, <3>3
  <2>3. ASSUME Needs(2) PROVE <<c, rows[2].key>> \in Range(done.events)
    <3>1. Cached(done.hints, rows[2].key) /\ HintOf(done.hints, rows[2].key) = rows[2]
      BY <2>1, <2>3
    <3>2. ~ShouldIgnore(mid.hints, rows[2])
      <4> SUFFICES ASSUME ShouldIgnore(mid.hints, rows[2]) PROVE FALSE
        OBVIOUS
      <4>1. done.hints = mid.hints
        BY <1>6, <1>8, <2>1 DEF Applied
      <4> QED BY <1>3, <1>5, <1>8, <3>1, <4>1, IgnoredIsNotHeld
    <3>3. MakesEvent(c, mid.hints, rows[2])
      BY <2>1, <3>2 DEF MakesEvent
    <3> QED BY <1>6, <1>8, <2>1, <3>3
  <2>4. ToTell(c, hints, done.hints, rows) = {<<c, rows[i].key>> : i \in {j \in DOMAIN rows : Needs(j)}}
    BY DEF ToTell
  <2>5. \A i \in DOMAIN rows : i = 1 \/ i = 2
    BY <1>1, <1>8
  <2> HIDE DEF Needs
  <2> QED BY <1>6, <1>8, <2>1, <2>2, <2>3, <2>4, <2>5
<1> QED BY <1>1, <1>7, <1>8

(* What a message makes of the hints of its channel. *)
LEMMA HandledHints ==
    ASSUME NEW c \in Channels, NEW hints, Proper(c, hints), NEW rows, Len(rows) \in {0, 1, 2},
           \A i \in 1 .. Len(rows) : rows[i] \in HintType(c),
           Len(rows) = 2 => c # "instruments",
           NEW done, done = Handled(c, hints, rows)
    PROVE  /\ Proper(c, done.hints)
           /\ Len(rows) < 2 \/ Cardinality(Keys[c]) <= Limit => NoOlder(hints, done.hints)
           /\ c = "instruments" => Keeps(hints, done.hints, Configured)
<1> DEFINE start == Start(hints)
           mid == HandleRow(c, start, rows[1])
           last == HandleRow(c, mid, rows[2])
<1>1. /\ Len(rows) = 0 => done = start
      /\ Len(rows) = 1 => done = mid
      /\ Len(rows) = 2 => done = last
  BY HandledIs
<1>2. /\ mid.hints = Applied(c, hints, rows[1])
      /\ last.hints = Applied(c, mid.hints, rows[2])
      /\ start.hints = hints
  BY DEF HandleRow, Start
<1> HIDE DEF start, mid, last
<1>3. NoOlder(hints, hints) /\ Keeps(hints, hints, Configured)
  BY HintsAre DEF NoOlder, Proper, OnePerKey, Keeps
<1>4. CASE Len(rows) = 0
  BY <1>1, <1>2, <1>3, <1>4
<1>5. CASE Len(rows) = 1
  <2>1. rows[1] \in HintType(c)
    BY <1>5
  <2> QED BY <1>1, <1>2, <1>5, <2>1, AppliedIs
<1>6. CASE Len(rows) = 2
  <2>1. rows[1] \in HintType(c) /\ rows[2] \in HintType(c)
    BY <1>6
  <2>2. /\ Proper(c, mid.hints) /\ NoOlder(hints, mid.hints)
        /\ Cardinality(Keys[c]) <= Limit => Keeps(hints, mid.hints, Keys[c])
    BY <1>2, <2>1, AppliedIs
  <2>3. Proper(c, last.hints) /\ NoOlder(mid.hints, last.hints)
    BY <1>2, <2>1, <2>2, AppliedIs
  <2>4. Cardinality(Keys[c]) <= Limit => NoOlder(hints, last.hints)
    <3> SUFFICES ASSUME Cardinality(Keys[c]) <= Limit, NEW i \in 1 .. Len(hints),
                        NEW j \in 1 .. Len(last.hints), hints[i].key = last.hints[j].key
                 PROVE  hints[i].ts <= last.hints[j].ts
      BY DEF NoOlder
    <3>1. PICK m \in 1 .. Len(mid.hints) : mid.hints[m].key = hints[i].key
      BY <2>2, HintsAre DEF Keeps
    <3>2. hints[i].ts <= mid.hints[m].ts /\ mid.hints[m].ts <= last.hints[j].ts
      BY <2>2, <2>3, <3>1 DEF NoOlder
    <3>3. hints[i].ts \in Nat /\ mid.hints[m].ts \in Nat /\ last.hints[j].ts \in Nat
      BY <2>2, <2>3, HintsAre
    <3> QED BY <3>2, <3>3
  <2> QED BY <1>1, <1>6, <2>3, <2>4
<1> QED BY <1>4, <1>5, <1>6

(* Bars that are known to be closed were reported as such.                 *)
BarsTold(hints, t) ==
    \A i \in 1 .. Len(hints) :
        hints[i].ts = hints[i].key /\ (hints[i].confirm => hints[i].key \in t)

ToldBy(events) == {e[2] : e \in {x \in Range(events) : x[1] = "candle"}}

(* A bar that is cached as closed was reported as closed. *)
LEMMA BarsStayTold ==
    ASSUME NEW hints, Proper("candle", hints), BarsTold(hints, told), NEW rows, Len(rows) = 1,
           rows[1] \in HintType("candle"), rows[1].ts = rows[1].key,
           NEW done, done = Handled("candle", hints, rows), "candle" \in Channels
    PROVE  BarsTold(done.hints, told \cup ToldBy(done.events))
<1> DEFINE start == Start(hints)
           row == rows[1]
<1>1. start.hints = hints /\ start.events \in Seq({"candle"} \X Keys["candle"])
  BY DEF Start
<1>2. done = HandleRow("candle", start, row)
  BY HandledIs
<1> HIDE DEF start
<1>3. /\ done.hints = Applied("candle", hints, row)
      /\ MakesEvent("candle", hints, row) => <<"candle", row.key>> \in Range(done.events)
  BY <1>1, <1>2, RowHandled
<1> HIDE DEF row
<1>4. \A j \in 1 .. Len(done.hints) :
        \/ done.hints[j] = row /\ ~ShouldIgnore(hints, row)
        \/ \E k \in 1 .. Len(hints) : done.hints[j] = hints[k]
  BY <1>3, AppliedIs DEF row
<1>5. ASSUME row.confirm, ~ShouldIgnore(hints, row)
      PROVE  row.key \in told \cup ToldBy(done.events)
  <2>1. CASE NewlyConfirmed(hints, row)
    <3>1. <<"candle", row.key>> \in Range(done.events)
      BY <1>3, <1>5, <2>1 DEF MakesEvent
    <3> QED BY <3>1 DEF ToldBy
  <2>2. CASE ~NewlyConfirmed(hints, row)
    <3>1. Cached(hints, row.key) /\ HintOf(hints, row.key).confirm
      BY <1>5, <2>2 DEF NewlyConfirmed
    <3> QED BY <3>1, PlaceIs DEF BarsTold, HintOf
  <2> QED BY <2>1, <2>2
<1>6. row.ts = row.key
  BY DEF row
<1> QED BY <1>4, <1>5, <1>6 DEF BarsTold

-----------------------------------------------------------------------------
(* The invariant.                                                          *)

(* What the caches hold, and what the engine knows of the bars in them. *)
CacheInv ==
    /\ cache = [c \in Channels |-> cache[c]]
    /\ \A c \in Channels : Proper(c, cache[c])
    /\ BarsTold(cache["candle"], told)

(* The events being sent are of one message, and cover what is owed. *)
OwedInv ==
    /\ \E c \in Channels : outgoing \in Seq({c} \X Keys[c])
    /\ owed \subseteq Range(outgoing)

(* What no step does to a cache. *)
Forward ==
    /\ \A c \in Channels :
          c = "instruments" \/ Cardinality(Keys[c]) <= Limit => NoOlder(cache[c], cache'[c])
    /\ Keeps(cache["instruments"], cache'["instruments"], Configured)

(* The data channels of the four streams. *)
LEMMA ChannelsAre ==
    Channels = {"instruments", "tickers", "candle", "orders", "account", "fills", "orders-algo"}
<1>1. UNION {Subscriptions(k) : k \in Kinds} =
        Subscriptions("public") \cup Subscriptions("candles") \cup Subscriptions("trading")
          \cup Subscriptions("algos")
  BY DEF Kinds
<1>2. /\ Subscriptions("public") = {"instruments", "tickers", "books"}
      /\ Subscriptions("candles") = {"candle"}
  BY DEF Subscriptions, IsPrivate, PublicSubscriptions
<1>3. /\ Subscriptions("trading") = {"orders", "account", "fills"}
      /\ Subscriptions("algos") = {"orders-algo"}
  BY DEF Subscriptions, IsPrivate, PrivateSubscriptions
<1> QED BY <1>1, <1>2, <1>3 DEF Channels

(* Nothing is on its way and nothing owed. *)
LEMMA NothingOwed ==
    ASSUME NEW o, o = <<>>
    PROVE  (\E c \in Channels : o \in Seq({c} \X Keys[c])) /\ {} \subseteq Range(o)
<1>1. "orders" \in Channels
  BY ChannelsAre
<1>2. o \in Seq({"orders"} \X Keys["orders"])
  OBVIOUS
<1> QED BY <1>1, <1>2

(* A step that leaves the caches and the reported bars alone. *)
LEMMA CacheStays ==
    ASSUME CacheInv, UNCHANGED <<cache, told>>
    PROVE  CacheInv' /\ Forward
<1>1. CacheInv'
  BY DEF CacheInv
<1>2. ASSUME NEW c \in Channels PROVE NoOlder(cache[c], cache[c])
  <2>1. Proper(c, cache[c])
    BY DEF CacheInv
  <2> QED BY <2>1, HintsAre, SMTT(30) DEF NoOlder, Proper, OnePerKey
<1>3. Keeps(cache["instruments"], cache["instruments"], Configured)
  BY DEF Keeps
<1> QED BY <1>1, <1>2, <1>3 DEF Forward

(* The rows that are used of a message of which one is refused. *)
LEMMA UsedIs ==
    ASSUME NEW c \in Channels, NEW rows \in Messages(c), NEW bad \in 0 .. Len(rows),
           c \in Subscriptions(kind), NEW used, used = Effective(kind, rows, bad)
    PROVE  /\ bad = 0 => used = rows
           /\ bad # 0 => /\ Len(used) \in {0, 1}
                         /\ \A i \in 1 .. Len(used) : used[i] \in HintType(c)
                         /\ c = "candle" => Len(used) = 0
<1>1. /\ rows \in Seq(HintType(c)) /\ Len(rows) \in {1, 2}
      /\ \A i \in 1 .. Len(rows) : rows[i] \in HintType(c)
  BY MessagesAre
<1>2. bad = 0 => used = rows
  BY DEF Effective, ParsedPublic, ParsedPrivate
<1>3. CASE bad # 0 /\ ~IsPrivate(kind)
  BY <1>3 DEF Effective, ParsedPublic
<1>4. CASE bad # 0 /\ IsPrivate(kind)
  <2>1. c # "candle"
    BY <1>4 DEF IsPrivate, Subscriptions, PrivateSubscriptions
  <2>2. used = SubSeq(rows, 1, bad - 1)
    BY <1>4 DEF Effective, ParsedPrivate
  <2>3. CASE bad = 1
    <3>1. used = <<>>
      BY <1>1, <2>2, <2>3
    <3> QED BY <2>1, <2>3, <3>1
  <2>4. CASE bad = 2
    <3>1. Len(used) = 1 /\ used[1] = rows[1]
      BY <1>1, <2>2, <2>4
    <3> QED BY <1>1, <2>1, <2>4, <3>1
  <2> QED BY <1>1, <1>4, <2>3, <2>4
<1> QED BY <1>2, <1>3, <1>4

(* A message that arrives.                                                 *)
LEMMA ReceiveStep ==
    ASSUME CacheInv, OwedInv, NEW c \in Channels, NEW rows \in Messages(c),
           NEW bad \in 0 .. Len(rows), Receive(c, rows, bad)
    PROVE  CacheInv' /\ OwedInv' /\ Forward
<1> PICK used, done : used = Effective(kind, rows, bad) /\ done = Handled(c, cache[c], used)
  OBVIOUS
<1>1. /\ c \in Subscriptions(kind) /\ outgoing = <<>>
      /\ cache' = [cache EXCEPT ![c] = done.hints]
      /\ bad = 0 => /\ outgoing' = done.events
                    /\ owed' = owed \cup ToTell(c, cache[c], done.hints, used)
                    /\ told' = told \cup ToldBy(done.events)
      /\ bad # 0 => owed' = {} /\ UNCHANGED <<outgoing, told>>
  BY DEF Receive, Ready, FailsIn, ToldBy
<1>2. /\ bad = 0 => used = rows
      /\ bad # 0 => /\ Len(used) \in {0, 1}
                    /\ \A i \in 1 .. Len(used) : used[i] \in HintType(c)
                    /\ c = "candle" => Len(used) = 0
  BY <1>1, UsedIs
<1>3. /\ rows \in Seq(HintType(c))
      /\ \/ Len(rows) = 1
         \/ Len(rows) = 2 /\ c \notin {"candle", "tickers", "account", "instruments"}
      /\ \A i \in 1 .. Len(rows) :
            /\ rows[i] \in HintType(c)
            /\ c = "candle" => rows[i].ts = rows[i].key
  BY MessagesAre
<1>4. /\ Len(used) \in {0, 1, 2} /\ \A i \in 1 .. Len(used) : used[i] \in HintType(c)
      /\ Len(used) = 2 => c # "instruments"
  <2>1. CASE bad = 0
    <3>1. used = rows
      BY <1>2, <2>1
    <3>2. Len(rows) = 1 \/ (Len(rows) = 2 /\ c # "instruments")
      BY <1>3, Zenon
    <3>3. \A i \in 1 .. Len(rows) : rows[i] \in HintType(c)
      BY <1>3
    <3>4. Len(used) \in {0, 1, 2} /\ (Len(used) = 2 => c # "instruments")
      BY <3>1, <3>2
    <3> QED BY <3>1, <3>3, <3>4
  <2>2. CASE bad # 0
    BY <1>2, <2>2, SMTT(30)
  <2> QED BY <2>1, <2>2
<1>5. Proper(c, cache[c]) /\ \A x \in Channels : Proper(x, cache[x])
  BY DEF CacheInv
<1>6. /\ Proper(c, done.hints)
      /\ Len(used) < 2 \/ Cardinality(Keys[c]) <= Limit => NoOlder(cache[c], done.hints)
      /\ c = "instruments" => Keeps(cache[c], done.hints, Configured)
  BY <1>4, <1>5, HandledHints
<1>7. /\ cache'[c] = done.hints /\ \A x \in Channels \ {c} : cache'[x] = cache[x]
      /\ cache' = [x \in Channels |-> cache'[x]]
  <2>1. cache = [x \in Channels |-> cache[x]]
    BY DEF CacheInv
  <2>2. cache' = [x \in Channels |-> IF x = c THEN done.hints ELSE cache[x]]
    BY <1>1, <2>1
  <2> QED BY <2>2
<1>8. Forward
  <2>1. ASSUME NEW x \in Channels, x = "instruments" \/ Cardinality(Keys[x]) <= Limit
        PROVE  NoOlder(cache[x], cache'[x])
    <3>1. CASE x = c
      <4>1. Len(used) < 2 \/ Cardinality(Keys[c]) <= Limit
        BY <1>4, <2>1, <3>1
      <4> QED BY <1>6, <1>7, <3>1, <4>1
    <3>2. CASE x # c
      <4>1. cache'[x] = cache[x] /\ Proper(x, cache[x])
        BY <1>5, <1>7, <3>2
      <4> QED BY <4>1, HintsAre DEF NoOlder, Proper, OnePerKey
    <3> QED BY <3>1, <3>2
  <2>2. Keeps(cache["instruments"], cache'["instruments"], Configured)
    <3>1. CASE c = "instruments"
      BY <1>6, <1>7, <3>1
    <3>2. CASE c # "instruments"
      <4>1. cache'["instruments"] = cache["instruments"]
        BY <1>7, <3>2, ChannelsAre
      <4> QED BY <4>1 DEF Keeps
    <3> QED BY <3>1, <3>2
  <2> QED BY <2>1, <2>2 DEF Forward
<1>9. \A x \in Channels : Proper(x, cache'[x])
  BY <1>5, <1>6, <1>7
<1>10. BarsTold(cache["candle"], told) /\ "candle" \in Channels
  BY ChannelsAre DEF CacheInv
<1>11. told \subseteq told'
  BY <1>1
<1>12. BarsTold(cache'["candle"], told')
  <2>1. CASE c = "candle" /\ bad = 0
    <3>1. /\ Len(used) = 1 /\ used[1] \in HintType("candle") /\ used[1].ts = used[1].key
          /\ done = Handled("candle", cache["candle"], used)
          /\ Proper("candle", cache["candle"])
      BY <1>2, <1>3, <1>5, <2>1
    <3>2. BarsTold(done.hints, told \cup ToldBy(done.events))
      BY <1>10, <3>1, BarsStayTold
    <3> QED BY <1>1, <1>7, <2>1, <3>2
  <2>2. CASE c = "candle" /\ bad # 0
    <3>1. done = Start(cache["candle"])
      BY <1>2, <2>2, HandledIs
    <3>2. cache'["candle"] = cache["candle"]
      BY <1>7, <2>2, <3>1 DEF Start
    <3> QED BY <1>10, <1>11, <3>2 DEF BarsTold
  <2>3. CASE c # "candle"
    <3>1. cache'["candle"] = cache["candle"]
      BY <1>7, <1>10, <2>3
    <3> QED BY <1>10, <1>11, <3>1 DEF BarsTold
  <2> QED BY <2>1, <2>2, <2>3
<1>13. OwedInv'
  <2>1. owed \subseteq {}
    BY <1>1 DEF OwedInv, Range
  <2>2. CASE bad = 0
    <3>1. c = "candle" => \A i \in 1 .. Len(cache[c]) :
                             /\ cache[c][i].ts = cache[c][i].key
                             /\ cache[c][i].confirm => cache[c][i].key \in told
      BY <1>10 DEF BarsTold
    <3>2. used = rows /\ done = Handled(c, cache[c], rows)
      BY <1>2, <2>2
    <3>3. /\ ToTell(c, cache[c], done.hints, rows) \subseteq Range(done.events)
          /\ done.events \in Seq({c} \X Keys[c])
      BY <1>5, <3>1, <3>2, EventsTell
    <3>4. outgoing' = done.events /\ owed' = owed \cup ToTell(c, cache[c], done.hints, rows)
      BY <1>1, <2>2, <3>2
    <3> QED BY <2>1, <3>3, <3>4 DEF OwedInv
  <2>3. CASE bad # 0
    <3>1. owed' = {} /\ outgoing' = <<>>
      BY <1>1, <2>3
    <3> QED BY <3>1, NothingOwed DEF OwedInv
  <2> QED BY <2>2, <2>3
<1> QED BY <1>7, <1>8, <1>9, <1>12, <1>13 DEF CacheInv

(* The event at the head of the queue is delivered. *)
LEMMA SendStep ==
    ASSUME OwedInv, Send
    PROVE  OwedInv'
<1>1. PICK c \in Channels : outgoing \in Seq({c} \X Keys[c])
  BY DEF OwedInv
<1> DEFINE E == {c} \X Keys[c]
<1>2. /\ outgoing # <<>> /\ outgoing' = Tail(outgoing) /\ owed' = owed \ {Head(outgoing)}
      /\ owed \subseteq Range(outgoing) /\ outgoing \in Seq(E)
  BY <1>1 DEF Send, OwedInv
<1> HIDE DEF E
<1>3. /\ Len(outgoing) \in Nat \ {0} /\ outgoing' \in Seq(E)
      /\ Len(outgoing') = Len(outgoing) - 1 /\ Head(outgoing) = outgoing[1]
      /\ \A i \in 1 .. Len(outgoing) - 1 : outgoing'[i] = outgoing[i + 1]
  BY <1>2, HeadTailProperties, LenProperties, EmptySeq
<1>4. DOMAIN outgoing = 1 .. Len(outgoing) /\ DOMAIN outgoing' = 1 .. Len(outgoing) - 1
  BY <1>2, <1>3, LenProperties
<1>5. ASSUME NEW x \in owed' PROVE x \in Range(outgoing')
  <2>1. x \in Range(outgoing) /\ x # outgoing[1]
    BY <1>2, <1>3
  <2>2. PICK i \in 1 .. Len(outgoing) : x = outgoing[i]
    BY <1>4, <2>1 DEF Range
  <2>3. i - 1 \in 1 .. Len(outgoing) - 1 /\ (i - 1) + 1 = i
    BY <1>3, <2>1, <2>2
  <2>4. outgoing'[i - 1] = x
    BY <1>3, <2>2, <2>3
  <2> QED BY <1>4, <2>3, <2>4 DEF Range
<1> QED BY <1>3, <1>5 DEF OwedInv, E

(* Every step keeps the invariant and moves the caches forward. *)
LEMMA CacheStep ==
    ASSUME CacheInv, OwedInv, [Next]_vars
    PROVE  CacheInv' /\ OwedInv' /\ Forward
<1>1. CASE \E c \in Channels : Arrives(c)
  <2>1. PICK c \in Channels : Arrives(c)
    BY <1>1
  <2>2. PICK rows \in Messages(c) : \E bad \in 0 .. Len(rows) : Receive(c, rows, bad)
    BY <2>1 DEF Arrives
  <2> QED BY <2>2, ReceiveStep
<1>2. CASE PublicData \/ PrivateData
  <2>1. \E c \in Channels : Arrives(c)
    BY <1>2, ChannelsAre DEF PublicData, PrivateData
  <2> QED BY <1>1, <2>1
<1>3. CASE Send
  <2>1. UNCHANGED <<cache, told>>
    BY <1>3 DEF Send
  <2> QED BY <1>3, <2>1, CacheStays, SendStep
<1>4. ASSUME UNCHANGED <<cache, told, outgoing>>, owed' = owed \/ owed' = {}
      PROVE  CacheInv' /\ OwedInv' /\ Forward
  BY <1>4, CacheStays DEF OwedInv
<1>5. ASSUME UNCHANGED <<cache, told>>, outgoing' = <<>>, owed' = {}
      PROVE  CacheInv' /\ OwedInv' /\ Forward
  BY <1>5, CacheStays, NothingOwed DEF OwedInv
<1>6. CASE Attempt \/ PublicConnected \/ PrivateConnected \/ LoggedIn
  BY <1>4, <1>6 DEF Attempt, PublicConnected, PrivateConnected, LoggedIn, dataVars
<1>7. CASE PublicAcknowledged \/ PrivateAcknowledged
  <2>1. PICK c \in pending : Acknowledged(c)
    BY <1>7 DEF PublicAcknowledged, PrivateAcknowledged
  <2> QED BY <1>4, <2>1 DEF Acknowledged, dataVars
<1>8. CASE Fails \/ LoginFails \/ CannotSend
  BY <1>4, <1>8 DEF Fails, LoginFails, CannotSend, FailsIn
<1>9. CASE ReportOutcome \/ Ping \/ Pong \/ EngineTakes \/ UNCHANGED vars
  BY <1>4, <1>9 DEF ReportOutcome, Ping, Pong, EngineTakes, vars, dataVars
<1>10. CASE SendTimesOut \/ Dies
  BY <1>5, <1>10 DEF SendTimesOut, Dies, FailsIn
<1>11. CASE ScheduleReconnect \/ Wake \/ Heard
  BY <1>4, <1>11 DEF ScheduleReconnect, Wake, Heard, dataVars
<1> QED BY <1>2, <1>3, <1>6, <1>7, <1>8, <1>9, <1>10, <1>11 DEF Next

(* A fresh process has cached nothing and owes nothing. *)
LEMMA CacheInit ==
    ASSUME Init
    PROVE  CacheInv /\ OwedInv
<1>1. OwedInv
  BY NothingOwed DEF Init, OwedInv
<1>2. cache = NoHints /\ cache = [c \in Channels |-> cache[c]] /\ "candle" \in Channels
  BY ChannelsAre DEF Init, NoHints
<1>3. ASSUME NEW c \in Channels PROVE cache[c] = <<>> /\ Proper(c, cache[c])
  <2>1. cache[c] = <<>>
    BY <1>2 DEF NoHints
  <2> QED BY <2>1 DEF Proper, OnePerKey
<1>4. BarsTold(cache["candle"], told)
  BY <1>2, <1>3 DEF BarsTold
<1> QED BY <1>1, <1>2, <1>3, <1>4 DEF CacheInv

-----------------------------------------------------------------------------
(* Every change the cache has seen of an order, a fill, an algo order, the *)
(* account or an instrument, and every closed bar, is on its way to the    *)
(* engine while the stream counts as subscribed (handle_*_message,         *)
(* send_non_lossy).                                                        *)
THEOREM NothingIsLostSilently == Spec => []NothingLostSilently
<1>1. Init => CacheInv /\ OwedInv
  BY CacheInit
<1>2. CacheInv /\ OwedInv /\ [Next]_vars => CacheInv' /\ OwedInv'
  BY CacheStep
<1>3. OwedInv => NothingLostSilently
  BY DEF OwedInv, NothingLostSilently
<1> QED BY <1>1, <1>2, <1>3, PTL DEF Spec

(* One step of the timestamps. *)
LEMMA NeverBack ==
    ASSUME CacheInv, CacheInv', Forward, NEW c \in Channels, NEW i \in DOMAIN cache[c],
           NEW j \in DOMAIN cache'[c], cache[c][i].key = cache'[c][j].key,
           \/ Cardinality(Keys[c]) <= Limit
           \/ c = "instruments" /\ cache[c][i].key \in Configured
    PROVE  cache[c][i].ts <= cache'[c][j].ts
<1>1. Proper(c, cache[c]) /\ Proper(c, cache'[c])
  BY DEF CacheInv
<1>2. DOMAIN cache[c] = 1 .. Len(cache[c]) /\ DOMAIN cache'[c] = 1 .. Len(cache'[c])
  BY <1>1, HintsAre
<1>3. NoOlder(cache[c], cache'[c])
  BY DEF Forward
<1> QED BY <1>2, <1>3 DEF NoOlder

(* A cached hint is never replaced by an older one (should_ignore_hint):   *)
(* not by a late row, a second row of the same message, or a reconnect.    *)
THEOREM HintsNeverStepBack == Spec => NoStepBack
<1>1. Init => CacheInv /\ OwedInv
  BY CacheInit
<1>2. CacheInv /\ OwedInv /\ [Next]_vars => CacheInv' /\ OwedInv' /\ Forward
  BY CacheStep
<1>3. CacheInv /\ CacheInv' /\ Forward =>
        \A c \in Channels : \A i \in DOMAIN cache[c], j \in DOMAIN cache'[c] :
          /\ cache[c][i].key = cache'[c][j].key
          /\ \/ Cardinality(Keys[c]) <= Limit
             \/ c = "instruments" /\ cache[c][i].key \in Configured
          => cache[c][i].ts <= cache'[c][j].ts
  BY NeverBack
<1> QED BY <1>1, <1>2, <1>3, PTL DEF Spec, NoStepBack

(* The hint of an instrument the bot trades is never evicted, however many *)
(* SPOT instruments OKX pushes (evict_oldest_market_data_hints_except).    *)
THEOREM ConfiguredInstrumentsStay == Spec => ConfiguredStay
<1>1. Init => CacheInv /\ OwedInv
  BY CacheInit
<1>2. CacheInv /\ OwedInv /\ [Next]_vars => CacheInv' /\ OwedInv' /\ Forward
  BY CacheStep
<1>3. ASSUME CacheInv, CacheInv', Forward, NEW k \in Configured, Cached(cache["instruments"], k)
      PROVE  Cached(cache'["instruments"], k)
  <2>1. Proper("instruments", cache["instruments"]) /\ Proper("instruments", cache'["instruments"])
    BY <1>3, ChannelsAre DEF CacheInv
  <2>2. /\ DOMAIN cache["instruments"] = 1 .. Len(cache["instruments"])
        /\ DOMAIN cache'["instruments"] = 1 .. Len(cache'["instruments"])
    BY <2>1, HintsAre
  <2> QED BY <1>3, <2>2 DEF Forward, Keeps, Cached
<1>4. CacheInv /\ CacheInv' /\ Forward =>
        \A k \in Configured : Cached(cache["instruments"], k) => Cached(cache'["instruments"], k)
  BY <1>3
<1> QED BY <1>1, <1>2, <1>4, PTL DEF Spec, ConfiguredStay
===============================================================================
