---------------------------- MODULE RestClientProofs ----------------------------
(***************************************************************************)
(* Proofs about RestClient for every number of clients, every limit and    *)
(* every time constant.                                                    *)
(***************************************************************************)
EXTENDS RestClient, TLAPS, WellFoundedInduction, SequenceTheorems

-----------------------------------------------------------------------------
(* What the queue of a bucket holds.                                       *)

Ages == Seq(Nat)
EldestFirst(ages) == \A i, j \in 1 .. Len(ages) : i <= j => ages[i] >= ages[j]

(* A function over the first n numbers is a sequence of n. *)
LEMMA SequenceOf ==
    ASSUME NEW n \in Nat, NEW f \in [1 .. n -> Nat]
    PROVE  f \in Ages /\ Len(f) = n
<1>1. f \in Ages
  BY SeqDef DEF Ages
<1>2. Len(f) \in Nat /\ 1 .. Len(f) = 1 .. n
  BY <1>1, LenProperties DEF Ages
<1> QED BY <1>1, <1>2

(* A set of numbers that is not empty has a least one. *)
LEMMA LeastNumber ==
    ASSUME NEW S \in SUBSET Nat, S # {}
    PROVE  \E n \in S : \A m \in S : n <= m
<1>1. PICK n \in S : \A m \in S : ~(<<m, n>> \in OpToRel(<, Nat))
  BY NatLessThanWellFounded, WFMin
<1>2. ASSUME NEW m \in S PROVE n <= m
  <2>1. ~(m < n)
    BY <1>1 DEF OpToRel
  <2> QED BY <2>1
<1> QED BY <1>2

IsFirstBelow(n, ages, w) ==
    /\ n \in 1 .. Len(ages) + 1
    /\ \A j \in 1 .. n - 1 : ages[j] >= w
    /\ n <= Len(ages) => ages[n] < w

(* The pop_front loop of reserve_or_wait ends at one place. *)
LEMMA FirstBelowIs ==
    ASSUME NEW ages \in Ages, NEW w \in Nat
    PROVE  /\ IsFirstBelow(FirstBelow(ages, w), ages, w)
           /\ \A n : IsFirstBelow(n, ages, w) => n = FirstBelow(ages, w)
<1> DEFINE S == {n \in 1 .. Len(ages) + 1 : n <= Len(ages) => ages[n] < w}
<1>1. Len(ages) \in Nat /\ \A i \in 1 .. Len(ages) : ages[i] \in Nat
  BY DEF Ages
<1>2. S \in SUBSET Nat /\ Len(ages) + 1 \in S
  BY <1>1
<1>3. PICK n \in S : \A m \in S : n <= m
  <2> HIDE DEF S
  <2> QED BY <1>2, LeastNumber
<1>4. ASSUME NEW j \in 1 .. n - 1 PROVE ages[j] >= w
  <2>1. j \in 1 .. Len(ages) /\ ~(n <= j)
    BY <1>1, <1>3
  <2>2. j \notin S
    BY <2>1, <1>3
  <2> QED BY <2>1, <2>2, <1>1
<1>5. IsFirstBelow(n, ages, w)
  BY <1>3, <1>4 DEF IsFirstBelow
<1>6. IsFirstBelow(FirstBelow(ages, w), ages, w)
  BY <1>5 DEF IsFirstBelow, FirstBelow
<1>7. \A k, l : IsFirstBelow(k, ages, w) /\ IsFirstBelow(l, ages, w) => ~(k < l)
  BY <1>1 DEF IsFirstBelow
<1>8. ASSUME NEW k, IsFirstBelow(k, ages, w) PROVE k = FirstBelow(ages, w)
  <2>1. k \in Int /\ FirstBelow(ages, w) \in Int
    BY <1>1, <1>6, <1>8 DEF IsFirstBelow
  <2>2. ~(k < FirstBelow(ages, w)) /\ ~(FirstBelow(ages, w) < k)
    BY <1>6, <1>7, <1>8
  <2> QED BY <2>1, <2>2
<1> QED BY <1>6, <1>8

(* What the loop leaves is the end of the queue. *)
LEMMA PopOldIs ==
    ASSUME NEW ages \in Ages, NEW w \in Nat
    PROVE  /\ PopOld(ages, w) \in Ages
           /\ Len(PopOld(ages, w)) = Len(ages) + 1 - FirstBelow(ages, w)
           /\ Len(PopOld(ages, w)) <= Len(ages)
           /\ \A i \in 1 .. Len(PopOld(ages, w)) :
                 PopOld(ages, w)[i] = ages[FirstBelow(ages, w) + i - 1]
           /\ PopOld(ages, w) # <<>> => PopOld(ages, w)[1] < w
<1> DEFINE n == FirstBelow(ages, w)
<1>1. Len(ages) \in Nat /\ \A i \in 1 .. Len(ages) : ages[i] \in Nat
  BY DEF Ages
<1>2. IsFirstBelow(n, ages, w)
  BY FirstBelowIs
<1>3. PopOld(ages, w) = SubSeq(ages, n, Len(ages))
  BY DEF PopOld
<1> HIDE DEF n
<1>4. n \in 1 .. Len(ages) + 1 /\ (n <= Len(ages) => ages[n] < w)
  BY <1>2 DEF IsFirstBelow
<1>5. /\ SubSeq(ages, n, Len(ages)) \in Seq(Nat)
      /\ Len(SubSeq(ages, n, Len(ages))) = Len(ages) + 1 - n
      /\ \A i \in 1 .. Len(ages) + 1 - n : SubSeq(ages, n, Len(ages))[i] = ages[n + i - 1]
  BY <1>1, <1>4 DEF Ages
<1>6. ASSUME PopOld(ages, w) # <<>> PROVE PopOld(ages, w)[1] < w
  <2>1. Len(ages) + 1 - n >= 1
    BY <1>1, <1>3, <1>4, <1>5, <1>6
  <2>2. PopOld(ages, w)[1] = ages[n] /\ n <= Len(ages)
    BY <1>1, <1>3, <1>4, <1>5, <2>1
  <2> QED BY <1>4, <2>2
<1> QED BY <1>1, <1>3, <1>4, <1>5, <1>6, SMTT(30) DEF n, Ages

(* The loop leaves a queue alone whose front is young. *)
LEMMA NothingToPop ==
    ASSUME NEW ages \in Ages, NEW w \in Nat, ages = <<>> \/ ages[1] < w
    PROVE  PopOld(ages, w) = ages
<1>1. Len(ages) \in Nat /\ (Len(ages) = 0 => ages = <<>>)
  BY DEF Ages
<1>2. IsFirstBelow(1, ages, w)
  BY <1>1 DEF IsFirstBelow
<1>3. FirstBelow(ages, w) = 1
  BY <1>2, FirstBelowIs
<1> QED BY <1>3 DEF PopOld, Ages

(* A reservation appends to what the loop leaves. *)
LEMMA PopOldAndAppend ==
    ASSUME NEW ages \in Ages, NEW w \in Nat \ {0}
    PROVE  /\ PopOld(PopOld(ages, w), w) = PopOld(ages, w)
           /\ Append(PopOld(ages, w), 0) \in Ages
           /\ PopOld(Append(PopOld(ages, w), 0), w) = Append(PopOld(ages, w), 0)
<1> DEFINE kept == PopOld(ages, w)
<1>1. kept \in Ages /\ (kept # <<>> => kept[1] < w)
  BY PopOldIs
<1> HIDE DEF kept
<1>2. PopOld(kept, w) = kept
  BY <1>1, NothingToPop
<1>3. Append(kept, 0) \in Ages
  BY <1>1 DEF Ages
<1>4. Append(kept, 0)[1] < w
  BY <1>1 DEF Ages
<1>5. PopOld(Append(kept, 0), w) = Append(kept, 0)
  BY <1>3, <1>4, NothingToPop
<1> QED BY <1>2, <1>3, <1>5 DEF kept

(* Whether the loop ran before time passed makes no difference after it    *)
(* ran again, and ages need not be told apart once they have reached w.    *)
LEMMA PopOldAndTime ==
    ASSUME NEW ages \in Ages, NEW later \in Ages, NEW w \in Nat, EldestFirst(ages),
           Len(later) = Len(ages),
           \A i \in 1 .. Len(ages) : later[i] = IF ages[i] < w THEN ages[i] + 1 ELSE w
    PROVE  /\ Older(PopOld(ages, w)) \in Ages
           /\ Len(Older(PopOld(ages, w))) = Len(PopOld(ages, w))
           /\ PopOld(Older(PopOld(ages, w)), w) = PopOld(later, w)
<1> DEFINE kept == PopOld(ages, w)
           old == Older(kept)
           n == FirstBelow(ages, w)
           m == FirstBelow(old, w)
<1>1. /\ kept \in Ages /\ Len(kept) = Len(ages) + 1 - n
      /\ \A i \in 1 .. Len(kept) : kept[i] = ages[n + i - 1]
  BY PopOldIs
<1>2. IsFirstBelow(n, ages, w)
  BY FirstBelowIs
<1>3. old \in Ages /\ Len(old) = Len(kept) /\ \A i \in 1 .. Len(kept) : old[i] = kept[i] + 1
  <2> HIDE DEF kept
  <2>1. Len(kept) \in Nat /\ DOMAIN kept = 1 .. Len(kept) /\ kept \in [1 .. Len(kept) -> Nat]
    BY <1>1, LenProperties DEF Ages
  <2>2. old = [i \in 1 .. Len(kept) |-> kept[i] + 1]
    BY <2>1 DEF Older
  <2>3. old \in [1 .. Len(kept) -> Nat]
    BY <2>1, <2>2
  <2> QED
    <3> HIDE DEF old
    <3> QED BY <2>1, <2>2, <2>3, SequenceOf
<1>4. IsFirstBelow(m, old, w)
  <2> HIDE DEF old
  <2> QED BY <1>3, FirstBelowIs
<1>5. PopOld(old, w) = SubSeq(old, m, Len(old))
  BY DEF PopOld
<1> HIDE DEF kept, old, n, m
<1>6. /\ Len(ages) \in Nat /\ \A i \in 1 .. Len(ages) : ages[i] \in Nat
      /\ n \in 1 .. Len(ages) + 1 /\ m \in 1 .. Len(old) + 1
      /\ Len(old) = Len(ages) + 1 - n
  <2>1. Len(ages) \in Nat /\ \A i \in 1 .. Len(ages) : ages[i] \in Nat
    BY LenProperties, ElementOfSeq DEF Ages
  <2>2. n \in 1 .. Len(ages) + 1 /\ m \in 1 .. Len(old) + 1
    BY <1>2, <1>4 DEF IsFirstBelow
  <2> QED BY <1>1, <1>3, <2>1, <2>2
<1>7. \A i \in 1 .. Len(old) : old[i] = ages[n + i - 1] + 1
  BY <1>1, <1>3, <1>6
<1>8. IsFirstBelow(n + m - 1, later, w)
  <2>1. n + m - 1 \in 1 .. Len(later) + 1
    BY <1>6
  <2>2. ASSUME NEW j \in 1 .. (n + m - 1) - 1 PROVE later[j] >= w
    <3>1. j \in 1 .. Len(ages)
      BY <1>6
    <3>2. CASE j < n
      <4>1. ages[j] >= w
        BY <1>2, <1>6, <3>2 DEF IsFirstBelow
      <4> QED BY <1>6, <3>1, <4>1
    <3>3. CASE j >= n
      <4>1. j - n + 1 \in 1 .. m - 1 /\ j - n + 1 \in 1 .. Len(old)
        BY <1>6, <3>3
      <4>2. old[j - n + 1] >= w
        BY <1>4, <4>1 DEF IsFirstBelow
      <4>3. old[j - n + 1] = ages[j] + 1
        <5>1. n + (j - n + 1) - 1 = j
          BY <1>6
        <5> QED BY <1>7, <4>1, <5>1
      <4> QED BY <1>6, <3>1, <4>2, <4>3
    <3> QED BY <1>6, <3>2, <3>3
  <2>3. ASSUME n + m - 1 <= Len(later) PROVE later[n + m - 1] < w
    <3>1. m \in 1 .. Len(old) /\ n + m - 1 \in 1 .. Len(ages)
      BY <1>6, <2>3
    <3>2. old[m] < w /\ old[m] = ages[n + m - 1] + 1
      BY <1>4, <1>7, <3>1 DEF IsFirstBelow
    <3> QED BY <1>6, <3>1, <3>2
  <2> QED BY <2>1, <2>2, <2>3 DEF IsFirstBelow
<1>9. PopOld(later, w) = SubSeq(later, n + m - 1, Len(later))
  BY <1>8, FirstBelowIs DEF PopOld
<1>10. ASSUME NEW i \in 1 .. Len(old) + 1 - m PROVE old[m + i - 1] = later[(n + m - 1) + i - 1]
  <2>1. m + i - 1 \in 1 .. Len(old) /\ n + (m + i - 1) - 1 = (n + m - 1) + i - 1
    BY <1>6
  <2>2. (n + m - 1) + i - 1 \in 1 .. Len(ages)
    BY <1>6
  <2>3. old[m + i - 1] = ages[(n + m - 1) + i - 1] + 1
    BY <1>7, <2>1
  <2>4. ages[(n + m - 1) + i - 1] < w
    <3>1. n \in 1 .. Len(ages) /\ n <= (n + m - 1) + i - 1
      BY <1>6
    <3>2. ages[n] < w /\ ages[n] >= ages[(n + m - 1) + i - 1]
      BY <1>2, <2>2, <3>1 DEF IsFirstBelow, EldestFirst
    <3>3. ages[n] \in Nat /\ ages[(n + m - 1) + i - 1] \in Nat
      BY <1>6, <2>2, <3>1
    <3> HIDE DEF Ages
    <3> QED BY <3>2, <3>3
  <2> QED BY <1>6, <2>2, <2>3, <2>4
<1>11. SubSeq(old, m, Len(old)) = SubSeq(later, n + m - 1, Len(later))
  <2> DEFINE a == SubSeq(old, m, Len(old))
             z == SubSeq(later, n + m - 1, Len(later))
  <2>1. /\ Len(later) = Len(ages)
        /\ \A i \in 1 .. Len(later) : later[i] \in Nat
        /\ \A i \in 1 .. Len(old) : old[i] \in Nat
    BY <1>3, ElementOfSeq DEF Ages
  <2>2. /\ m \in Int /\ n + m - 1 \in Int /\ Len(old) \in Int /\ Len(later) \in Int
        /\ m .. Len(old) \subseteq 1 .. Len(old)
        /\ (n + m - 1) .. Len(later) \subseteq 1 .. Len(later)
    BY <1>6, <2>1
  <2>3. /\ a \in Seq(Nat) /\ Len(a) = (IF m <= Len(old) THEN Len(old) - m + 1 ELSE 0)
        /\ \A i \in 1 .. Len(old) - m + 1 : a[i] = old[m + i - 1]
    BY <2>1, <2>2, SubSeqProperties, SMTT(30)
  <2>4. /\ z \in Seq(Nat)
        /\ Len(z) = (IF n + m - 1 <= Len(later) THEN Len(later) - (n + m - 1) + 1 ELSE 0)
        /\ \A i \in 1 .. Len(later) - (n + m - 1) + 1 : z[i] = later[(n + m - 1) + i - 1]
    BY <2>1, <2>2, SubSeqProperties, SMTT(30)
  <2> HIDE DEF a, z
  <2>5. Len(a) = Len(z) /\ \A i \in 1 .. Len(a) : a[i] = z[i]
    <3>1. /\ Len(a) = Len(old) + 1 - m /\ Len(z) = Len(old) + 1 - m
          /\ Len(old) - m + 1 = Len(old) + 1 - m
          /\ Len(later) - (n + m - 1) + 1 = Len(old) + 1 - m
      BY <1>6, <2>1, <2>3, <2>4
    <3>2. ASSUME NEW i \in 1 .. Len(old) + 1 - m PROVE a[i] = z[i]
      BY <1>10, <2>3, <2>4, <3>1
    <3> QED BY <3>1, <3>2
  <2>6. a = z
    BY <2>3, <2>4, <2>5, SeqEqual
  <2> QED BY <2>6 DEF a, z
<1> QED BY <1>3, <1>5, <1>9, <1>11 DEF kept, old

(* The order of the queue survives the loop, a reservation and a tick. *)
LEMMA OrderSurvives ==
    ASSUME NEW ages \in Ages, NEW w \in Nat \ {0}, EldestFirst(ages)
    PROVE  /\ EldestFirst(PopOld(ages, w))
           /\ EldestFirst(Append(PopOld(ages, w), 0))
<1> DEFINE kept == PopOld(ages, w)
           n == FirstBelow(ages, w)
<1>1. /\ kept \in Ages /\ Len(kept) = Len(ages) + 1 - n
      /\ \A i \in 1 .. Len(kept) : kept[i] = ages[n + i - 1]
  BY PopOldIs
<1>2. n \in 1 .. Len(ages) + 1
  BY FirstBelowIs DEF IsFirstBelow
<1> HIDE DEF kept, n
<1>3. Len(ages) \in Nat /\ Len(kept) \in Nat
  BY <1>1, LenProperties DEF Ages
<1>4. ASSUME NEW i \in 1 .. Len(kept), NEW j \in 1 .. Len(kept), i <= j PROVE kept[i] >= kept[j]
  <2>1. n + i - 1 \in 1 .. Len(ages) /\ n + j - 1 \in 1 .. Len(ages) /\ n + i - 1 <= n + j - 1
    BY <1>1, <1>2, <1>3, <1>4
  <2> QED BY <1>1, <2>1 DEF EldestFirst
<1>5. \A i \in 1 .. Len(kept) : kept[i] \in Nat
  BY <1>1, ElementOfSeq DEF Ages
<1>6. /\ Len(Append(kept, 0)) = Len(kept) + 1
      /\ \A i \in 1 .. Len(kept) : Append(kept, 0)[i] = kept[i]
      /\ Append(kept, 0)[Len(kept) + 1] = 0
  BY <1>1 DEF Ages
<1>7. EldestFirst(Append(kept, 0))
  BY <1>3, <1>4, <1>5, <1>6 DEF EldestFirst
<1> QED BY <1>4, <1>7 DEF kept, EldestFirst

-----------------------------------------------------------------------------
(* The pacer.                                                              *)

(* What the pacer still counts is what happened within the last window.    *)
PaceInv ==
    /\ requests \in [Buckets -> Ages] /\ recent \in [Buckets -> Ages]
    /\ \A b \in Buckets : EldestFirst(requests[b])
    /\ \A b \in Buckets : recent[b] = PopOld(requests[b], Window)
    /\ \A b \in Buckets : Len(requests[b]) <= Limit[b]

(* limited[b] is the time since the last 429, the cooldown what is left. *)
CoolInv ==
    /\ limited \in [Buckets -> 0 .. Cooldown] /\ cooldowns \in [Buckets -> 0 .. Cooldown]
    /\ \A b \in Buckets : cooldowns[b] = Cooldown - limited[b]

(* At most the limit took a slot, or fewer than counted. *)
LEMMA PaceInvIsPaced == PaceInv => Paced
<1> SUFFICES ASSUME PaceInv, NEW b \in Buckets PROVE Len(recent[b]) <= Limit[b]
  BY DEF Paced
<1>1. requests[b] \in Ages /\ recent[b] = PopOld(requests[b], Window)
      /\ Len(requests[b]) <= Limit[b] /\ Limit[b] \in Nat /\ Window \in Nat
  BY LimitAssumption, TimeAssumption DEF PaceInv
<1>2. Len(recent[b]) <= Len(requests[b]) /\ Len(requests[b]) \in Nat /\ Len(recent[b]) \in Nat
  BY <1>1, PopOldIs, LenProperties DEF Ages
<1> QED BY <1>1, <1>2

(* A step that leaves the pacer alone. *)
LEMMA PaceKept ==
    ASSUME PaceInv, UNCHANGED <<requests, recent>>
    PROVE  PaceInv'
BY DEF PaceInv

(* Time passes for all buckets alike. *)
LEMMA PaceTick ==
    ASSUME PaceInv, Tick
    PROVE  PaceInv' /\ \A b \in Buckets : Len(recent'[b]) <= Len(recent[b])
<1>1. Window \in Nat \ {0}
  BY TimeAssumption
<1> DEFINE Aged(b) == [i \in DOMAIN requests[b] |->
                         IF requests[b][i] < Window THEN requests[b][i] + 1 ELSE Window]
<1>2. /\ requests' = [b \in Buckets |-> Aged(b)]
      /\ recent' = [b \in Buckets |-> PopOld(Older(recent[b]), Window)]
  BY DEF Tick
<1>3. ASSUME NEW b \in Buckets
      PROVE  /\ Aged(b) \in Ages /\ EldestFirst(Aged(b)) /\ Len(Aged(b)) = Len(requests[b])
             /\ PopOld(Older(recent[b]), Window) = PopOld(Aged(b), Window)
             /\ PopOld(Older(recent[b]), Window) \in Ages
             /\ Len(PopOld(Older(recent[b]), Window)) <= Len(recent[b])
  <2> DEFINE r == requests[b]
             l == Aged(b)
  <2>1. /\ r \in Ages /\ EldestFirst(r) /\ recent[b] = PopOld(r, Window)
    BY DEF PaceInv
  <2>2. Len(r) \in Nat /\ DOMAIN r = 1 .. Len(r) /\ \A i \in 1 .. Len(r) : r[i] \in Nat
    BY <2>1, LenProperties, ElementOfSeq DEF Ages
  <2>3. l = [i \in 1 .. Len(r) |-> IF r[i] < Window THEN r[i] + 1 ELSE Window]
    BY <2>2
  <2> HIDE DEF r, l
  <2>4. l \in [1 .. Len(r) -> Nat]
    BY <1>1, <2>2, <2>3
  <2>5. l \in Ages /\ Len(l) = Len(r)
    BY <2>2, <2>4, SequenceOf
  <2>6. \A i \in 1 .. Len(r) : l[i] = IF r[i] < Window THEN r[i] + 1 ELSE Window
    BY <2>3
  <2>7. EldestFirst(l)
    <3> SUFFICES ASSUME NEW i \in 1 .. Len(r), NEW j \in 1 .. Len(r), i <= j PROVE l[i] >= l[j]
      BY <2>5 DEF EldestFirst
    <3>1. r[i] >= r[j] /\ r[i] \in Nat /\ r[j] \in Nat
      BY <2>1, <2>2 DEF EldestFirst
    <3> QED BY <1>1, <2>6, <3>1
  <2>8. /\ Older(PopOld(r, Window)) \in Ages
        /\ Len(Older(PopOld(r, Window))) = Len(PopOld(r, Window))
        /\ PopOld(Older(PopOld(r, Window)), Window) = PopOld(l, Window)
    BY <1>1, <2>1, <2>5, <2>6, PopOldAndTime
  <2>9. /\ PopOld(Older(PopOld(r, Window)), Window) \in Ages
        /\ Len(PopOld(Older(PopOld(r, Window)), Window)) <= Len(Older(PopOld(r, Window)))
    BY <1>1, <2>8, PopOldIs
  <2> QED BY <2>1, <2>5, <2>7, <2>8, <2>9 DEF r, l
<1> HIDE DEF Aged
<1>4. /\ requests' \in [Buckets -> Ages] /\ recent' \in [Buckets -> Ages]
  BY <1>2, <1>3
<1>5. \A b \in Buckets : requests'[b] = Aged(b) /\ recent'[b] = PopOld(Older(recent[b]), Window)
  BY <1>2
<1>6. \A b \in Buckets : Len(requests[b]) <= Limit[b]
  BY DEF PaceInv
<1> QED BY <1>3, <1>4, <1>5, <1>6 DEF PaceInv

(* reserve_or_wait pops, and appends only where there is room. *)
LEMMA PaceReserve ==
    ASSUME PaceInv, NEW t \in Tasks, ReserveOrWait(t)
    PROVE  PaceInv' /\ \A b \in Buckets : Cooling(b) => recent'[b] = recent[b]
<1> DEFINE b == BucketOf(stage[t])
           kept == Kept(requests[b])
<1>1. b \in Buckets /\ Window \in Nat \ {0} /\ Limit[b] \in Nat
  BY TimeAssumption, LimitAssumption DEF BucketOf, Buckets
<1>2. \/ UNCHANGED <<requests, recent>>
      \/ /\ ~Cooling(b) /\ Room(b, kept)
         /\ requests' = [requests EXCEPT ![b] = Append(kept, 0)]
         /\ recent' = [recent EXCEPT ![b] = Append(@, 0)]
      \/ requests' = [requests EXCEPT ![b] = kept] /\ recent' = recent
  BY DEF ReserveOrWait, TurnedAway
<1>3. requests[b] \in Ages /\ EldestFirst(requests[b]) /\ recent[b] = kept
      /\ Len(requests[b]) <= Limit[b]
  BY <1>1 DEF PaceInv, Kept
<1>4. /\ kept \in Ages /\ Len(kept) <= Len(requests[b])
      /\ PopOld(kept, Window) = kept /\ EldestFirst(kept)
      /\ Append(kept, 0) \in Ages /\ EldestFirst(Append(kept, 0))
      /\ PopOld(Append(kept, 0), Window) = Append(kept, 0)
  BY <1>1, <1>3, PopOldIs, PopOldAndAppend, OrderSurvives DEF Kept
<1> HIDE DEF b, kept
<1>5. Len(kept) \in Nat /\ Len(requests[b]) \in Nat /\ Len(Append(kept, 0)) = Len(kept) + 1
  BY <1>3, <1>4, LenProperties DEF Ages
<1>6. CASE UNCHANGED <<requests, recent>>
  BY <1>6, PaceKept
<1>7. CASE /\ ~Cooling(b) /\ Room(b, kept)
           /\ requests' = [requests EXCEPT ![b] = Append(kept, 0)]
           /\ recent' = [recent EXCEPT ![b] = Append(@, 0)]
  <2>1. /\ requests' \in [Buckets -> Ages] /\ recent' \in [Buckets -> Ages]
        /\ requests'[b] = Append(kept, 0) /\ recent'[b] = Append(kept, 0)
        /\ \A c \in Buckets \ {b} : requests'[c] = requests[c] /\ recent'[c] = recent[c]
    BY <1>1, <1>3, <1>4, <1>7 DEF PaceInv
  <2>2. Len(Append(kept, 0)) <= Limit[b]
    BY <1>1, <1>5, <1>7 DEF Room
  <2>3. PaceInv'
    <3> SUFFICES ASSUME NEW c \in Buckets
                 PROVE  /\ EldestFirst(requests'[c]) /\ Len(requests'[c]) <= Limit[c]
                        /\ recent'[c] = PopOld(requests'[c], Window)
      BY <2>1 DEF PaceInv
    <3>1. CASE c = b
      BY <1>4, <2>1, <2>2, <3>1
    <3>2. CASE c # b
      BY <2>1, <3>2 DEF PaceInv
    <3> QED BY <3>1, <3>2
  <2> QED BY <1>7, <2>1, <2>3
<1>8. CASE requests' = [requests EXCEPT ![b] = kept] /\ recent' = recent
  <2>1. /\ requests' \in [Buckets -> Ages] /\ recent' \in [Buckets -> Ages]
        /\ requests'[b] = kept /\ recent'[b] = kept
        /\ \A c \in Buckets \ {b} : requests'[c] = requests[c] /\ recent'[c] = recent[c]
    BY <1>1, <1>3, <1>4, <1>8 DEF PaceInv
  <2>2. Len(kept) <= Limit[b]
    BY <1>1, <1>3, <1>4, <1>5
  <2>3. PaceInv'
    <3> SUFFICES ASSUME NEW c \in Buckets
                 PROVE  /\ EldestFirst(requests'[c]) /\ Len(requests'[c]) <= Limit[c]
                        /\ recent'[c] = PopOld(requests'[c], Window)
      BY <2>1 DEF PaceInv
    <3>1. CASE c = b
      BY <1>4, <2>1, <2>2, <3>1
    <3>2. CASE c # b
      BY <2>1, <3>2 DEF PaceInv
    <3> QED BY <3>1, <3>2
  <2> QED BY <1>8, <2>3
<1> QED BY <1>2, <1>6, <1>7, <1>8

(* The steps that neither pass time nor reserve. *)
Others(t) == Want(t) \/ ReadClock(t) \/ SyncAnswered(t) \/ SyncFails(t) \/ Answer(t)
Rest == Interval \/ Overdue \/ EngineHears \/ \E d \in {-1, 1} : WallClockStep(d)

(* No other step touches the queues. *)
LEMMA QueuesKept ==
    ASSUME (\E t \in Tasks : Others(t)) \/ Rest \/ UNCHANGED vars
    PROVE  UNCHANGED <<requests, recent>>
<1>1. ASSUME NEW t \in Tasks, Others(t) PROVE UNCHANGED <<requests, recent>>
  BY <1>1 DEF Others, Want, ReadClock, SyncAnswered, SyncFails, Answer
<1>2. CASE Rest
  BY <1>2 DEF Rest, Interval, Overdue, EngineHears, WallClockStep
<1>3. CASE UNCHANGED vars
  BY <1>3 DEF vars
<1> QED BY <1>1, <1>2, <1>3

(* What a step is, for the proofs below. *)
LEMMA StepCases ==
    ASSUME [Next]_vars
    PROVE  \/ Tick \/ \E t \in Tasks : ReserveOrWait(t)
           \/ (\E t \in Tasks : Others(t)) \/ Rest \/ UNCHANGED vars
BY DEF Next, TaskStep, Others, Rest

(* No request has been made at first. *)
LEMMA PaceInit == Init => PaceInv
<1> SUFFICES ASSUME Init PROVE PaceInv
  OBVIOUS
<1>1. Window \in Nat /\ \A b \in Buckets : Limit[b] \in Nat
  BY TimeAssumption, LimitAssumption
<1>2. <<>> \in Ages /\ Len(<<>>) = 0
  BY DEF Ages
<1>3. PopOld(<<>>, Window) = <<>>
  BY <1>1, <1>2, NothingToPop
<1>4. /\ requests \in [Buckets -> Ages] /\ recent \in [Buckets -> Ages]
      /\ \A b \in Buckets : requests[b] = <<>> /\ recent[b] = <<>>
  BY <1>2 DEF Init
<1>5. EldestFirst(<<>>)
  BY <1>2 DEF EldestFirst
<1> QED BY <1>1, <1>2, <1>3, <1>4, <1>5 DEF PaceInv

(* Every step keeps the queues of a bucket in step with its history. *)
LEMMA PaceStep == PaceInv /\ [Next]_vars => PaceInv'
<1> SUFFICES ASSUME PaceInv, [Next]_vars PROVE PaceInv'
  OBVIOUS
<1> QED BY StepCases, PaceTick, PaceReserve, QueuesKept, PaceKept

(* However many tasks compete for a bucket, no more than its limit take a  *)
(* slot within any window (RateLimitPacer::reserve_or_wait).               *)
THEOREM RequestsArePaced == Spec => []Paced
BY PaceInit, PaceStep, PaceInvIsPaced, PTL DEF Spec

(* A cooldown runs down with the time since the last 429. *)
LEMMA CoolStep == CoolInv /\ [Next]_vars => CoolInv'
<1> SUFFICES ASSUME CoolInv, [Next]_vars PROVE CoolInv'
  OBVIOUS
<1> DEFINE Same == UNCHANGED <<cooldowns, limited>>
<1>1. Cooldown \in Nat \ {0}
  BY TimeAssumption
<1>2. CASE Same
  BY <1>2 DEF CoolInv
<1>3. ASSUME NEW c \in Buckets, RateLimited(c) PROVE CoolInv'
  BY <1>1, <1>3 DEF RateLimited, CoolInv
<1>4. CASE Tick
  <2>1. ASSUME NEW b \in Buckets
        PROVE  /\ limited'[b] \in 0 .. Cooldown /\ cooldowns'[b] \in 0 .. Cooldown
               /\ cooldowns'[b] = Cooldown - limited'[b]
    <3>1. /\ limited'[b] = IF limited[b] < Cooldown THEN limited[b] + 1 ELSE Cooldown
          /\ cooldowns'[b] = IF cooldowns[b] > 0 THEN cooldowns[b] - 1 ELSE 0
      BY <1>4 DEF Tick, Less
    <3>2. /\ limited[b] \in 0 .. Cooldown /\ cooldowns[b] \in 0 .. Cooldown
          /\ cooldowns[b] = Cooldown - limited[b]
      BY DEF CoolInv
    <3> QED BY <1>1, <3>1, <3>2
  <2>2. /\ limited' = [b \in Buckets |-> limited'[b]]
        /\ cooldowns' = [b \in Buckets |-> cooldowns'[b]]
    BY <1>4 DEF Tick
  <2> QED BY <2>1, <2>2 DEF CoolInv
<1>5. ASSUME NEW t \in Tasks, ReserveOrWait(t) PROVE Same
  BY <1>5 DEF ReserveOrWait
<1>6. ASSUME NEW t \in Tasks, Others(t)
      PROVE  Same \/ \E c \in Buckets : RateLimited(c)
  BY <1>6 DEF Others, Want, ReadClock, SyncAnswered, SyncFails, Answer, NotLimited, Buckets
<1>7. CASE Rest
  <2>1. Same
    BY <1>7 DEF Rest, Interval, Overdue, EngineHears, WallClockStep
  <2> QED BY <1>2, <2>1
<1>8. CASE UNCHANGED vars
  BY <1>2, <1>8 DEF vars
<1> HIDE DEF Same
<1> QED BY StepCases, <1>2, <1>3, <1>4, <1>5, <1>6, <1>7, <1>8

(* No slot is taken while OKX's last "too many requests" is younger than   *)
(* the cooldown (RateLimitPacer::record_rate_limit_at, reserve_or_wait).   *)
THEOREM CooldownsAreKept == Spec => CooldownKept
<1> DEFINE NoSlot == \A b \in Buckets : limited[b] < Cooldown => Len(recent'[b]) <= Len(recent[b])
<1>1. Init => CoolInv
  BY TimeAssumption DEF Init, CoolInv
<1>2. PaceInv /\ CoolInv /\ [Next]_vars => [NoSlot]_vars
  <2> SUFFICES ASSUME PaceInv, CoolInv, [Next]_vars, NEW b \in Buckets, limited[b] < Cooldown
               PROVE  Len(recent'[b]) <= Len(recent[b])
    OBVIOUS
  <2>1. Cooling(b)
    BY TimeAssumption DEF CoolInv, Cooling
  <2>2. Len(recent[b]) \in Nat
    BY LenProperties DEF PaceInv, Ages
  <2>3. CASE recent'[b] = recent[b]
    BY <2>2, <2>3
  <2>4. CASE Tick
    BY <2>4, PaceTick
  <2>5. ASSUME NEW t \in Tasks, ReserveOrWait(t) PROVE recent'[b] = recent[b]
    BY <2>1, <2>5, PaceReserve
  <2> QED BY StepCases, QueuesKept, <2>3, <2>4, <2>5
<1> QED BY <1>1, <1>2, PaceInit, PaceStep, CoolStep, PTL DEF Spec, CooldownKept

-----------------------------------------------------------------------------
(* The clock.                                                              *)

Syncs == [wait : Nat, rtt : Nat, step : Int]
Snapshots == [age : Nat, err : Int, span : Nat, some : BOOLEAN]
Syncing == {"syncPace", "sync"}

ClockType ==
    /\ stage \in [Tasks -> Stages]
    /\ sync \in [Tasks -> Syncs]
    /\ snapshot \in Snapshots
    /\ stepAge \in 0 .. LongAgo

Close(err, span) == 2 * err \in -(span + 1) .. (span + 1)

(* A refresh under way knows of every step of the wall clock, and a        *)
(* snapshot that may still be used is close or from around a step.         *)
ClockInv ==
    /\ ClockType
    /\ \A t \in Tasks :
          stage[t] \in Syncing /\ sync[t].step # 0 => stepAge <= Total(sync[t])
    /\ snapshot.some /\ snapshot.age <= Ttl /\ ~Close(snapshot.err, snapshot.span) =>
          stepAge <= snapshot.age + snapshot.span

(* An estimate is off by half of its refresh if the wall clock was left    *)
(* alone, wherever in it OKX read its clock (ServerTimeClock::record).     *)
LEMMA HalfARefresh ==
    ASSUME NEW s \in Syncs, s.step = 0, NEW up \in s.wait .. Total(s)
    PROVE  Close(OffsetError(up, s), Total(s))
<1>1. s.wait \in Nat /\ s.rtt \in Nat /\ s.step = 0
  BY DEF Syncs
<1>2. Total(s) \in Nat /\ up \in 0 .. Total(s)
  BY <1>1 DEF Total
<1> DEFINE total == Total(s)
           half == total \div 2
<1> HIDE DEF total
<1>3. OffsetError(up, s) = up - half
  <2>1. total \in Nat /\ up \in Nat /\ s.step = 0
    BY <1>1, <1>2 DEF total
  <2>2. OffsetError(up, s) = up + (s.step - ((total + s.step) \div 2))
    BY DEF OffsetError, total
  <2>3. total + s.step = total
    BY <2>1
  <2>4. OffsetError(up, s) = up + (0 - (total \div 2))
    BY <2>1, <2>2, <2>3, Zenon
  <2> QED BY <2>1, <2>4
<1>4. total \in Nat /\ up \in 0 .. total
  BY <1>2 DEF total
<1>5. half \in Nat /\ 2 * half <= total /\ total <= 2 * half + 1
  BY <1>4
<1> HIDE DEF half
<1>6. 2 * (up - half) >= -(total + 1) /\ 2 * (up - half) <= total + 1
  BY <1>4, <1>5
<1>7. Close(up - half, total)
  BY <1>4, <1>5, <1>6 DEF Close
<1> QED BY <1>3, <1>7 DEF total

(* Time passes: a step of the wall clock ages no slower than a request or  *)
(* the snapshot.                                                           *)
LEMMA ClockTick ==
    ASSUME ClockInv, Tick
    PROVE  ClockInv'
<1>1. Ttl \in Nat /\ MaxRtt \in Nat /\ MaxWait \in Nat /\ LongAgo = Ttl + MaxWait + MaxRtt + 1
  BY TimeAssumption DEF LongAgo
<1>2. /\ stepAge \in 0 .. LongAgo /\ stepAge' \in 0 .. LongAgo /\ stepAge' <= stepAge + 1
  BY <1>1 DEF ClockInv, ClockType, Tick, Capped
<1>3. ASSUME NEW t \in Tasks
      PROVE  /\ sync'[t] \in Syncs /\ stage'[t] = stage[t] /\ sync'[t].step = sync[t].step
             /\ stage[t] = "sync" => /\ sync'[t].rtt = sync[t].rtt + 1
                                     /\ sync'[t].wait = sync[t].wait
             /\ stage[t] = "syncPace" => /\ sync'[t].rtt = sync[t].rtt
                                         /\ sync'[t].wait = sync[t].wait + 1
  <2>1. sync[t] \in Syncs /\ stage' = stage
    BY DEF ClockInv, ClockType, Tick
  <2>2. sync'[t] = CASE stage[t] = "syncPace" -> [sync[t] EXCEPT !.wait = @ + 1]
                     [] stage[t] = "sync"     -> [sync[t] EXCEPT !.rtt = @ + 1]
                     [] OTHER                 -> sync[t]
    BY DEF Tick
  <2>3. CASE stage[t] = "syncPace"
    BY <2>1, <2>2, <2>3 DEF Syncs
  <2>4. CASE stage[t] = "sync"
    BY <2>1, <2>2, <2>4 DEF Syncs
  <2>5. CASE stage[t] \notin {"syncPace", "sync"}
    BY <2>1, <2>2, <2>5
  <2> QED BY <2>3, <2>4, <2>5
<1>4. ASSUME NEW t \in Tasks, stage'[t] \in Syncing, sync'[t].step # 0
      PROVE  stepAge' <= Total(sync'[t])
  <2>1. /\ sync[t].wait \in Nat /\ sync[t].rtt \in Nat /\ stage[t] \in Syncing
        /\ stepAge <= sync[t].wait + sync[t].rtt
    BY <1>3, <1>4 DEF ClockInv, ClockType, Total, Syncs
  <2>2. CASE stage[t] = "sync"
    BY <1>2, <1>3, <2>1, <2>2 DEF Total
  <2>3. CASE stage[t] = "syncPace"
    BY <1>2, <1>3, <2>1, <2>3 DEF Total
  <2> QED BY <2>1, <2>2, <2>3 DEF Syncing
<1>5. sync' \in [Tasks -> Syncs]
  <2>1. sync' = [t \in Tasks |-> sync'[t]]
    BY DEF Tick
  <2> QED BY <1>3, <2>1
<1>6. /\ snapshot' \in Snapshots
      /\ snapshot'.err = snapshot.err /\ snapshot'.some = snapshot.some
      /\ snapshot'.span = snapshot.span
      /\ snapshot.some /\ snapshot'.age <= Ttl =>
            snapshot.age <= Ttl /\ snapshot'.age = snapshot.age + 1
  BY <1>1 DEF ClockInv, ClockType, Tick, Snapshots
<1>7. snapshot'.some /\ snapshot'.age <= Ttl /\ ~Close(snapshot'.err, snapshot'.span) =>
          stepAge' <= snapshot'.age + snapshot'.span
  <2> SUFFICES ASSUME snapshot'.some, snapshot'.age <= Ttl, ~Close(snapshot'.err, snapshot'.span)
               PROVE  stepAge' <= snapshot'.age + snapshot'.span
    OBVIOUS
  <2>1. stepAge <= snapshot.age + snapshot.span /\ snapshot'.age = snapshot.age + 1
        /\ snapshot.age \in Nat /\ snapshot.span \in Nat
    BY <1>6 DEF ClockInv, ClockType, Snapshots
  <2> QED BY <1>1, <1>2, <1>6, <2>1
<1>8. stage' = stage /\ stage \in [Tasks -> Stages]
  BY DEF Tick, ClockInv, ClockType
<1> QED BY <1>2, <1>4, <1>5, <1>6, <1>7, <1>8 DEF ClockInv, ClockType, LongAgo

(* A step that leaves the clock and the requests under way alone.          *)
LEMMA ClockKept ==
    ASSUME ClockInv, UNCHANGED <<sync, snapshot, stepAge>>, stage' \in [Tasks -> Stages],
           \A t \in Tasks : stage'[t] \in Syncing => stage'[t] = stage[t]
    PROVE  ClockInv'
BY DEF ClockInv, ClockType, Close, LongAgo, Syncing, Total

(* The wall clock is stepped: whoever asks for the time knows, and the     *)
(* snapshot is from before.                                                *)
LEMMA ClockSteps ==
    ASSUME ClockInv, NEW d \in {-1, 1}, WallClockStep(d)
    PROVE  ClockInv'
<1>1. Ttl \in Nat /\ MaxRtt \in Nat /\ MaxWait \in Nat /\ LongAgo = Ttl + MaxWait + MaxRtt + 1
  BY TimeAssumption DEF LongAgo
<1>2. stepAge' = 0 /\ stage' = stage /\ stepAge' \in 0 .. LongAgo
  BY <1>1 DEF WallClockStep
<1>3. ASSUME NEW t \in Tasks
      PROVE  sync'[t] \in Syncs /\ sync'[t].wait = sync[t].wait /\ sync'[t].rtt = sync[t].rtt
  BY DEF WallClockStep, ClockInv, ClockType, Syncs
<1>4. sync' \in [Tasks -> Syncs]
  <2>1. sync' = [t \in Tasks |-> sync'[t]]
    BY DEF WallClockStep
  <2> QED BY <1>3, <2>1
<1>5. /\ snapshot' \in Snapshots /\ snapshot'.some = snapshot.some
      /\ snapshot'.span = snapshot.span
  BY DEF WallClockStep, ClockInv, ClockType, Snapshots
<1>6. \A t \in Tasks : stepAge' <= Total(sync'[t])
  <2>1. \A t \in Tasks : sync'[t].wait \in Nat /\ sync'[t].rtt \in Nat
    BY <1>3 DEF Syncs
  <2> QED BY <1>2, <2>1 DEF Total
<1>7. stepAge' <= snapshot'.age + snapshot'.span
  BY <1>2, <1>5 DEF Snapshots
<1>8. stage' \in [Tasks -> Stages]
  BY <1>2 DEF ClockInv, ClockType
<1> QED BY <1>2, <1>4, <1>5, <1>6, <1>7, <1>8 DEF ClockInv, ClockType, LongAgo

(* A step that starts or ends the refresh of one task, and leaves the      *)
(* others and the snapshot alone, or drops it.                             *)
LEMMA ClockReset ==
    ASSUME ClockInv, NEW t \in Tasks, NEW to \in Stages,
           stage' = [stage EXCEPT ![t] = to], sync' = [sync EXCEPT ![t] = NoSync],
           UNCHANGED stepAge, UNCHANGED snapshot \/ snapshot' = NoSnapshot
    PROVE  ClockInv'
<1>1. /\ stage' \in [Tasks -> Stages] /\ sync' \in [Tasks -> Syncs]
      /\ sync'[t].wait = 0 /\ sync'[t].rtt = 0 /\ sync'[t].step = 0
      /\ \A u \in Tasks \ {t} : sync'[u] = sync[u] /\ stage'[u] = stage[u]
  BY DEF ClockInv, ClockType, NoSync, Syncs
<1>2. \A u \in Tasks :
          stage'[u] \in Syncing /\ sync'[u].step # 0 => stepAge' <= Total(sync'[u])
  BY <1>1 DEF ClockInv, Total
<1>3. /\ snapshot' \in Snapshots
      /\ snapshot'.some => snapshot' = snapshot
  <2>1. NoSnapshot \in Snapshots /\ ~NoSnapshot.some
    BY DEF NoSnapshot, Snapshots
  <2>2. snapshot \in Snapshots
    BY DEF ClockInv, ClockType
  <2> QED BY <2>1, <2>2
<1>4. snapshot'.some /\ snapshot'.age <= Ttl /\ ~Close(snapshot'.err, snapshot'.span) =>
          stepAge' <= snapshot'.age + snapshot'.span
  BY <1>3 DEF ClockInv
<1>5. stepAge' \in 0 .. LongAgo
  BY DEF ClockInv, ClockType
<1>6. ClockType'
  BY <1>1, <1>3, <1>5 DEF ClockType, LongAgo
<1> QED BY <1>2, <1>4, <1>6 DEF ClockInv

(* What reserve_or_wait does to the time requests. *)
LEMMA ClockReserve ==
    ASSUME ClockInv, NEW t \in Tasks, ReserveOrWait(t)
    PROVE  ClockInv'
<1>1. UNCHANGED <<snapshot, sync, stepAge>>
  BY DEF ReserveOrWait
<1>2. \/ UNCHANGED stage
      \/ stage[t] = "pace" /\ stage' = [stage EXCEPT ![t] = "timing"]
      \/ stage[t] = "syncPace" /\ stage' = [stage EXCEPT ![t] = "sync"]
  BY DEF ReserveOrWait, BucketOf
<1>3. stage' \in [Tasks -> Stages]
  BY <1>2 DEF ClockInv, ClockType, Stages
<1>4. \A u \in Tasks : stage'[u] \in Syncing => stage[u] \in Syncing
  BY <1>2, <1>3 DEF ClockInv, ClockType, Syncing
<1> QED BY <1>1, <1>3, <1>4 DEF ClockInv, ClockType, LongAgo, Total, Close

(* refresh_server_time records an answer, or fails. *)
LEMMA ClockAnswered ==
    ASSUME ClockInv, NEW t \in Tasks, SyncAnswered(t)
    PROVE  /\ ClockInv'
           /\ stage'[t] = "flight" => snapshot'.some /\ snapshot'.age <= Ttl
<1> DEFINE s == sync[t]
           done == Total(s) + s.step >= 0
<1>1. Ttl \in Nat
  BY TimeAssumption
<1>2. PICK up \in s.wait .. Total(s) :
         snapshot' = IF done THEN [age |-> 0, err |-> OffsetError(up, s),
                                   span |-> Total(s), some |-> TRUE]
                     ELSE snapshot
  BY DEF SyncAnswered
<1>3. /\ stage[t] = "sync" /\ stepAge' = stepAge
      /\ stage' = [stage EXCEPT ![t] = IF done /\ t \in Clients THEN "flight" ELSE "idle"]
      /\ sync' = [sync EXCEPT ![t] = NoSync]
  BY DEF SyncAnswered
<1>4. s \in Syncs /\ (s.step # 0 => stepAge <= Total(s))
  BY <1>3 DEF ClockInv, ClockType, Syncing
<1>5. Total(s) \in Nat /\ OffsetError(up, s) \in Int
  <2>1. s.wait \in Nat /\ s.rtt \in Nat /\ s.step \in Int
    BY <1>4 DEF Syncs
  <2>2. Total(s) \in Nat
    BY <2>1 DEF Total
  <2>3. up \in Int
    BY <2>1, <2>2
  <2> QED BY <2>1, <2>2, <2>3 DEF OffsetError
<1>6. s.step = 0 => Close(OffsetError(up, s), Total(s))
  BY <1>4, HalfARefresh
<1> HIDE DEF s, done
<1>7. stage'[t] = "flight" => done
  BY <1>3 DEF ClockInv, ClockType
<1>8. PICK to \in Stages : stage' = [stage EXCEPT ![t] = to] /\ to \notin Syncing
  BY <1>3 DEF Stages, Syncing
<1>9. /\ stage' \in [Tasks -> Stages] /\ sync' \in [Tasks -> Syncs]
      /\ \A u \in Tasks : stage'[u] \in Syncing =>
            stage'[u] = stage[u] /\ sync'[u] = sync[u]
  BY <1>3, <1>8 DEF ClockInv, ClockType, NoSync, Syncs
<1>10. \A u \in Tasks :
          stage'[u] \in Syncing /\ sync'[u].step # 0 => stepAge' <= Total(sync'[u])
  BY <1>3, <1>9 DEF ClockInv
<1>11. CASE done
  <2>1. snapshot' = [age |-> 0, err |-> OffsetError(up, s), span |-> Total(s), some |-> TRUE]
    BY <1>2, <1>11
  <2>2. /\ snapshot' \in Snapshots
        /\ snapshot'.age = 0 /\ snapshot'.some /\ snapshot'.err = OffsetError(up, s)
        /\ snapshot'.span = Total(s)
    BY <1>5, <2>1 DEF Snapshots
  <2>3. ~Close(snapshot'.err, snapshot'.span) => stepAge' <= snapshot'.age + snapshot'.span
    <3> SUFFICES ASSUME ~Close(snapshot'.err, snapshot'.span)
                 PROVE  stepAge' <= snapshot'.age + snapshot'.span
      OBVIOUS
    <3>1. s.step # 0
      BY <1>6, <2>2
    <3>2. stepAge <= Total(s)
      BY <1>4, <3>1
    <3> QED BY <1>3, <1>5, <2>2, <3>2
  <2> QED
    BY <1>1, <1>3, <1>5, <1>9, <1>10, <2>2, <2>3 DEF ClockInv, ClockType, LongAgo
<1>12. CASE ~done
  <2>1. snapshot' = snapshot
    BY <1>2, <1>12
  <2> QED BY <1>3, <1>7, <1>9, <1>10, <1>12, <2>1 DEF ClockInv, ClockType, LongAgo
<1> QED BY <1>11, <1>12

(* Nothing is signed with an old snapshot, and an old one is dropped. *)
LEMMA ClockRead ==
    ASSUME ClockInv, NEW t \in Tasks, ReadClock(t)
    PROVE  /\ ClockInv'
           /\ stage'[t] = "flight" => snapshot'.some /\ snapshot'.age <= Ttl
<1>1. /\ sync' = [sync EXCEPT ![t] = NoSync] /\ stepAge' = stepAge
      /\ stage' = [stage EXCEPT ![t] = IF Expired THEN "syncPace" ELSE "flight"]
      /\ snapshot' = IF Expired THEN NoSnapshot ELSE snapshot
  BY DEF ReadClock
<1>2. PICK to \in Stages : stage' = [stage EXCEPT ![t] = to] /\ (Expired => to # "flight")
  BY <1>1 DEF Stages
<1>3. ClockInv'
  BY <1>1, <1>2, ClockReset
<1>4. stage'[t] = "flight" => ~Expired
  BY <1>2 DEF ClockInv, ClockType
<1>5. ~Expired => snapshot' = snapshot /\ snapshot.some /\ snapshot.age <= Ttl
  BY <1>1, TimeAssumption DEF Expired, ClockInv, ClockType, Snapshots
<1> QED BY <1>3, <1>4, <1>5

(* Every step keeps the invariant, and a request that is sent has a        *)
(* snapshot that may be used.                                              *)
LEMMA ClockStep ==
    ASSUME ClockInv, [Next]_vars
    PROVE  /\ ClockInv'
           /\ \A t \in Clients : stage[t] # "flight" /\ stage'[t] = "flight" =>
                 snapshot'.some /\ snapshot'.age <= Ttl /\ stepAge' = stepAge
<1> DEFINE Sent == \A t \in Clients : stage[t] # "flight" /\ stage'[t] = "flight" =>
                 snapshot'.some /\ snapshot'.age <= Ttl /\ stepAge' = stepAge
<1>1. CASE Tick
  <2>1. stage' = stage
    BY <1>1 DEF Tick
  <2> QED BY <1>1, <2>1, ClockTick
<1>2. CASE \E d \in {-1, 1} : WallClockStep(d)
  <2>1. stage' = stage
    BY <1>2 DEF WallClockStep
  <2> QED BY <1>2, <2>1, ClockSteps
<1>3. ASSUME NEW t \in Tasks, ReserveOrWait(t) PROVE ClockInv' /\ Sent
  <2>1. \A u \in Clients : stage[u] # "flight" => stage'[u] # "flight"
    BY <1>3 DEF ReserveOrWait, ClockInv, ClockType, Tasks
  <2> QED BY <1>3, <2>1, ClockReserve
<1>4. ASSUME NEW t \in Tasks, SyncAnswered(t) \/ ReadClock(t) PROVE ClockInv' /\ Sent
  <2>1. stepAge' = stepAge /\ \A u \in Tasks \ {t} : stage'[u] = stage[u]
    BY <1>4 DEF SyncAnswered, ReadClock, ClockInv, ClockType
  <2> QED BY <1>4, <2>1, ClockAnswered, ClockRead DEF Tasks
<1>5. ASSUME NEW t \in Tasks, Want(t) \/ Answer(t) \/ SyncFails(t) PROVE ClockInv' /\ Sent
  <2>1. PICK to \in {"idle", "pace"} : stage' = [stage EXCEPT ![t] = to]
    BY <1>5 DEF Want, Answer, SyncFails
  <2>2. /\ UNCHANGED <<snapshot, stepAge>>
        /\ UNCHANGED sync \/ sync' = [sync EXCEPT ![t] = NoSync]
    BY <1>5 DEF Want, Answer, SyncFails
  <2>3. /\ stage' \in [Tasks -> Stages] /\ stage'[t] \in {"idle", "pace"} /\ to \in Stages
        /\ \A u \in Tasks \ {t} : stage'[u] = stage[u]
    BY <2>1 DEF ClockInv, ClockType, Stages
  <2>4. ClockInv'
    BY <2>1, <2>2, <2>3, ClockKept, ClockReset DEF Syncing
  <2> QED BY <2>3, <2>4 DEF Tasks
<1>6. CASE Interval \/ Overdue
  <2>1. PICK to \in {"idle", "syncPace"} : stage' = [stage EXCEPT ![Refresher] = to]
    BY <1>6 DEF Interval, Overdue
  <2>2. /\ sync' = [sync EXCEPT ![Refresher] = NoSync] /\ UNCHANGED stepAge
        /\ UNCHANGED snapshot \/ snapshot' = NoSnapshot
    BY <1>6 DEF Interval, Overdue
  <2>3. /\ to \in Stages /\ Refresher \in Tasks
        /\ \A u \in Clients : stage'[u] = stage[u]
    BY <2>1, TaskAssumption DEF ClockInv, ClockType, Stages, Tasks
  <2>4. ClockInv'
    BY <2>1, <2>2, <2>3, ClockReset
  <2> QED BY <2>3, <2>4
<1>7. CASE EngineHears \/ UNCHANGED vars
  <2>1. UNCHANGED <<snapshot, stepAge, stage, sync>>
    BY <1>7 DEF EngineHears, vars
  <2> QED BY <2>1, ClockKept DEF ClockInv, ClockType
<1> QED
  BY StepCases, <1>1, <1>2, <1>3, <1>4, <1>5, <1>6, <1>7 DEF Others, Rest

(* A request is signed with a server time that is off by half of what its  *)
(* refresh took at most, its wait for a slot included, unless the wall     *)
(* clock was stepped lately (private_request_timing, refresh_server_time). *)
THEOREM RequestsAreSignedInTime == Spec => SignedInTime
<1> DEFINE Signed == \A t \in Clients : stage[t] # "flight" /\ stage'[t] = "flight" =>
          \/ 2 * snapshot'.err \in -(snapshot'.span + 1) .. (snapshot'.span + 1)
          \/ stepAge <= Ttl + snapshot'.span
<1>1. Init => ClockInv
  <2> SUFFICES ASSUME Init PROVE ClockInv
    OBVIOUS
  <2>1. LongAgo \in Nat
    BY TimeAssumption DEF LongAgo
  <2> QED BY <2>1 DEF Init, ClockInv, ClockType, NoSync, NoSnapshot, Stages, Syncs, Snapshots,
                      Syncing
<1>2. ClockInv /\ [Next]_vars => ClockInv'
  BY ClockStep
<1>3. ClockInv /\ ClockInv' /\ [Next]_vars => [Signed]_vars
  <2> SUFFICES ASSUME ClockInv, ClockInv', [Next]_vars, NEW t \in Clients,
                      stage[t] # "flight", stage'[t] = "flight",
                      ~(2 * snapshot'.err \in -(snapshot'.span + 1) .. (snapshot'.span + 1))
               PROVE  stepAge <= Ttl + snapshot'.span
    OBVIOUS
  <2>1. snapshot'.some /\ snapshot'.age <= Ttl /\ stepAge' = stepAge
    BY ClockStep
  <2>2. /\ stepAge' <= snapshot'.age + snapshot'.span
        /\ snapshot'.age \in Nat /\ snapshot'.span \in Nat /\ stepAge' \in Int
    BY <2>1, TimeAssumption DEF ClockInv, ClockType, Close, LongAgo, Snapshots
  <2> QED BY <2>1, <2>2, TimeAssumption
<1> QED BY <1>1, <1>2, <1>3, PTL DEF Spec, SignedInTime
===============================================================================
