-------------------------- MODULE MarketDataProofs --------------------------
(***************************************************************************)
(* Proofs about Level2Book, for every set of prices, depth, window, set of *)
(* books and number of messages and faults: what the runtime and a replay  *)
(* trust is a book of OKX's, and the engine never goes back.  Then proofs  *)
(* about CandleFeed, for every period, poll interval, staleness, lag, call *)
(* time and limit: the signal is fed every bar in order, an entry sees the *)
(* bar it is about, and an announced candle waits only for failing calls.  *)
(***************************************************************************)
EXTENDS Level2Book, CandleFeed, FiniteSetTheorems, FunctionTheorems, NaturalsInduction, TLAPS

-----------------------------------------------------------------------------
(* One side of a book.                                                     *)

(* The levels of a side are finitely many prices. *)
LEMMA LevelsAreFinite ==
    ASSUME NEW side
    PROVE  /\ Levels(side) \subseteq Prices /\ IsFiniteSet(Levels(side))
           /\ Cardinality(Levels(side)) \in Nat
<1>1. Levels(side) \subseteq Prices
  BY DEF Levels
<1>2. IsFiniteSet(Levels(side))
  BY <1>1, FS_Subset, PricesAssumption
<1> QED BY <1>1, <1>2, FS_CardinalityType

(* What an update from old to new makes of old, before it is trimmed. *)
LEMMA MergedSide ==
    ASSUME NEW old \in Side, NEW new \in Side, NEW silent
    PROVE  Merged(old, Diff(old, new, silent))
             = [p \in Prices |-> IF p \in silent THEN old[p] ELSE new[p]]
<1>1. ASSUME NEW p \in Prices
      PROVE  (IF Diff(old, new, silent)[p] = Keep THEN old[p] ELSE Diff(old, new, silent)[p])
               = IF p \in silent THEN old[p] ELSE new[p]
  <2>1. new[p] \in Nat /\ Keep = -1
    BY DEF Side, Keep
  <2>2. Diff(old, new, silent)[p] = IF new[p] = old[p] \/ p \in silent THEN Keep ELSE new[p]
    BY DEF Diff
  <2> QED BY <2>1, <2>2
<1> QED BY <1>1 DEF Merged

(* An update spelled out in full, trimmed or not, gives the new side. *)
LEMMA FullUpdate ==
    ASSUME NEW old \in Side, NEW new \in Side
    PROVE  Merged(old, Diff(old, new, {})) = new
BY MergedSide DEF Side

(* A side within the depth is not trimmed. *)
LEMMA TrimmedWithin ==
    ASSUME NEW side, Cardinality(Levels(side)) <= Depth, NEW bids
    PROVE  Trimmed(side, bids) = side
BY DEF Trimmed

(* No price is worse than itself or than a worse one. *)
LEMMA WorseIsStrict ==
    ASSUME NEW bids \in BOOLEAN
    PROVE  /\ \A p \in Prices : ~Worse(bids, p, p)
           /\ \A p, q \in Prices : Worse(bids, p, q) => ~Worse(bids, q, p)
<1>1. \A p, q \in Prices : ~(p < p) /\ (p < q => ~(q < p))
  BY PricesAssumption
<1>2. \A p, q \in Prices : ~(p > p) /\ (p > q => ~(q > p))
  BY PricesAssumption
<1>3. CASE bids
  BY <1>1, <1>3, Zenon DEF Worse
<1>4. CASE ~bids
  BY <1>2, <1>4, Zenon DEF Worse
<1> QED BY <1>3, <1>4

(* trim_to_depth makes up for the removals OKX leaves out: the update from *)
(* one book to the next gives the next, told or not.                       *)
LEMMA TrimRestores ==
    ASSUME NEW old \in Side, NEW new \in Side, NEW bids \in BOOLEAN,
           Cardinality(Levels(new)) <= Depth
    PROVE  Trimmed(Merged(old, Diff(old, new, PushedOut(old, new, bids))), bids) = new
<1> DEFINE gone == PushedOut(old, new, bids)
           side == [p \in Prices |-> IF p \in gone THEN old[p] ELSE new[p]]
           better(p) == {q \in Levels(side) : Worse(bids, p, q)}
<1>1. Merged(old, Diff(old, new, gone)) = side
  BY MergedSide
<1>2. gone \subseteq Levels(old) /\ gone \cap Levels(new) = {} /\ gone \subseteq Prices
  BY DEF PushedOut, Levels
<1>3. Levels(side) = Levels(new) \cup gone
  BY <1>2 DEF Levels, Side
<1>4. IsFiniteSet(Levels(new)) /\ Cardinality(Levels(new)) \in Nat /\ IsFiniteSet(Levels(side))
  BY LevelsAreFinite
<1>5. Depth \in Nat /\ Prices \subseteq Nat
  BY DepthAssumption, PricesAssumption
<1>6. CASE gone = {}
  <2>1. side = new
    BY <1>6 DEF Side
  <2> QED BY <1>1, <2>1, TrimmedWithin
<1>7. CASE gone # {}
  <2>1. PICK s \in gone : TRUE
    BY <1>7
  <2>2. Cardinality(Levels(new)) = Depth
    BY <2>1 DEF PushedOut
  <2>3. Cardinality(Levels(new) \cup {s}) = Depth + 1
    BY <1>2, <1>4, <2>1, <2>2, FS_AddElement
  <2>4. Cardinality(Levels(new) \cup {s}) <= Cardinality(Levels(side))
    BY <1>3, <1>4, <2>1, FS_Subset
  <2>5. Cardinality(Levels(side)) \in Nat
    BY LevelsAreFinite
  <2>6. ~(Cardinality(Levels(side)) <= Depth)
    BY <1>5, <2>3, <2>4, <2>5
  <2>7. Trimmed(side, bids)
          = [p \in Prices |-> IF Cardinality(better(p)) < Depth THEN side[p] ELSE 0]
    BY <2>6 DEF Trimmed
  <2>8. ASSUME NEW p \in Prices
        PROVE  (IF Cardinality(better(p)) < Depth THEN side[p] ELSE 0) = new[p]
    <3>1. better(p) \subseteq Levels(side) /\ IsFiniteSet(better(p))
      BY <1>4, FS_Subset
    <3>2. Cardinality(better(p)) \in Nat
      BY <3>1, FS_CardinalityType
    <3>3. CASE p \in Levels(new)
      <4>1. p \notin gone
        BY <1>2, <3>3
      <4>2. \A q \in gone : ~Worse(bids, p, q)
        <5>1. \A q \in gone : Worse(bids, q, p) /\ q \in Prices
          BY <1>2, <3>3 DEF PushedOut
        <5> QED BY <5>1, WorseIsStrict
      <4>3. ~Worse(bids, p, p)
        BY WorseIsStrict
      <4>4. better(p) \subseteq Levels(new) \ {p}
        BY <1>3, <4>2, <4>3
      <4>5. IsFiniteSet(Levels(new) \ {p}) /\ Cardinality(Levels(new) \ {p}) = Depth - 1
        BY <1>4, <2>2, <3>3, FS_RemoveElement
      <4>6. Cardinality(better(p)) <= Depth - 1
        <5> HIDE DEF better
        <5> QED BY <4>4, <4>5, FS_Subset
      <4> QED BY <1>5, <3>2, <4>1, <4>6
    <3>4. CASE p \in gone
      <4>1. Levels(new) \subseteq better(p)
        BY <1>3, <3>4 DEF PushedOut
      <4>2. Depth <= Cardinality(better(p))
        BY <2>2, <3>1, <4>1, FS_Subset
      <4>3. new[p] = 0
        BY <1>2, <3>4 DEF Levels, Side
      <4> QED BY <1>5, <3>2, <4>2, <4>3
    <3>5. CASE p \notin Levels(new) /\ p \notin gone
      BY <3>5 DEF Levels, Side
    <3> QED BY <3>3, <3>4, <3>5
  <2> QED BY <1>1, <2>7, <2>8 DEF Side
<1> QED BY <1>6, <1>7

-----------------------------------------------------------------------------
(* The books that are trusted, and what the engine is told.                *)

(* b is the book that OKX published under its sequence id. *)
IsBook(b) ==
    /\ b.seq \in 1 .. Len(market)
    /\ market[b.seq].bids = b.bids
    /\ market[b.seq].asks = b.asks

(* A trusted replay book is the runtime's book: it applied the same        *)
(* messages, and one it would have had to trim is not trusted.             *)
BookInv ==
    /\ market \in Seq(Books) /\ Len(market) >= 1
    /\ DOMAIN book = {"bids", "asks", "valid", "epoch", "generation", "seq"}
    /\ book.epoch \in Nat /\ book.generation \in Nat /\ book.seq \in Nat
    /\ book.valid \in BOOLEAN
    /\ book.valid => IsBook(book)
    /\ {"trusted"} \subseteq DOMAIN replay
    /\ replay.trusted \in BOOLEAN
    /\ replay.trusted => /\ session = "up" /\ book.valid
                         /\ replay.seq = book.seq
                         /\ replay.bids = book.bids /\ replay.asks = book.asks

Event(e) == e.epoch \in Nat /\ e.generation \in Nat /\ e.seq \in Nat

Newer(e, f) ==
    /\ e.generation > f.generation
    /\ e.epoch >= f.epoch
    /\ e.epoch = f.epoch => e.seq > f.seq

(* The watch channel holds the newest valid book that was reported, while  *)
(* the counters of an invalid one go on.                                   *)
WatchInv ==
    /\ Event(watch) /\ Event(seen)
    /\ watch.epoch <= book.epoch /\ watch.generation <= book.generation
    /\ book.valid => watch.epoch = book.epoch /\ watch.seq = book.seq
    /\ seen = watch \/ Newer(watch, seen)

Inv == BookInv /\ WatchInv

(* Nothing has been received and nothing is trusted at first. *)
LEMMA BookInit == Init => Inv
<1> SUFFICES ASSUME Init PROVE Inv
  OBVIOUS
<1>1. PICK b \in Books : market = <<b>>
  BY DEF Init
<1>2. market \in Seq(Books) /\ Len(market) >= 1
  BY <1>1
<1> QED BY <1>2 DEF Init, Inv, BookInv, WatchInv, Event, NewBook, NewReplay, NoEvent, NoSeq

(* A side that is refused or lost leaves nothing trusted. *)
LEMMA DistrustedIsNot ==
    ASSUME BookInv, replay' \in Distrusted(replay)
    PROVE  /\ {"trusted"} \subseteq DOMAIN replay'
           /\ replay'.trusted = FALSE
BY DEF BookInv, Distrusted, NewReplay

(* A book that is given up keeps the invariant: its epoch and generation    *)
(* stay, the replay is distrusted with it.                                 *)
LEMMA InvalidatedBook ==
    ASSUME Inv, book' = Invalidated(book), replay'.trusted = FALSE,
           {"trusted"} \subseteq DOMAIN replay', UNCHANGED <<market, watch, seen>>
    PROVE  Inv'
<1>1. /\ DOMAIN book' = DOMAIN book
      /\ book'.epoch = book.epoch /\ book'.generation = book.generation /\ book'.seq = NoSeq
      /\ book'.valid = FALSE
  BY DEF Inv, BookInv, Invalidated
<1>2. NoSeq \in Nat
  BY DEF NoSeq
<1> QED BY <1>1, <1>2 DEF Inv, BookInv, WatchInv

(* A message that is applied: it is enough that what it is accepted as is  *)
(* a book of OKX's.                                                        *)
LEMMA ApplyKeeps ==
    ASSUME Inv, NEW m, Apply(m), UNCHANGED <<market, seen>>, session = "up", m.seq \in Nat,
           m.action = "snapshot" /\ SnapshotAccepted(m) => IsBook(m),
           m.action = "update" /\ book.valid /\ UpdateAccepted(book, m)
             => IsBook(AfterUpdate(book, m))
    PROVE  Inv'
<1>1. CASE Verdict(book, m) = "heartbeat"
  BY <1>1 DEF Apply, Inv, BookInv, WatchInv, IsBook
<1>2. CASE Verdict(book, m) = "refuse"
  <2>1. Refuse
    BY <1>2 DEF Apply
  <2>2. {"trusted"} \subseteq DOMAIN replay' /\ replay'.trusted = FALSE
    BY <2>1, DistrustedIsNot DEF Refuse, Inv
  <2> QED BY <2>1, <2>2, InvalidatedBook DEF Refuse
<1>3. CASE Verdict(book, m) = "accept"
  <2> DEFINE b == IF m.action = "snapshot" THEN AfterSnapshot(book, m) ELSE AfterUpdate(book, m)
  <2>1. Accept(m)
    BY <1>3 DEF Apply
  <2>2. /\ book' = b /\ replay' = Replayed(replay, m) /\ session' = "up"
        /\ watch' = [event |-> produced + 1, epoch |-> b.epoch, generation |-> b.generation,
                     seq |-> b.seq]
    BY <2>1 DEF Accept, Report
  <2>3. /\ {"trusted"} \subseteq DOMAIN replay' /\ replay'.trusted \in BOOLEAN
        /\ replay'.seq = m.seq
        /\ replay'.bids = Levelled(replay, m).bids /\ replay'.asks = Levelled(replay, m).asks
        /\ replay'.trusted => /\ m.action = "snapshot" \/ replay.trusted
                              /\ WithinDepth(Levelled(replay, m))
    BY <2>2 DEF Replayed
  <2>4. CASE m.action = "snapshot"
    <3>1. IsBook(m)
      BY <1>3, <2>4 DEF Verdict
    <3>2. /\ DOMAIN book' = {"bids", "asks", "valid", "epoch", "generation", "seq"}
          /\ book'.bids = m.bids /\ book'.asks = m.asks /\ book'.valid = TRUE /\ book'.seq = m.seq
          /\ book'.epoch = book.epoch + 1 /\ book'.generation = book.generation + 1
      BY <2>2, <2>4 DEF AfterSnapshot
    <3>3. IsBook(book)'
      BY <3>1, <3>2 DEF IsBook
    <3>4. BookInv'
      <4>1. replay'.bids = m.bids /\ replay'.asks = m.asks
        BY <2>3, <2>4 DEF Levelled
      <4>2. market' = market /\ market \in Seq(Books) /\ Len(market) >= 1
        BY DEF Inv, BookInv
      <4>3. book'.epoch \in Nat /\ book'.generation \in Nat /\ book'.seq \in Nat
        BY <3>2 DEF Inv, BookInv
      <4>4. replay'.trusted => /\ session' = "up" /\ book'.valid /\ replay'.seq = book'.seq
                              /\ replay'.bids = book'.bids /\ replay'.asks = book'.asks
        BY <2>2, <2>3, <3>2, <4>1
      <4> QED BY <2>3, <3>2, <3>3, <4>2, <4>3, <4>4 DEF BookInv
    <3>5. /\ watch'.epoch = book.epoch + 1 /\ watch'.generation = book.generation + 1
          /\ watch'.seq = m.seq
      BY <2>2, <2>4 DEF AfterSnapshot
    <3>6. WatchInv'
      BY <3>2, <3>5, SMTT(30) DEF Inv, BookInv, WatchInv, Event, Newer
    <3> QED BY <3>4, <3>6 DEF Inv
  <2>5. CASE m.action # "snapshot"
    <3>1. m.action = "update" /\ book.valid /\ UpdateAccepted(book, m)
      BY <1>3, <2>5 DEF Verdict
    <3>2. IsBook(AfterUpdate(book, m))
      BY <3>1
    <3>3. /\ DOMAIN book' = DOMAIN book
          /\ book'.bids = Trimmed(Merged(book.bids, m.bids), TRUE)
          /\ book'.asks = Trimmed(Merged(book.asks, m.asks), FALSE)
          /\ book'.valid = book.valid /\ book'.seq = m.seq
          /\ book'.epoch = book.epoch /\ book'.generation = book.generation + 1
      BY <2>2, <2>5 DEF AfterUpdate, Inv, BookInv
    <3>4. IsBook(book)'
      BY <2>2, <2>5, <3>2 DEF IsBook
    <3>5. replay'.trusted => replay'.bids = book'.bids /\ replay'.asks = book'.asks
      <4> SUFFICES ASSUME replay'.trusted
                   PROVE  replay'.bids = book'.bids /\ replay'.asks = book'.asks
        OBVIOUS
      <4>1. replay.bids = book.bids /\ replay.asks = book.asks
        BY <2>3, <2>5 DEF Inv, BookInv
      <4>2. /\ replay'.bids = Merged(book.bids, m.bids) /\ replay'.asks = Merged(book.asks, m.asks)
            /\ Cardinality(Levels(Merged(book.bids, m.bids))) <= Depth
            /\ Cardinality(Levels(Merged(book.asks, m.asks))) <= Depth
        BY <2>3, <2>5, <4>1 DEF Levelled, WithinDepth
      <4> QED BY <3>3, <4>2, TrimmedWithin
    <3>6. BookInv'
      <4>1. /\ market' = market /\ market \in Seq(Books) /\ Len(market) >= 1
            /\ DOMAIN book' = {"bids", "asks", "valid", "epoch", "generation", "seq"}
        BY <3>3 DEF Inv, BookInv
      <4>2. book'.epoch \in Nat /\ book'.generation \in Nat /\ book'.seq \in Nat
        BY <3>3 DEF Inv, BookInv
      <4>3. book'.valid \in BOOLEAN /\ book'.valid
        BY <3>1, <3>3 DEF Inv, BookInv
      <4>4. replay'.trusted => /\ session' = "up" /\ book'.valid /\ replay'.seq = book'.seq
                              /\ replay'.bids = book'.bids /\ replay'.asks = book'.asks
        BY <2>2, <2>3, <3>3, <3>5, <4>3
      <4> QED BY <2>3, <3>4, <4>1, <4>2, <4>3, <4>4 DEF BookInv
    <3>7. /\ watch'.epoch = book.epoch /\ watch'.generation = book.generation + 1
          /\ watch'.seq = m.seq
      BY <2>2, <2>5 DEF AfterUpdate, Inv, BookInv
    <3>8. m.seq > book.seq
      BY <3>1 DEF UpdateAccepted
    <3>9. WatchInv'
      BY <3>1, <3>3, <3>7, <3>8 DEF Inv, BookInv, WatchInv, Event, Newer
    <3> QED BY <3>6, <3>9 DEF Inv
  <2> QED BY <2>4, <2>5
<1> QED BY <1>1, <1>2, <1>3 DEF Verdict

-----------------------------------------------------------------------------
(* What OKX sends.                                                         *)

(* Both sides of a published book fit within the depth. *)
LEMMA BooksAreBooks ==
    ASSUME NEW b \in Books
    PROVE  /\ b.bids \in Side /\ b.asks \in Side
           /\ Cardinality(Levels(b.bids)) <= Depth /\ Cardinality(Levels(b.asks)) <= Depth
BY BooksAssumption DEF WithinDepth

(* One side of an update. *)
LEMMA SideMakesNext ==
    ASSUME NEW old \in Side, NEW new \in Side, NEW bids \in BOOLEAN, NEW tell \in BOOLEAN,
           Cardinality(Levels(new)) <= Depth
    PROVE  Trimmed(Merged(old, Diff(old, new, IF tell THEN {} ELSE PushedOut(old, new, bids))),
                   bids) = new
<1>1. CASE tell
  <2>1. Merged(old, Diff(old, new, {})) = new
    BY FullUpdate
  <2> QED BY <1>1, <2>1, TrimmedWithin
<1>2. CASE ~tell
  BY <1>2, TrimRestores
<1> QED BY <1>1, <1>2

(* The update from a published book to the next, told or not, makes of the *)
(* one the other.                                                          *)
LEMMA UpdateMakesNext ==
    ASSUME Inv, NEW i \in 2 .. Len(market), NEW tell \in BOOLEAN, IsBook(book), book.seq = i - 1
    PROVE  LET m == Update(market[i - 1], market[i], i - 1, i, tell)
           IN  m.seq = i /\ m.action = "update" /\ IsBook(AfterUpdate(book, m))
<1> DEFINE old == market[i - 1]
           new == market[i]
           m == Update(old, new, i - 1, i, tell)
<1>1. market[i] \in Books /\ market[i - 1] \in Books
  BY DEF Inv, BookInv
<1>2. /\ old.bids \in Side /\ old.asks \in Side /\ new.bids \in Side /\ new.asks \in Side
      /\ Cardinality(Levels(new.bids)) <= Depth /\ Cardinality(Levels(new.asks)) <= Depth
  BY <1>1, BooksAreBooks
<1>3. /\ m.seq = i /\ m.action = "update"
      /\ m.bids = Diff(old.bids, new.bids,
                       IF tell THEN {} ELSE PushedOut(old.bids, new.bids, TRUE))
      /\ m.asks = Diff(old.asks, new.asks,
                       IF tell THEN {} ELSE PushedOut(old.asks, new.asks, FALSE))
  BY DEF Update, Message
<1>4. old.bids = book.bids /\ old.asks = book.asks
  BY DEF IsBook
<1>5. Trimmed(Merged(book.bids, m.bids), TRUE) = new.bids
  <2>1. Trimmed(Merged(old.bids, Diff(old.bids, new.bids,
                  IF tell THEN {} ELSE PushedOut(old.bids, new.bids, TRUE))), TRUE) = new.bids
    <3> HIDE DEF old, new
    <3> QED BY <1>2, SideMakesNext
  <2> HIDE DEF m, old, new
  <2> QED BY <1>3, <1>4, <2>1
<1>6. Trimmed(Merged(book.asks, m.asks), FALSE) = new.asks
  <2>1. Trimmed(Merged(old.asks, Diff(old.asks, new.asks,
                  IF tell THEN {} ELSE PushedOut(old.asks, new.asks, FALSE))), FALSE) = new.asks
    <3> HIDE DEF old, new
    <3> QED BY <1>2, SideMakesNext
  <2> HIDE DEF m, old, new
  <2> QED BY <1>3, <1>4, <2>1
<1>7. /\ AfterUpdate(book, m).seq = i
      /\ AfterUpdate(book, m).bids = new.bids /\ AfterUpdate(book, m).asks = new.asks
  <2> HIDE DEF m, old, new
  <2> QED BY <1>3, <1>5, <1>6 DEF AfterUpdate, Inv, BookInv
<1>8. i \in 1 .. Len(market)
  BY DEF Inv, BookInv
<1> QED BY <1>3, <1>7, <1>8 DEF IsBook

(* A snapshot of a published book. *)
LEMMA SnapshotIsBook ==
    ASSUME NEW i \in 1 .. Len(market)
    PROVE  LET m == Snapshot(market[i], i)
           IN  m.seq = i /\ m.action = "snapshot" /\ IsBook(m)
BY DEF Snapshot, Message, IsBook

(* The message that is due, applied, makes the book OKX has by then. *)
LEMMA InOrderKeeps ==
    ASSUME Inv, NEW tell \in BOOLEAN, InOrder(tell)
    PROVE  Inv'
<1>1. session = "up" /\ UNCHANGED <<market, seen>> /\ Apply(Due(tell)) /\ Len(market) \in Nat
  BY DEF InOrder, Others, Inv, BookInv
<1>2. CASE fromHere
  <2> DEFINE i == book.seq + 1
             m == Update(market[i - 1], market[i], i - 1, i, tell)
  <2>1. book.valid /\ IsBook(book) /\ i \in 2 .. Len(market) /\ book.seq = i - 1
    BY <1>2 DEF InOrder, Inv, BookInv, IsBook
  <2>2. Due(tell) = m
    BY <1>2, <2>1 DEF Due
  <2>3. m.seq = i /\ m.action = "update" /\ IsBook(AfterUpdate(book, m))
    BY <2>1, UpdateMakesNext
  <2>4. m.seq \in Nat
    BY <2>1, <2>3
  <2> HIDE DEF m
  <2> QED BY <1>1, <2>2, <2>3, <2>4, ApplyKeeps
<1>3. CASE ~fromHere
  <2> DEFINE m == Snapshot(market[Len(market)], Len(market))
  <2>1. Len(market) \in 1 .. Len(market)
    BY DEF Inv, BookInv
  <2>2. m.seq = Len(market) /\ m.action = "snapshot" /\ IsBook(m)
    BY <2>1, SnapshotIsBook
  <2>3. Due(tell) = m
    BY <1>3 DEF Due
  <2> HIDE DEF m
  <2> QED BY <1>1, <2>2, <2>3, ApplyKeeps
<1> QED BY <1>2, <1>3

(* Whatever OKX sent may come at any time. *)
LEMMA OutOfOrderKeeps ==
    ASSUME Inv, OutOfOrder
    PROVE  Inv'
<1>1. session = "up" /\ UNCHANGED <<market, seen>> /\ Len(market) \in Nat
  BY DEF OutOfOrder, Others, Inv, BookInv
<1>2. ASSUME NEW i \in 1 .. Len(market), Apply(Snapshot(market[i], i)) PROVE Inv'
  <2> DEFINE m == Snapshot(market[i], i)
  <2>1. m.seq = i /\ m.action = "snapshot" /\ IsBook(m) /\ i \in Nat
    BY <1>1, SnapshotIsBook
  <2> HIDE DEF m
  <2> QED BY <1>1, <1>2, <2>1, ApplyKeeps DEF m
<1>3. ASSUME NEW i \in 1 .. Len(market), Apply(Heartbeat(i)) PROVE Inv'
  <2> DEFINE m == Heartbeat(i)
  <2>1. m.seq = i /\ m.prev = i /\ m.action = "update" /\ i \in Nat
    BY <1>1 DEF Heartbeat, Message
  <2>2. ~UpdateAccepted(book, m)
    BY <2>1 DEF UpdateAccepted, Inv, BookInv
  <2> HIDE DEF m
  <2> QED BY <1>1, <1>3, <2>1, <2>2, ApplyKeeps DEF m
<1>4. ASSUME NEW i \in 2 .. Len(market), NEW tell \in BOOLEAN,
             Apply(Update(market[i - 1], market[i], i - 1, i, tell))
      PROVE  Inv'
  <2> DEFINE m == Update(market[i - 1], market[i], i - 1, i, tell)
  <2>1. m.seq = i /\ m.prev = i - 1 /\ m.action = "update" /\ i \in Nat
    BY <1>1 DEF Update, Message
  <2>2. ASSUME book.valid, UpdateAccepted(book, m) PROVE IsBook(AfterUpdate(book, m))
    <3>1. IsBook(book) /\ book.seq = i - 1
      BY <2>1, <2>2 DEF UpdateAccepted, Inv, BookInv
    <3> QED BY <3>1, UpdateMakesNext
  <2> HIDE DEF m
  <2> QED BY <1>1, <1>4, <2>1, <2>2, ApplyKeeps DEF m
<1> QED BY <1>2, <1>3, <1>4 DEF OutOfOrder

(* Nothing defective is accepted. *)
LEMMA DefectiveKeeps ==
    ASSUME Inv, Defective
    PROVE  Inv'
<1>1. session = "up" /\ UNCHANGED <<market, seen>> /\ Len(market) \in Nat
  BY DEF Defective, Others, Inv, BookInv
<1>2. ASSUME NEW i \in 1 .. Len(market), NEW b \in BadBooks, Apply(Snapshot(b, i)) PROVE Inv'
  <2> DEFINE m == Snapshot(b, i)
  <2>1. m.seq = i /\ m.action = "snapshot" /\ m.bids = b.bids /\ m.asks = b.asks /\ i \in Nat
    BY <1>1 DEF Snapshot, Message
  <2>2. ~SnapshotAccepted(m)
    <3>1. ~(Sound(b) /\ WithinDepth(b))
      BY BooksAssumption
    <3> HIDE DEF m
    <3> QED BY <2>1, <3>1 DEF SnapshotAccepted, Sound, WithinDepth
  <2> HIDE DEF m
  <2> QED BY <1>1, <1>2, <2>1, <2>2, ApplyKeeps DEF m
<1>3. ASSUME NEW i \in 1 .. Len(market), NEW b \in BadBooks,
             ~Sound([bids |-> Trimmed(b.bids, TRUE), asks |-> Trimmed(b.asks, FALSE)]),
             Apply(Update(market[i], b, i, i + 1, TRUE))
      PROVE  Inv'
  <2> DEFINE m == Update(market[i], b, i, i + 1, TRUE)
  <2>1. /\ m.seq = i + 1 /\ m.prev = i /\ m.action = "update" /\ i \in Nat
        /\ m.bids = Diff(market[i].bids, b.bids, {}) /\ m.asks = Diff(market[i].asks, b.asks, {})
    BY <1>1 DEF Update, Message
  <2>2. ~(book.valid /\ UpdateAccepted(book, m))
    <3> SUFFICES ASSUME book.valid, UpdateAccepted(book, m) PROVE FALSE
      OBVIOUS
    <3>1. book.bids = market[i].bids /\ book.asks = market[i].asks
      BY <2>1 DEF UpdateAccepted, Inv, BookInv, IsBook
    <3>2. /\ market[i].bids \in Side /\ market[i].asks \in Side
          /\ b.bids \in Side /\ b.asks \in Side
      <4>1. market[i] \in Books
        BY DEF Inv, BookInv
      <4> QED BY <4>1, BooksAreBooks, BooksAssumption
    <3>3. Merged(book.bids, m.bids) = b.bids /\ Merged(book.asks, m.asks) = b.asks
      <4> HIDE DEF m
      <4> QED BY <2>1, <3>1, <3>2, FullUpdate
    <3>4. /\ AfterUpdate(book, m).bids = Trimmed(b.bids, TRUE)
          /\ AfterUpdate(book, m).asks = Trimmed(b.asks, FALSE)
      <4> HIDE DEF m
      <4> QED BY <3>3 DEF AfterUpdate, Inv, BookInv
    <3>5. Sound(AfterUpdate(book, m))
      BY DEF UpdateAccepted
    <3> HIDE DEF m
    <3> QED BY <1>3, <3>4, <3>5 DEF Sound
  <2>3. Apply(m)
    BY <1>3
  <2> HIDE DEF m
  <2>4. m.seq \in Nat
    BY <2>1
  <2> QED BY <1>1, <2>1, <2>2, <2>3, <2>4, ApplyKeeps
<1>4. ASSUME NEW i \in 1 .. Len(market), NEW b \in Books, NEW j \in 1 .. i,
             Apply(Update(market[i], b, i, j, TRUE))
      PROVE  Inv'
  <2> DEFINE m == Update(market[i], b, i, j, TRUE)
  <2>1. m.seq = j /\ m.prev = i /\ m.action = "update" /\ i \in Nat /\ j \in Nat /\ j <= i
    BY <1>1 DEF Update, Message
  <2>2. ~(m.prev = book.seq /\ m.seq > book.seq)
    <3> HIDE DEF m
    <3> QED BY <2>1
  <2>3. ~UpdateAccepted(book, m)
    BY <2>2 DEF UpdateAccepted
  <2> HIDE DEF m
  <2> QED BY <1>1, <1>4, <2>1, <2>3, ApplyKeeps DEF m
<1> QED BY <1>2, <1>3, <1>4 DEF Defective

(* The invariant is inductive. *)
LEMMA BookStep == Inv /\ [Next]_vars => Inv'
<1> SUFFICES ASSUME Inv, [Next]_vars PROVE Inv'
  OBVIOUS
<1>1. CASE Publish
  <2>1. PICK b \in Books : market' = Append(market, b)
    BY <1>1 DEF Publish
  <2>2. /\ market' \in Seq(Books) /\ Len(market') = Len(market) + 1 /\ Len(market) \in Nat
        /\ \A i \in 1 .. Len(market) : market'[i] = market[i]
    BY <2>1 DEF Inv, BookInv
  <2>3. UNCHANGED <<book, session, watch, seen, replay>>
    BY <1>1 DEF Publish
  <2>4. IsBook(book) => IsBook(book)'
    BY <2>2, <2>3 DEF IsBook
  <2> QED BY <2>2, <2>3, <2>4 DEF Inv, BookInv, WatchInv
<1>2. CASE \E tell \in BOOLEAN : InOrder(tell)
  BY <1>2, InOrderKeeps
<1>3. CASE StreamLost
  <2>1. {"trusted"} \subseteq DOMAIN replay' /\ replay'.trusted = FALSE
    BY <1>3, DistrustedIsNot DEF StreamLost, Inv
  <2> QED BY <1>3, <2>1 DEF StreamLost, Others, Inv, BookInv, WatchInv, IsBook
<1>4. CASE InvalidateForReconnect
  <2>1. replay.trusted = FALSE /\ replay' = replay
    BY <1>4 DEF InvalidateForReconnect, Inv, BookInv
  <2> QED BY <1>4, <2>1, InvalidatedBook DEF InvalidateForReconnect, Others, Inv, BookInv
<1>5. CASE Reconnect
  BY <1>5 DEF Reconnect, Others, Inv, BookInv, WatchInv, IsBook
<1>6. CASE Take
  <2>1. seen' = watch /\ UNCHANGED <<market, book, session, watch, replay>>
    BY <1>6 DEF Take
  <2> QED BY <2>1 DEF Inv, BookInv, WatchInv, IsBook
<1>7. CASE UNCHANGED vars
  BY <1>7 DEF vars, Inv, BookInv, WatchInv, IsBook
<1> QED
  BY <1>1, <1>2, <1>3, <1>4, <1>5, <1>6, <1>7, OutOfOrderKeeps, DefectiveKeeps DEF Next

(* A book the runtime holds valid and a replay book its owner trusts are   *)
(* books OKX published, whatever is lost, repeated, reordered or defective *)
(* on the way (level2.rs apply_increment and trim_to_depth,                *)
(* replay_book.rs OrderBook::apply).                                       *)
THEOREM BooksAreTrue == Spec => []TrustedBooksAreTrue
<1>1. Inv => TrustedBooksAreTrue
  BY DEF Inv, BookInv, IsBook, TrustedBooksAreTrue, BookIsTruth, ReplayIsTruth
<1> QED BY <1>1, BookInit, BookStep, PTL DEF Spec

(* The engine never takes an older book after a newer one, across          *)
(* reconnects, whose counters go on (OkxLevel2Book::invalidate,            *)
(* level2_runtime_event_decision).                                         *)
THEOREM EngineNeverGoesBack == Spec => NeverBackwards
<1>1. ASSUME Inv, [Next]_vars, seen' # seen
      PROVE  /\ seen'.generation > seen.generation
             /\ seen'.epoch >= seen.epoch
             /\ seen'.epoch = seen.epoch => seen'.seq > seen.seq
  <2>1. Take
    BY <1>1 DEF Next, Publish, InOrder, OutOfOrder, Defective, StreamLost, InvalidateForReconnect,
       Reconnect, Others, vars
  <2> QED BY <1>1, <2>1 DEF Take, Inv, WatchInv, Newer
<1> QED BY <1>1, BookInit, BookStep, PTL DEF Spec, NeverBackwards

-----------------------------------------------------------------------------
(* CandleFeed: bars and moments.                                           *)

(* A set of naturals that is not empty has a least element.                *)
LEMMA LeastNumber ==
    ASSUME NEW S \in SUBSET Nat, S # {}
    PROVE  \E n \in S : \A m \in S : n <= m
<1>1. PICK n \in S : \A m \in S : ~(<<m, n>> \in OpToRel(<, Nat))
  BY NatLessThanWellFounded, WFMin
<1>2. ASSUME NEW m \in S PROVE n <= m
  <2>1. ~(m < n)
    BY <1>1 DEF OpToRel
  <2> QED BY <2>1
<1> QED BY <1>2

(* Multiples of a natural are ordered as their factors.                    *)
LEMMA MultiplesGrow ==
    ASSUME NEW a \in Int, NEW b \in Int, NEW p \in Nat, a <= b
    PROVE  a * p <= b * p
OBVIOUS

(* A moment lies within the bar that is open then.                         *)
LEMMA BarOf ==
    ASSUME NEW t \in Nat, NEW p \in Nat, p > 0
    PROVE  /\ t \div p \in Nat
           /\ (t \div p) * p <= t /\ t < (t \div p) * p + p
OBVIOUS

(* Bars are numbered in order of time. *)
LEMMA BarsGrow ==
    ASSUME NEW t \in Nat, NEW u \in Nat, t <= u, NEW p \in Nat, p > 0
    PROVE  t \div p <= u \div p
<1>1. SUFFICES ASSUME u \div p + 1 <= t \div p PROVE FALSE
  BY BarOf
<1>2. (u \div p + 1) * p <= (t \div p) * p
  BY <1>1, BarOf, MultiplesGrow
<1>3. (u \div p + 1) * p = (u \div p) * p + p
  BY BarOf
<1> QED BY <1>2, <1>3, BarOf

(* That bar is the only one it lies within.                                *)
LEMMA DivIs ==
    ASSUME NEW t \in Nat, NEW p \in Nat, p > 0, NEW k \in Int, k * p <= t, t < k * p + p
    PROVE  t \div p = k
<1> DEFINE d == t \div p
<1>1. d \in Nat /\ d * p <= t /\ t < d * p + p
  BY BarOf
<1> HIDE DEF d
<1>2. ASSUME d + 1 <= k PROVE FALSE
  <2>1. (d + 1) * p <= k * p
    BY <1>1, <1>2, MultiplesGrow
  <2> QED BY <1>1, <2>1
<1>3. ASSUME k + 1 <= d PROVE FALSE
  <2>1. (k + 1) * p <= d * p
    BY <1>1, <1>3, MultiplesGrow
  <2> QED BY <1>1, <2>1
<1> QED BY <1>1, <1>2, <1>3 DEF d

(* A period later the next bar is open.                                    *)
LEMMA NextBar ==
    ASSUME NEW t \in Nat, NEW p \in Nat, p > 0
    PROVE  (t + p) \div p = t \div p + 1
<1> DEFINE d == t \div p
<1>1. d \in Nat /\ d * p <= t /\ t < d * p + p
  BY BarOf
<1> HIDE DEF d
<1>2. (d + 1) * p = d * p + p
  BY <1>1
<1>3. (t + p) \div p = d + 1
  BY <1>1, <1>2, DivIs
<1> QED BY <1>3 DEF d

(* The newest closed bar never goes back.                                  *)
LEMMA NewestGrows ==
    ASSUME NEW t \in Nat, NEW u \in Nat, t <= u
    PROVE  Newest(t) \in Int /\ Newest(u) \in Int /\ Newest(t) <= Newest(u)
<1> DEFINE a == t \div Period
           b == u \div Period
<1>0. Period \in Nat /\ Period > 0
  BY FeedAssumption
<1>1. a \in Nat /\ b \in Nat /\ a <= b
  BY <1>0, BarOf, BarsGrow
<1>2. Newest(t) = a - 1 /\ Newest(u) = b - 1
  BY DEF Newest
<1> HIDE DEF a, b
<1> QED BY <1>1, <1>2

(* A bar is closed exactly if it is not newer than the newest closed one.  *)
LEMMA ClosedIs ==
    ASSUME NEW k \in Int, NEW t \in Nat
    PROVE  ClosedBy(k, t) <=> k <= Newest(t)
<1> DEFINE d == t \div Period
<1>0. Period \in Nat /\ Period > 0
  BY FeedAssumption
<1>1. d \in Nat /\ d * Period <= t /\ t < d * Period + Period
  BY <1>0, BarOf
<1>2. Newest(t) = d - 1
  BY DEF Newest
<1> HIDE DEF d
<1>3. ASSUME k <= d - 1 PROVE ClosedBy(k, t)
  <2>1. (k + 1) * Period <= d * Period
    BY <1>0, <1>1, <1>3, MultiplesGrow
  <2> QED BY <1>0, <1>1, <2>1 DEF ClosedBy, ClosesAt
<1>4. ASSUME ClosedBy(k, t) PROVE k <= d - 1
  <2>1. SUFFICES ASSUME d + 1 <= k + 1 PROVE FALSE
    BY <1>1
  <2>2. (d + 1) * Period <= (k + 1) * Period
    BY <1>0, <1>1, <2>1, MultiplesGrow
  <2> QED BY <1>0, <1>1, <1>4, <2>2 DEF ClosedBy, ClosesAt
<1> QED BY <1>1, <1>2, <1>3, <1>4

(* A bounded set of numbers has a greatest element. *)
LEMMA MaxIs ==
    ASSUME NEW S \in SUBSET Int, S # {}, NEW b \in Int, \A x \in S : x <= b
    PROVE  Max(S) \in S /\ \A x \in S : x <= Max(S)
<1> DEFINE D == {b - x : x \in S}
<1>1. D \in SUBSET Nat /\ D # {}
  <2>1. \A x \in S : b - x \in Nat
    OBVIOUS
  <2> QED BY <2>1
<1>2. PICK n \in D : \A m \in D : n <= m
  BY <1>1, LeastNumber
<1>3. PICK y \in S : n = b - y
  BY <1>2
<1>4. \A x \in S : y >= x
  <2>1. ASSUME NEW x \in S PROVE y >= x
    <3>1. b - x \in D
      OBVIOUS
    <3> QED BY <1>2, <1>3, <3>1
  <2> QED BY <2>1
<1>5. Max(S) \in S /\ \A x \in S : Max(S) >= x
  BY <1>3, <1>4 DEF Max
<1>6. Max(S) \in Int
  BY <1>5
<1> QED BY <1>5, <1>6

(* Elements told apart by a number of which there are two are at most two. *)
LEMMA AtMostTwo ==
    ASSUME NEW S, NEW a, NEW b, \A r \in S : r.ts \in {a, b},
           \A q, r \in S : q.ts = r.ts => q = r
    PROVE  IsFiniteSet(S) /\ Cardinality(S) <= 2
<1>1. \E x, y : S \subseteq {x, y}
  <2>1. CASE \E r \in S : r.ts = a
    <3>1. PICK x \in S : x.ts = a
      BY <2>1
    <3>2. CASE \E r \in S : r.ts = b
      BY <3>1, <3>2
    <3>3. CASE ~\E r \in S : r.ts = b
      <4>1. S \subseteq {x, x}
        BY <3>1, <3>3
      <4> QED BY <4>1
    <3> QED BY <3>2, <3>3
  <2>2. CASE ~\E r \in S : r.ts = a
    <3>1. CASE \E r \in S : r.ts = b
      <4>1. PICK x \in S : x.ts = b
        BY <3>1
      <4>2. S \subseteq {x, x}
        BY <2>2, <4>1
      <4> QED BY <4>2
    <3>2. CASE ~\E r \in S : r.ts = b
      <4>1. S = {}
        BY <2>2, <3>2
      <4> QED BY <4>1
    <3> QED BY <3>1, <3>2
  <2> QED BY <2>1, <2>2
<1>2. PICK x, y : S \subseteq {x, y}
  BY <1>1
<1>3. IsFiniteSet({x}) /\ Cardinality({x}) = 1
  BY FS_Singleton
<1>4. {x, y} = {x} \cup {y}
  OBVIOUS
<1>5. IsFiniteSet({x, y}) /\ Cardinality({x, y}) \in {1, 2}
  BY <1>3, <1>4, FS_AddElement
<1>6. IsFiniteSet(S) /\ Cardinality(S) <= Cardinality({x, y})
  BY <1>2, <1>5, FS_Subset
<1> QED BY <1>5, <1>6, FS_CardinalityType

-----------------------------------------------------------------------------
(* A hint tells which bar it is about. *)
HintFits(h) ==
    /\ h = [ts |-> h.ts, confirm |-> h.confirm, at |-> h.at]
    /\ h.at \in Nat /\ h.at >= Start /\ h.at <= now /\ now - h.at <= MaxStale
    /\ h.confirm \in BOOLEAN /\ h.ts \in Int
    /\ h.confirm => h.at = (h.ts + 1) * Period
    /\ ~h.confirm => h.ts = h.at \div Period

OneRowEach(rows) == \A q, r \in rows : q.ts = r.ts => q = r

HintsInv ==
    /\ now \in Nat /\ now >= Start
    /\ \A h \in hints : HintFits(h)
    /\ OneRowEach(hints)

KeptInv ==
    fallback # NoRest =>
      /\ fallback.asof \in Nat /\ fallback.at \in Nat /\ fallback.at <= now
      /\ fallback.asof <= fallback.at /\ fallback.at <= fallback.asof + Lag + TickTimeout

(* The bars the merged rows of one moment are about. *)
LEMMA HintBars ==
    ASSUME HintsInv, NEW h \in hints
    PROVE  /\ now \div Period \in Nat
           /\ h.confirm => h.ts = Newest(h.at) /\ h.ts \in now \div Period - 2 .. now \div Period - 1
           /\ ~h.confirm => h.ts \in now \div Period - 1 .. now \div Period
<1>0. /\ Period \in Nat /\ Period > 0 /\ MaxStale \in Nat /\ MaxStale <= Period
      /\ Start \in Nat /\ Start >= 3 * Period
  BY FeedAssumption
<1>1. /\ h.at \in Nat /\ h.at <= now /\ now <= h.at + Period /\ now \in Nat /\ h.ts \in Int
  BY <1>0 DEF HintsInv, HintFits
<1>2. h.at \div Period \in Nat /\ now \div Period \in Nat
  BY <1>0, <1>1, BarOf
<1>3. h.at \div Period <= now \div Period /\ now \div Period <= h.at \div Period + 1
  <2>1. (h.at + Period) \div Period = h.at \div Period + 1
    BY <1>0, <1>1, NextBar
  <2>2. h.at \div Period <= now \div Period
    BY <1>0, <1>1, BarsGrow
  <2>3. now \div Period <= (h.at + Period) \div Period
    BY <1>0, <1>1, BarsGrow
  <2> QED BY <2>1, <2>2, <2>3
<1>4. ASSUME h.confirm PROVE h.at \div Period = h.ts + 1
  <2>1. h.at = (h.ts + 1) * Period
    BY <1>4 DEF HintsInv, HintFits
  <2> QED BY <1>0, <1>1, <2>1, DivIs
<1>5. ~h.confirm => h.ts = h.at \div Period
  BY DEF HintsInv, HintFits
<1> QED BY <1>1, <1>2, <1>3, <1>4, <1>5 DEF Newest

Closed(k) == [ts |-> k, confirm |-> TRUE]

(* No fresh hint hides that bar k is closed. *)
Unhidden(k) == \A h \in hints : h.ts = k => h.confirm

(* What the merged rows are good for, when REST answered as of asof. *)
RowsFit(rows, asof) ==
    /\ \A r \in rows : r.ts \in Int /\ (r.confirm => r.ts <= Newest(now))
    /\ \A h \in hints : h.confirm => Closed(h.ts) \in rows
    /\ \A b \in Newest(now) - 1 .. Newest(now) :
          b <= Newest(asof) /\ Unhidden(b) => Closed(b) \in rows

(* Every cached hint is fresh.                                             *)
LEMMA AllFresh ==
    ASSUME HintsInv PROVE FreshHints = hints
<1>1. \A h \in hints : now - h.at <= MaxStale
  BY DEF HintsInv, HintFits
<1> QED BY <1>1 DEF FreshHints

(* A row of one of the newest bars survives the limit. *)
LEMMA NewestSurvive ==
    ASSUME NEW U, NEW n \in Int, OneRowEach(U), \A q \in U : q.ts \in Int /\ q.ts <= n,
           NEW r \in U, r.ts >= n - 2
    PROVE  r \in NewestBars(U)
<1> DEFINE S == {q \in U : q.ts > r.ts}
<1>1. \A q \in S : q.ts \in {n - 1, n}
  OBVIOUS
<1>2. \A p, q \in S : p.ts = q.ts => p = q
  BY DEF OneRowEach
<1> HIDE DEF S
<1>3. IsFiniteSet(S) /\ Cardinality(S) <= 2
  BY <1>1, <1>2, AtMostTwo
<1>4. Cardinality(S) \in Nat /\ Limit \in Nat /\ Limit >= 3
  BY <1>3, FS_CardinalityType, FeedAssumption
<1>5. Cardinality(S) < Limit
  BY <1>3, <1>4
<1> QED BY <1>5 DEF NewestBars, S

(* The rows before the limit. *)
United(rows) == {r \in rows : \A h \in hints : h.ts # r.ts} \cup Bare(hints)

(* A row of REST is of a bar that has opened, and confirmed only if        *)
(* closed.                                                                 *)
LEMMA RestRow ==
    ASSUME HintsInv, NEW asof \in Nat, asof <= now,
           NEW r \in RowsAt(asof, Limit)
    PROVE  /\ r.ts \in Int /\ r.ts <= now \div Period
           /\ r = [ts |-> r.ts, confirm |-> ClosedBy(r.ts, asof)]
           /\ r.confirm => r.ts <= Newest(now)
<1>0. Period \in Nat /\ Period > 0 /\ Limit \in Nat /\ now \in Nat
  BY FeedAssumption DEF HintsInv
<1>1. asof \div Period \in Nat /\ now \div Period \in Nat /\ asof \div Period <= now \div Period
  BY <1>0, BarOf, BarsGrow
<1>2. PICK k \in (asof \div Period - Limit + 1) .. (asof \div Period) :
             r = [ts |-> k, confirm |-> ClosedBy(k, asof)]
  BY DEF RowsAt
<1>3. k \in Int /\ k <= now \div Period /\ r.ts = k /\ r.confirm = ClosedBy(k, asof)
  BY <1>0, <1>1, <1>2
<1>4. r.confirm => k <= Newest(asof)
  BY <1>3, ClosedIs
<1>5. Newest(asof) <= Newest(now)
  BY <1>1 DEF Newest
<1>6. Newest(asof) \in Int /\ Newest(now) \in Int
  BY <1>1 DEF Newest
<1> QED BY <1>2, <1>3, <1>4, <1>5, <1>6

(* So is the row of a hint.                                                *)
LEMMA BareRow ==
    ASSUME HintsInv, NEW r \in Bare(hints)
    PROVE  \E h \in hints : /\ r = [ts |-> h.ts, confirm |-> h.confirm]
                            /\ r.ts \in Int /\ r.ts <= now \div Period
                            /\ r.confirm => r.ts <= Newest(now)
<1>1. PICK h \in hints : r = [ts |-> h.ts, confirm |-> h.confirm]
  BY DEF Bare
<1>2. h.ts \in Int
  BY DEF HintsInv, HintFits
<1>3. r.ts = h.ts /\ r.confirm = h.confirm
  BY <1>1
<1> QED BY <1>1, <1>2, <1>3, HintBars DEF Newest

(* Rows and hints united: one row per bar, no confirmation lost.           *)
LEMMA UnitedRows ==
    ASSUME HintsInv, NEW asof \in Nat, asof <= now, NEW rows, rows = RowsAt(asof, Limit) \/ rows = {}
    PROVE  /\ \A r \in United(rows) : /\ r.ts \in Int /\ r.ts <= now \div Period
                                      /\ r.confirm => r.ts <= Newest(now)
           /\ OneRowEach(United(rows))
           /\ \A h \in hints : h.confirm => Closed(h.ts) \in United(rows)
<1>1. ASSUME NEW r \in United(rows)
      PROVE  r.ts \in Int /\ r.ts <= now \div Period /\ (r.confirm => r.ts <= Newest(now))
  BY <1>1, RestRow, BareRow DEF United
<1>2. ASSUME NEW q \in United(rows), NEW r \in United(rows), q.ts = r.ts PROVE q = r
  <2>1. CASE q \in Bare(hints) /\ r \in Bare(hints)
    <3>1. PICK g \in hints : q = [ts |-> g.ts, confirm |-> g.confirm]
      BY <2>1, BareRow
    <3>2. PICK h \in hints : r = [ts |-> h.ts, confirm |-> h.confirm]
      BY <2>1, BareRow
    <3>3. g.ts = h.ts
      BY <1>2, <3>1, <3>2
    <3> QED BY <3>1, <3>2, <3>3 DEF HintsInv, OneRowEach
  <2>2. CASE q \in Bare(hints) /\ r \notin Bare(hints)
    <3>1. PICK g \in hints : q = [ts |-> g.ts, confirm |-> g.confirm]
      BY <2>2, BareRow
    <3>2. g.ts # r.ts
      BY <2>2 DEF United
    <3> QED BY <1>2, <3>1, <3>2
  <2>3. CASE q \notin Bare(hints) /\ r \in Bare(hints)
    <3>1. PICK g \in hints : r = [ts |-> g.ts, confirm |-> g.confirm]
      BY <2>3, BareRow
    <3>2. g.ts # q.ts
      BY <2>3 DEF United
    <3> QED BY <1>2, <3>1, <3>2
  <2>4. CASE q \notin Bare(hints) /\ r \notin Bare(hints)
    <3>1. q \in RowsAt(asof, Limit) /\ r \in RowsAt(asof, Limit)
      BY <2>4 DEF United
    <3>2. /\ q = [ts |-> q.ts, confirm |-> ClosedBy(q.ts, asof)]
          /\ r = [ts |-> r.ts, confirm |-> ClosedBy(r.ts, asof)]
      BY <3>1, RestRow
    <3> QED BY <1>2, <3>2
  <2> QED BY <2>1, <2>2, <2>3, <2>4
<1>3. ASSUME NEW h \in hints, h.confirm PROVE Closed(h.ts) \in United(rows)
  <2>1. h.confirm = TRUE
    BY <1>3 DEF HintsInv, HintFits
  <2>2. [ts |-> h.ts, confirm |-> h.confirm] \in Bare(hints)
    BY DEF Bare
  <2> QED BY <2>1, <2>2 DEF Closed, United
<1> QED BY <1>1, <1>2, <1>3 DEF OneRowEach

(* What remains after the limit is good if the rows before it were. *)
LEMMA LimitKeepsFit ==
    ASSUME HintsInv, NEW asof \in Nat, asof <= now, NEW rows, rows = RowsAt(asof, Limit) \/ rows = {},
           \A b \in Newest(now) - 1 .. Newest(now) :
             b <= Newest(asof) /\ Unhidden(b) => Closed(b) \in United(rows)
    PROVE  RowsFit(NewestBars(United(rows)), asof)
<1> DEFINE n == now \div Period
           U == United(rows)
<1>0. Period \in Nat /\ Period > 0 /\ now \in Nat
  BY FeedAssumption DEF HintsInv
<1>1. n \in Nat /\ Newest(now) = n - 1
  BY <1>0, BarOf DEF Newest
<1>2. /\ \A r \in U : r.ts \in Int /\ r.ts <= n /\ (r.confirm => r.ts <= Newest(now))
      /\ OneRowEach(U) /\ \A h \in hints : h.confirm => Closed(h.ts) \in U
  BY UnitedRows
<1>3. \A b \in Newest(now) - 1 .. Newest(now) :
        b <= Newest(asof) /\ Unhidden(b) => Closed(b) \in U
  OBVIOUS
<1> HIDE DEF n, U
<1>4. \A r \in NewestBars(U) : r \in U
  BY DEF NewestBars
<1>5. ASSUME NEW b \in Int, b >= n - 2, Closed(b) \in U PROVE Closed(b) \in NewestBars(U)
  <2>1. Closed(b).ts = b
    BY DEF Closed
  <2> QED BY <1>1, <1>2, <1>5, <2>1, NewestSurvive
<1>6. ASSUME NEW h \in hints, h.confirm PROVE Closed(h.ts) \in NewestBars(U)
  <2>1. h.ts \in Int /\ h.ts >= n - 2
    BY <1>1, <1>6, HintBars DEF n
  <2> QED BY <1>2, <1>5, <1>6, <2>1
<1>7. ASSUME NEW b \in Newest(now) - 1 .. Newest(now), b <= Newest(asof), Unhidden(b)
      PROVE  Closed(b) \in NewestBars(U)
  <2>1. b \in Int /\ b >= n - 2
    BY <1>1, <1>7
  <2> QED BY <1>3, <1>5, <1>7, <2>1
<1> QED BY <1>2, <1>4, <1>6, <1>7 DEF RowsFit, U

(* A REST answer with the hints merged in. *)
LEMMA MergedRowsFit ==
    ASSUME HintsInv, NEW asof \in Nat, asof <= now, now - asof <= Period
    PROVE  RowsFit(Merge(RowsAt(asof, Limit), FreshHints), asof)
<1> DEFINE n == now \div Period
           a == asof \div Period
           rows == RowsAt(asof, Limit)
<1>0. Period \in Nat /\ Period > 0 /\ Limit \in Nat /\ Limit >= 3 /\ now \in Nat
  BY FeedAssumption DEF HintsInv
<1>1. n \in Nat /\ a \in Nat /\ a <= n /\ n <= a + 1
  <2>1. now <= asof + Period /\ asof + Period \in Nat
    BY <1>0
  <2>2. now \div Period <= (asof + Period) \div Period
    BY <1>0, <2>1, BarsGrow
  <2>3. (asof + Period) \div Period = asof \div Period + 1
    BY <1>0, NextBar
  <2> QED BY <1>0, <2>2, <2>3, BarOf, BarsGrow
<1>2. Merge(rows, FreshHints) = NewestBars(United(rows))
  BY AllFresh DEF Merge, United
<1>3. Newest(now) = n - 1 /\ Newest(asof) = a - 1
  BY DEF Newest
<1>4. ASSUME NEW b \in Newest(now) - 1 .. Newest(now), b <= Newest(asof), Unhidden(b)
      PROVE  Closed(b) \in United(rows)
  <2>1. CASE \E h \in hints : h.ts = b
    <3>1. PICK h \in hints : h.ts = b
      BY <2>1
    <3>2. h.confirm
      BY <1>4, <3>1 DEF Unhidden
    <3> QED BY <3>1, <3>2, UnitedRows
  <2>2. CASE ~\E h \in hints : h.ts = b
    <3> HIDE DEF n, a
    <3>1. b \in Int /\ b \in a - Limit + 1 .. a
      BY <1>0, <1>1, <1>3, <1>4
    <3>2. ClosedBy(b, asof)
      BY <1>4, <3>1, ClosedIs
    <3>3. [ts |-> b, confirm |-> ClosedBy(b, asof)] \in rows
      BY <3>1 DEF RowsAt, a
    <3>4. ClosedBy(b, asof) = TRUE
      BY <3>2 DEF ClosedBy, ClosesAt
    <3>5. Closed(b) \in rows /\ Closed(b).ts = b
      BY <3>3, <3>4 DEF Closed
    <3> QED BY <2>2, <3>5 DEF United
  <2> QED BY <2>1, <2>2
<1>5. RowsFit(NewestBars(United(rows)), asof)
  <2> HIDE DEF n, a
  <2> QED BY <1>4, LimitKeepsFit
<1> QED BY <1>2, <1>5

(* Enough hints are one for each of the newest bars. *)
LEMMA EnoughHints ==
    ASSUME HintsInv, Cardinality(hints) >= Limit,
           NEW b \in now \div Period - 2 .. now \div Period
    PROVE  \E h \in hints : h.ts = b
<1> DEFINE n == now \div Period
<1>0. Limit \in Nat /\ Limit >= 3
  BY FeedAssumption
<1>1. SUFFICES ASSUME \A h \in hints : h.ts # b PROVE FALSE
  OBVIOUS
<1>2. \E x, y : \A h \in hints : h.ts \in {x, y}
  <2>1. ASSUME NEW h \in hints PROVE n \in Nat /\ h.ts \in {n - 2, n - 1, n}
    <3>1. h.confirm \in BOOLEAN
      BY DEF HintsInv, HintFits
    <3>2. n \in Nat /\ h.ts \in n - 2 .. n
      BY <3>1, HintBars
    <3> HIDE DEF n
    <3> QED BY <3>2
  <2>2. CASE hints = {}
    BY <2>2
  <2>3. CASE hints # {}
    <3>1. n \in Nat
      BY <2>1, <2>3
    <3>2. b \in {n - 2, n - 1, n}
      <4>1. b \in n - 2 .. n
        OBVIOUS
      <4> HIDE DEF n
      <4> QED BY <3>1, <4>1
    <3>3. CASE b = n - 2
      <4>1. \A h \in hints : h.ts \in {n - 1, n}
        BY <1>1, <2>1, <3>3
      <4> QED BY <4>1
    <3>4. CASE b = n - 1
      <4>1. \A h \in hints : h.ts \in {n - 2, n}
        BY <1>1, <2>1, <3>4
      <4> QED BY <4>1
    <3>5. CASE b = n
      <4>1. \A h \in hints : h.ts \in {n - 2, n - 1}
        BY <1>1, <2>1, <3>5
      <4> QED BY <4>1
    <3> QED BY <3>2, <3>3, <3>4, <3>5
  <2> QED BY <2>2, <2>3
<1>3. PICK x, y : \A h \in hints : h.ts \in {x, y}
  BY <1>2
<1>4. IsFiniteSet(hints) /\ Cardinality(hints) <= 2
  BY <1>3, AtMostTwo DEF HintsInv, OneRowEach
<1>5. Cardinality(hints) \in Nat
  BY <1>4, FS_CardinalityType
<1> QED BY <1>0, <1>4, <1>5

(* The hints alone, when there are enough. *)
LEMMA CachedRowsFit ==
    ASSUME HintsInv, Enough
    PROVE  RowsFit(Merge({}, FreshHints), now)
<1> DEFINE n == now \div Period
<1>0. Period \in Nat /\ Period > 0 /\ now \in Nat
  BY FeedAssumption DEF HintsInv
<1>1. n \in Nat /\ Newest(now) = n - 1
  BY <1>0, BarOf DEF Newest
<1>2. Merge({}, FreshHints) = NewestBars(United({}))
  BY AllFresh DEF Merge, United
<1>3. Cardinality(hints) >= Limit
  BY AllFresh DEF Enough
<1>4. ASSUME NEW b \in Newest(now) - 1 .. Newest(now), b <= Newest(now), Unhidden(b)
      PROVE  Closed(b) \in United({})
  <2>1. b \in n - 2 .. n
    <3> HIDE DEF n
    <3> QED BY <1>1, <1>4
  <2>2. PICK h \in hints : h.ts = b
    BY <1>3, <2>1, EnoughHints
  <2>3. h.confirm
    BY <1>4, <2>2 DEF Unhidden
  <2> QED BY <1>0, <2>2, <2>3, UnitedRows
<1>5. RowsFit(NewestBars(United({})), now)
  <2> HIDE DEF n
  <2> QED BY <1>0, <1>4, LimitKeepsFit
<1> QED BY <1>2, <1>5

(* A bar closed for as long as a hint is fresh and REST may be late is     *)
(* hidden by no hint.                                                      *)
Ripe(t) == Newest(t - MaxStale - Lag - TickTimeout)

(* What such a bar is: at most one bar behind the newest, and in every     *)
(* answer.                                                                 *)
LEMMA RipeIs ==
    ASSUME HintsInv
    PROVE  /\ Ripe(now) \in Int /\ Ripe(now) >= Newest(now) - 1 /\ Ripe(now) <= Newest(now)
           /\ \A b \in Int : b <= Ripe(now) => Unhidden(b)
           /\ \A asof \in Nat : now - asof <= MaxStale + Lag + TickTimeout => Ripe(now) <= Newest(asof)
<1> DEFINE n == now \div Period
           t == now - MaxStale - Lag - TickTimeout
           r == t \div Period
<1>0. /\ Period \in Nat /\ Period > 0 /\ now \in Nat /\ MaxStale \in Nat /\ Lag \in Nat /\ TickTimeout \in Nat
      /\ MaxStale + Lag + TickTimeout <= Period /\ now >= Start /\ Start \in Nat /\ Start >= 3 * Period
  BY FeedAssumption DEF HintsInv
<1>1. t \in Nat /\ t <= now /\ now <= t + Period
  BY <1>0
<1> HIDE DEF t
<1>2. n \in Nat /\ r \in Nat /\ r <= n
  BY <1>0, <1>1, BarOf, BarsGrow
<1>3. n <= r + 1
  <2>1. now \div Period <= (t + Period) \div Period
    BY <1>0, <1>1, BarsGrow
  <2> QED BY <1>0, <1>1, <2>1, NextBar
<1>4. Newest(now) = n - 1 /\ Ripe(now) = r - 1
  BY DEF Newest, Ripe, t
<1>5. ASSUME NEW b \in Int, b <= Ripe(now) PROVE Unhidden(b)
  <2> SUFFICES ASSUME NEW h \in hints, h.ts = b, ~h.confirm PROVE FALSE
    BY DEF Unhidden
  <2>1. h.at \in Nat /\ t <= h.at /\ b = h.at \div Period
    BY <1>0 DEF HintsInv, HintFits, t
  <2>2. r <= h.at \div Period
    BY <1>0, <1>1, <2>1, BarsGrow
  <2> HIDE DEF r, n
  <2> QED BY <1>2, <1>4, <1>5, <2>1, <2>2
<1>6. ASSUME NEW asof \in Nat, now - asof <= MaxStale + Lag + TickTimeout PROVE Ripe(now) <= Newest(asof)
  <2>1. t <= asof
    BY <1>0, <1>6 DEF t
  <2>2. r <= asof \div Period
    BY <1>0, <1>1, <2>1, BarsGrow
  <2>3. asof \div Period \in Nat /\ Newest(asof) = asof \div Period - 1
    BY <1>0, BarOf DEF Newest
  <2> HIDE DEF r
  <2> QED BY <1>2, <1>4, <2>2, <2>3
<1> HIDE DEF n, r
<1> QED BY <1>2, <1>3, <1>4, <1>5, <1>6

LastInv ==
    /\ last \in Int /\ last <= Newest(now)
    /\ refreshed \in Nat /\ refreshed >= Start /\ refreshed <= now
    /\ last >= Ripe(refreshed)

FedInv ==
    /\ excused \in BOOLEAN /\ last \in fed
    /\ ~excused => \E m \in Int : m <= last /\ fed = m .. last

(* Two refreshes not too far apart: the last bar fed is one of the three   *)
(* that close before the newest rows begin.                                *)
LEMMA GapIs ==
    ASSUME HintsInv, LastInv, now - refreshed <= SafeGap
    PROVE  last >= Newest(now) - 2
<1> DEFINE n == now \div Period
           t == refreshed - MaxStale - Lag - TickTimeout
           r == t \div Period
<1>0. /\ Period \in Nat /\ Period > 0 /\ now \in Nat /\ MaxStale \in Nat /\ Lag \in Nat /\ TickTimeout \in Nat
      /\ MaxStale + Lag + TickTimeout <= Period /\ refreshed >= Start /\ Start \in Nat /\ Start >= 3 * Period
      /\ refreshed \in Nat
  BY FeedAssumption DEF HintsInv, LastInv
<1>1. t \in Nat /\ now <= t + Period + Period
  BY <1>0 DEF SafeGap
<1> HIDE DEF t
<1>2. n \in Nat /\ r \in Nat
  BY <1>0, <1>1, BarOf
<1>3. n <= r + 2
  <2>1. t + Period \in Nat /\ t + Period + Period \in Nat
    BY <1>0, <1>1
  <2>2. now \div Period <= (t + Period + Period) \div Period
    BY <1>0, <1>1, <2>1, BarsGrow
  <2>3. (t + Period) \div Period = r + 1
    BY <1>0, <1>1, NextBar
  <2>4. (t + Period + Period) \div Period = (t + Period) \div Period + 1
    BY <1>0, <2>1, NextBar
  <2> QED BY <1>2, <2>2, <2>3, <2>4
<1>4. Newest(now) = n - 1 /\ Ripe(refreshed) = r - 1
  BY DEF Newest, Ripe, t
<1> HIDE DEF n, r
<1> QED BY <1>2, <1>3, <1>4 DEF LastInv

(* What one refresh does with rows that fit: nothing newer is fed before   *)
(* anything older, and every bar the rows vouch for has been fed after it. *)
LEMMA FeedIs ==
    ASSUME HintsInv, LastInv, NEW rows, NEW asof \in Nat, asof <= now, now - asof <= MaxStale + Lag + TickTimeout,
           RowsFit(rows, asof), Feed(rows)
    PROVE  /\ last' \in Int /\ last <= last' /\ last' <= Newest(now) /\ refreshed' = now
           /\ last' >= Ripe(now)
           /\ \A h \in hints : h.confirm => h.ts <= last'
           /\ \A k \in Int : k <= Newest(asof) /\ Unhidden(k) => k <= last'
           /\ FedInv => FedInv'
<1> DEFINE S == ToFeed(rows) \cup {last}
<1>0. now \in Nat /\ Period \in Nat /\ Period > 0 /\ last \in Int /\ last <= Newest(now)
  BY FeedAssumption DEF HintsInv, LastInv
<1>1. Newest(now) \in Int /\ Newest(asof) \in Int /\ Newest(asof) <= Newest(now)
  BY <1>0, BarOf, BarsGrow DEF Newest
<1>2. \A x \in ToFeed(rows) : x \in Int /\ x <= Newest(now) /\ x > last
  BY <1>0 DEF ToFeed, RowsFit
<1>3. \A b \in Int : Closed(b) \in rows /\ b > last => b \in ToFeed(rows)
  <2>1. ASSUME NEW b \in Int, Closed(b) \in rows, b > last PROVE b \in ToFeed(rows)
    <3>1. Closed(b).ts = b /\ Closed(b).confirm
      BY DEF Closed
    <3>2. Closed(b) \in {q \in rows : q.confirm /\ q.ts > last}
      BY <2>1, <3>1
    <3> QED BY <3>1, <3>2 DEF ToFeed
  <2> QED BY <2>1
<1>4. last' = Max(S) /\ fed' = fed \cup ToFeed(rows) /\ refreshed' = now
      /\ excused' = (excused \/ now - refreshed > SafeGap)
  BY DEF Feed
<1>5. S \in SUBSET Int /\ last \in S /\ \A x \in S : x <= Newest(now)
  BY <1>0, <1>2
<1> HIDE DEF S
<1>6. Max(S) \in S /\ \A x \in S : x <= Max(S)
  BY <1>1, <1>5, MaxIs
<1>7. last' \in Int /\ last <= last' /\ last' <= Newest(now)
  BY <1>4, <1>5, <1>6
<1>8. ASSUME NEW b \in Int, Closed(b) \in rows PROVE b <= last'
  <2>1. CASE b > last
    BY <1>3, <1>4, <1>6, <1>8, <2>1 DEF S
  <2>2. CASE ~(b > last)
    BY <1>0, <1>7, <2>2
  <2> QED BY <2>1, <2>2
<1>9. /\ Ripe(now) \in Int /\ Ripe(now) >= Newest(now) - 1 /\ Ripe(now) <= Newest(now)
      /\ Ripe(now) <= Newest(asof)
      /\ \A b \in Int : b <= Ripe(now) => Unhidden(b)
  BY RipeIs
<1>10. \A b \in Newest(now) - 1 .. Newest(now) :
          b <= Newest(asof) /\ Unhidden(b) => Closed(b) \in rows
  BY DEF RowsFit
<1>11. last' >= Ripe(now)
  BY <1>1, <1>7, <1>8, <1>9, <1>10
<1>12. ASSUME NEW h \in hints, h.confirm PROVE h.ts <= last'
  <2>1. Closed(h.ts) \in rows /\ h.ts \in Int
    BY <1>12 DEF RowsFit, HintsInv, HintFits
  <2> QED BY <1>8, <2>1
<1>13. ASSUME NEW k \in Int, k <= Newest(asof), Unhidden(k) PROVE k <= last'
  <2>1. CASE k >= Newest(now) - 1
    <3>1. k \in Newest(now) - 1 .. Newest(now)
      BY <1>1, <1>13, <2>1
    <3> QED BY <1>8, <1>10, <1>13, <3>1
  <2>2. CASE ~(k >= Newest(now) - 1)
    BY <1>1, <1>7, <1>9, <1>11, <2>2
  <2> QED BY <2>1, <2>2
<1>14. ASSUME FedInv PROVE FedInv'
  <2>1. excused' \in BOOLEAN /\ last' \in fed'
    BY <1>4, <1>6, <1>14 DEF FedInv, S
  <2>2. ASSUME ~excused' PROVE \E m \in Int : m <= last' /\ fed' = m .. last'
    <3>1. ~excused /\ ~(now - refreshed > SafeGap)
      BY <1>4, <2>2
    <3>2. PICK m \in Int : m <= last /\ fed = m .. last
      BY <1>14, <3>1 DEF FedInv
    <3>3. now - refreshed <= SafeGap
      <4>1. SafeGap \in Int /\ refreshed \in Nat
        BY FeedAssumption DEF SafeGap, LastInv
      <4> QED BY <1>0, <3>1, <4>1
    <3>4. last >= Newest(now) - 2
      BY <3>3, GapIs
    <3>5. ASSUME NEW b \in Int, last < b, b <= last' PROVE b \in ToFeed(rows)
      <4>1. CASE b = last'
        BY <1>0, <1>4, <1>6, <3>5, <4>1 DEF S
      <4>2. CASE b # last'
        <5>1. b = Newest(now) - 1 /\ b \in Newest(now) - 1 .. Newest(now)
          BY <1>0, <1>1, <1>7, <3>4, <3>5, <4>2
        <5>2. b <= Ripe(now) /\ b <= Newest(asof)
          BY <1>1, <1>9, <5>1
        <5> QED BY <1>3, <1>9, <1>10, <3>5, <5>1, <5>2
      <4> QED BY <4>1, <4>2
    <3>6. \A b \in ToFeed(rows) : b \in Int /\ last < b /\ b <= last'
      BY <1>2, <1>4, <1>6 DEF S
    <3>7. fed' = m .. last'
      <4>1. \A b : b \in fed' => b \in m .. last'
        BY <1>0, <1>4, <1>7, <3>2, <3>6
      <4>2. \A b : b \in m .. last' => b \in fed'
        BY <1>0, <1>4, <1>7, <3>2, <3>5
      <4> QED BY <4>1, <4>2
    <3> QED BY <1>0, <1>7, <3>2, <3>7
  <2> QED BY <2>1, <2>2 DEF FedInv
<1> QED BY <1>4, <1>7, <1>11, <1>12, <1>13, <1>14

-----------------------------------------------------------------------------
(* Bar k was announced: its hint is cached as long as it is fresh, no      *)
(* other hint hides it, and an answer kept since it was merged with that   *)
(* hint.                                                                   *)
Announced(k) ==
    /\ k \in Int /\ k <= Newest(now) /\ Unhidden(k)
    /\ now - ClosesAt(k) <= MaxStale =>
          [ts |-> k, confirm |-> TRUE, at |-> ClosesAt(k)] \in hints
    /\ /\ fallback # NoRest
       /\ fallback.at >= ClosesAt(k) /\ fallback.at <= ClosesAt(k) + MaxStale
       => last >= k

Kinds == {"none", "timer", "candle", "other"}
Steps == {"none", "ahead", "candles", "rest", "orders", "entry", "reconcile", "others"}
Timed == {"rest", "orders", "entry", "reconcile"}

JobFits ==
    /\ job \in [kind : Kinds, ts : Int, step : Steps, since : Int]
    /\ job.kind = "none" => job = NoJob
    /\ job.step = "none" => job.kind = "none"
    /\ job.step = "entry" => job.kind = "candle"

(* A handler's calls end within its timeout.                               *)
JobInTime ==
    /\ job.step = "candles" => job.since = now
    /\ job.step \in Timed => job.since <= now /\ now - job.since <= TickTimeout

(* A candle under way past refresh_bars has been fed, unless the answer    *)
(* was too slow for it.                                                    *)
AnnouncedInv ==
    /\ \A k \in pending : Announced(k)
    /\ \A k : job.kind = "candle" /\ job.ts = k =>
          /\ Announced(k)
          /\ job.step \in {"orders", "entry"} => last >= k \/ TooSlowFor(k)

FeedInv == HintsInv /\ KeptInv /\ LastInv /\ FedInv /\ JobFits /\ JobInTime /\ AnnouncedInv

(* The numbers in play.                                                    *)
LEMMA NumbersAre ==
    ASSUME HintsInv
    PROVE  /\ Period \in Nat /\ Period > 0 /\ MaxStale \in Nat /\ Lag \in Nat /\ TickTimeout \in Nat /\ Start \in Nat
           /\ MaxStale + Lag + TickTimeout <= Period /\ Start >= 3 * Period
           /\ now \in Nat /\ now >= Start /\ now \div Period \in Nat
           /\ Newest(now) = now \div Period - 1
BY FeedAssumption, BarOf DEF HintsInv, Newest

(* The warm-up establishes the invariant.                                  *)
LEMMA StartIsGood == FeedInit => FeedInv
<1> SUFFICES ASSUME FeedInit PROVE FeedInv
  OBVIOUS
<1>0. /\ Period \in Nat /\ Period > 0 /\ MaxStale \in Nat /\ Lag \in Nat /\ TickTimeout \in Nat /\ Start \in Nat
      /\ MaxStale + Lag + TickTimeout <= Period /\ Start >= 3 * Period
  BY FeedAssumption
<1>1. HintsInv
  BY <1>0 DEF FeedInit, HintsInv, OneRowEach
<1>2. PICK asof \in (Start - Lag - TickTimeout) .. Start : last = Newest(asof)
  BY DEF FeedInit
<1>3. asof \in Nat /\ asof <= now /\ now - asof <= MaxStale + Lag + TickTimeout /\ now = Start
  BY <1>0, <1>2 DEF FeedInit
<1>4. last \in Int /\ last <= Newest(now)
  BY <1>0, <1>2, <1>3, BarOf, BarsGrow DEF Newest
<1>5. Ripe(now) <= last
  BY <1>1, <1>2, <1>3, RipeIs
<1>6. LastInv
  BY <1>0, <1>3, <1>4, <1>5 DEF FeedInit, LastInv
<1>7. FedInv
  <2>1. fed = last .. last
    BY <1>4 DEF FeedInit
  <2>2. last <= last /\ excused = FALSE /\ last \in fed
    BY <1>4 DEF FeedInit
  <2>3. \E m \in Int : m <= last /\ fed = m .. last
    BY <1>4, <2>1, <2>2
  <2> QED BY <2>2, <2>3 DEF FedInv
<1>8. KeptInv /\ JobFits /\ JobInTime /\ AnnouncedInv
  BY DEF FeedInit, KeptInv, JobFits, JobInTime, Kinds, Steps, Timed, AnnouncedInv, NoJob
<1> QED BY <1>1, <1>6, <1>7, <1>8 DEF FeedInv

(* What happened just now is fresh.                                        *)
LEMMA JustNow ==
    ASSUME NEW t \in Nat PROVE t - t <= MaxStale
BY FeedAssumption

(* A hint that is put in fits, and the older ones stay as long as they are *)
(* fresh.                                                                  *)
LEMMA InsertFits ==
    ASSUME HintsInv, NEW ts \in Int, NEW confirm \in BOOLEAN, now' \in Nat, now' >= now,
           confirm => now' = (ts + 1) * Period, ~confirm => ts = now' \div Period,
           hints' = Insert(ts, confirm, now')
    PROVE  /\ HintsInv'
           /\ \A h \in hints' : (h \in hints /\ h.ts # ts) \/ (h.ts = ts /\ h.confirm = confirm)
           /\ \A h \in hints : h.ts # ts /\ now' - h.at <= MaxStale => h \in hints'
           /\ [ts |-> ts, confirm |-> confirm, at |-> now'] \in hints'
<1> DEFINE new == [ts |-> ts, confirm |-> confirm, at |-> now']
<1>0. now' >= Start /\ MaxStale \in Nat /\ Start \in Nat /\ now \in Nat
  BY NumbersAre
<1>1. hints' = {h \in hints : h.ts # ts /\ now' - h.at <= MaxStale} \cup {new}
  BY DEF Insert
<1>2. new.ts = ts /\ new.confirm = confirm /\ new.at = now'
  OBVIOUS
<1> HIDE DEF new
<1>3. \A h \in hints' : h = new \/ (h \in hints /\ h.ts # ts /\ now' - h.at <= MaxStale)
  BY <1>1
<1>4. ASSUME NEW h \in hints' PROVE HintFits(h)'
  <2>1. CASE h = new
    <3>1. h = [ts |-> ts, confirm |-> confirm, at |-> now']
      BY <2>1 DEF new
    <3>2. h.ts = ts /\ h.at = now' /\ h.confirm = confirm
      BY <3>1
    <3>3. h = [ts |-> h.ts, confirm |-> h.confirm, at |-> h.at]
      BY <3>1, <3>2
    <3>4. now' - h.at <= MaxStale
      <4>1. h.at = now'
        BY <1>2, <2>1
      <4>2. now' - now' <= MaxStale
        BY JustNow
      <4> QED BY <4>1, <4>2
    <3> QED BY <1>0, <3>2, <3>3, <3>4 DEF HintFits
  <2>2. CASE h \in hints /\ now' - h.at <= MaxStale
    BY <1>0, <2>2 DEF HintsInv, HintFits
  <2> QED BY <1>3, <2>1, <2>2
<1>5. OneRowEach(hints')
  BY <1>2, <1>3 DEF HintsInv, OneRowEach
<1>6. HintsInv'
  BY <1>0, <1>4, <1>5 DEF HintsInv
<1> QED BY <1>1, <1>2, <1>3, <1>6 DEF new

(* Time passes without a bar to announce. *)
LEMMA ExpiryFits ==
    ASSUME HintsInv, now' \in Nat, now' >= now, hints' = {h \in hints : now' - h.at <= MaxStale}
    PROVE  HintsInv'
<1>0. now' >= Start /\ MaxStale \in Nat /\ Start \in Nat /\ now \in Nat
  BY NumbersAre
<1>1. ASSUME NEW h \in hints' PROVE HintFits(h)'
  BY <1>0, <1>1 DEF HintsInv, HintFits
<1>2. OneRowEach(hints')
  BY DEF HintsInv, OneRowEach
<1> QED BY <1>0, <1>1, <1>2 DEF HintsInv

(* What was announced stays announced as long as its hint is kept. *)
LEMMA AnnouncedStays ==
    ASSUME HintsInv, NEW k, Announced(k), now' \in Nat, now' >= now,
           last' \in Int, last \in Int, last' >= last, fallback' \in {fallback, NoRest},
           \A h \in hints' : h \in hints \/ h.ts # k \/ h.confirm,
           \A h \in hints : h.ts = k /\ now' - h.at <= MaxStale => h \in hints'
    PROVE  Announced(k)'
<1>0. now \in Nat /\ Period \in Nat /\ Period > 0 /\ MaxStale \in Nat /\ k \in Int
  BY NumbersAre DEF Announced
<1>1. ClosesAt(k) \in Int
  BY <1>0 DEF ClosesAt
<1>2. Newest(now) <= Newest(now') /\ Newest(now) \in Int /\ Newest(now') \in Int
  BY <1>0, NewestGrows
<1>3. Unhidden(k)'
  BY DEF Announced, Unhidden
<1>4. ASSUME now' - ClosesAt(k) <= MaxStale
      PROVE  [ts |-> k, confirm |-> TRUE, at |-> ClosesAt(k)] \in hints'
  <2>1. [ts |-> k, confirm |-> TRUE, at |-> ClosesAt(k)] \in hints
    BY <1>0, <1>1, <1>4 DEF Announced
  <2> QED BY <1>4, <2>1
<1>5. (fallback' # NoRest /\ fallback'.at >= ClosesAt(k) /\ fallback'.at <= ClosesAt(k) + MaxStale)
      => last' >= k
  BY <1>0 DEF Announced
<1>6. k <= Newest(now')
  BY <1>0, <1>2 DEF Announced
<1> QED BY <1>0, <1>3, <1>4, <1>5, <1>6 DEF Announced, ClosesAt

(* The bar that closes at a moment closes at that moment.                  *)
LEMMA ClosingIs ==
    ASSUME NEW t \in Nat, Closing(t)
    PROVE  ClosesAt(Newest(t)) = t
<1> DEFINE d == t \div Period
<1>0. Period \in Nat /\ Period > 0
  BY FeedAssumption
<1>1. d \in Nat /\ d * Period = t
  <2>1. t % Period = 0
    BY DEF Closing
  <2> QED BY <1>0, <2>1
<1>2. Newest(t) + 1 = d
  <2>1. Newest(t) = d - 1
    BY DEF Newest
  <2> HIDE DEF d
  <2> QED BY <1>1, <2>1
<1> QED BY <1>1, <1>2 DEF ClosesAt

(* A refresh feeds every bar announced before it.                          *)
LEMMA AnnouncedIsFed ==
    ASSUME HintsInv, LastInv, NEW rows, NEW asof \in Nat, asof <= now, now - asof <= MaxStale + Lag + TickTimeout,
           RowsFit(rows, asof), Feed(rows), NEW k, Announced(k),
           \/ now - ClosesAt(k) <= MaxStale \/ asof >= ClosesAt(k) \/ last >= k
           \/ TooSlowFor(k)'
    PROVE  k <= last' \/ TooSlowFor(k)'
<1>0. k \in Int /\ Unhidden(k)
  BY DEF Announced
<1>1. /\ last' \in Int /\ last <= last' /\ last \in Int
      /\ \A h \in hints : h.confirm => h.ts <= last'
      /\ \A b \in Int : b <= Newest(asof) /\ Unhidden(b) => b <= last'
  BY FeedIs DEF LastInv
<1>2. CASE now - ClosesAt(k) <= MaxStale
  <2>1. [ts |-> k, confirm |-> TRUE, at |-> ClosesAt(k)] \in hints
    BY <1>2 DEF Announced
  <2> QED BY <1>1, <2>1
<1>3. CASE asof >= ClosesAt(k)
  <2>1. ClosedBy(k, asof)
    BY <1>0, <1>3, NumbersAre DEF ClosesAt, ClosedBy
  <2>2. k <= Newest(asof)
    BY <1>0, <2>1, ClosedIs
  <2> QED BY <1>0, <1>1, <2>2
<1>4. CASE last >= k
  BY <1>0, <1>1, <1>4
<1> QED BY <1>2, <1>3, <1>4

(* The next step of a handler under way.                                   *)
LEMMA StepIs ==
    ASSUME JobFits, job.kind # "none", NEW s \in Steps, s # "none", s = "entry" => job.kind = "candle",
           job' = [job EXCEPT !.step = s]
    PROVE  /\ JobFits'
           /\ job'.kind = job.kind /\ job'.ts = job.ts /\ job'.since = job.since /\ job'.step = s
<1>1. job \in [kind : Kinds, ts : Int, step : Steps, since : Int]
  BY DEF JobFits
<1>2. job'.kind = job.kind /\ job'.ts = job.ts /\ job'.since = job.since /\ job'.step = s
  BY <1>1
<1>3. job' \in [kind : Kinds, ts : Int, step : Steps, since : Int]
  BY <1>1
<1> QED BY <1>2, <1>3 DEF JobFits

(* Which dispatch has got how far.                                         *)
LEMMA UnderWay ==
    ASSUME JobFits
    PROVE  /\ job.kind \in Kinds /\ job.step \in Steps /\ job.ts \in Int /\ job.since \in Int
           /\ job.step # "none" => job.kind # "none"
BY DEF JobFits, NoJob

(* A refresh keeps the invariant.                                          *)
LEMMA RefreshKeeps ==
    ASSUME FeedInv, job.step \in {"candles", "rest"}, NEW rows, NEW asof \in Nat, asof <= now,
           now - asof <= MaxStale + Lag + TickTimeout, RowsFit(rows, asof), Feed(rows),
           job' = AfterRefresh,
           now' = now, hints' = hints, pending' = pending, KeptInv',
           \A k : Announced(k) =>
                    \/ now - ClosesAt(k) <= MaxStale \/ asof >= ClosesAt(k) \/ last >= k
                    \/ TooSlowFor(k)'
    PROVE  FeedInv' /\ last' >= Ripe(now)
<1>0. HintsInv /\ KeptInv /\ LastInv /\ FedInv /\ JobFits /\ JobInTime /\ AnnouncedInv
  BY DEF FeedInv
<1>1. HintsInv'
  BY <1>0 DEF HintsInv, HintFits, OneRowEach
<1>2. /\ last' \in Int /\ last <= last' /\ last' <= Newest(now) /\ refreshed' = now
      /\ last' >= Ripe(now) /\ FedInv'
  BY <1>0, FeedIs
<1>3. LastInv'
  <2>1. now \in Nat /\ now >= Start /\ now <= now
    BY <1>0, NumbersAre
  <2> QED BY <1>2, <2>1 DEF LastInv
<1>4. ASSUME NEW k, Announced(k) PROVE (k <= last' \/ TooSlowFor(k)') /\ Announced(k)'
  <2>1. k <= last' \/ TooSlowFor(k)'
    BY <1>0, <1>4, AnnouncedIsFed
  <2>2. Unhidden(k)'
    BY <1>4 DEF Announced, Unhidden
  <2>3. fallback' # NoRest /\ fallback'.at >= ClosesAt(k) /\ fallback'.at <= ClosesAt(k) + MaxStale
        => last' >= k
    <3>1. /\ ClosesAt(k) \in Int /\ MaxStale \in Nat /\ k \in Int
          /\ fallback' # NoRest => fallback'.at \in Nat
      BY <1>0, <1>4, NumbersAre DEF Announced, ClosesAt, KeptInv
    <3>2. TooSlowFor(k)' => fallback' # NoRest /\ fallback'.at > ClosesAt(k) + MaxStale
      BY DEF TooSlowFor, ClosesAt
    <3> QED BY <1>2, <2>1, <3>1, <3>2
  <2> QED BY <1>4, <2>1, <2>2, <2>3 DEF Announced, ClosesAt
<1>5. /\ JobFits' /\ job'.kind = job.kind /\ job'.ts = job.ts /\ job'.since = job.since
      /\ job'.step = "orders" /\ job.since \in Int
  <2>1. job.kind # "none" /\ "orders" \in Steps /\ job.since \in Int
    BY <1>0, UnderWay DEF Steps
  <2> QED BY <1>0, <2>1, StepIs DEF AfterRefresh
<1>6. JobInTime'
  <2>1. job.since <= now /\ now - job.since <= TickTimeout
    <3>1. now \in Nat /\ TickTimeout \in Nat
      BY <1>0, NumbersAre
    <3>2. CASE job.step = "candles"
      BY <1>0, <3>1, <3>2 DEF JobInTime
    <3>3. CASE job.step = "rest"
      BY <1>0, <3>3 DEF JobInTime, Timed
    <3> QED BY <3>2, <3>3
  <2> QED BY <1>5, <2>1 DEF JobInTime
<1>8. AnnouncedInv'
  <2>1. ASSUME NEW k \in pending' PROVE Announced(k)'
    BY <2>1, <1>0, <1>4 DEF AnnouncedInv
  <2>2. ASSUME NEW k, job'.kind = "candle" /\ job'.ts = k
        PROVE  Announced(k)' /\ (last' >= k \/ TooSlowFor(k)')
    <3>1. Announced(k) /\ k \in Int
      BY <1>0, <1>5, <2>2, UnderWay DEF AnnouncedInv
    <3>2. (k <= last' \/ TooSlowFor(k)') /\ Announced(k)'
      BY <1>4, <3>1
    <3> QED BY <1>2, <3>1, <3>2
  <2> QED BY <2>1, <2>2 DEF AnnouncedInv
<1>9. FeedInv'
  BY <1>1, <1>2, <1>3, KeptInv', <1>5, <1>6, <1>8 DEF FeedInv
<1> QED BY <1>2, <1>9

(* The steps that feed nothing: what was fed stays in order.               *)
LEMMA FedStays ==
    ASSUME LastInv, FedInv, now \in Nat, now' \in Nat, now' >= now,
           last' = last, fed' = fed, refreshed' = refreshed, excused' = excused
    PROVE  LastInv' /\ FedInv'
<1>1. last' <= Newest(now') /\ refreshed' <= now'
  <2>1. Newest(now) \in Int /\ Newest(now') \in Int /\ Newest(now) <= Newest(now')
    BY NewestGrows
  <2> QED BY <2>1 DEF LastInv
<1>2. LastInv'
  BY <1>1 DEF LastInv, Ripe
<1> QED BY <1>2 DEF FedInv

(* Hints left alone stay good.                                             *)
LEMMA HintsStay ==
    ASSUME HintsInv, now' = now, hints' = hints PROVE HintsInv'
BY DEF HintsInv, HintFits, OneRowEach

(* A refresh from the cache.                                               *)
LEMMA CandleAnswersKeep == FeedInv /\ FromCache => FeedInv' /\ last' >= Ripe(now)
<1> SUFFICES ASSUME FeedInv, FromCache PROVE FeedInv' /\ last' >= Ripe(now)
  OBVIOUS
<1>0. HintsInv /\ KeptInv /\ LastInv /\ FedInv /\ JobFits /\ JobInTime /\ AnnouncedInv
  BY DEF FeedInv
<1>1. /\ Period \in Nat /\ MaxStale \in Nat /\ Lag \in Nat /\ TickTimeout \in Nat /\ now \in Nat
      /\ MaxStale + Lag + TickTimeout <= Period
  BY <1>0, NumbersAre
<1>2. /\ now' = now /\ hints' = hints /\ pending' = pending /\ fallback' = fallback
      /\ job' = AfterRefresh /\ job.step \in {"candles", "rest"}
  BY <1>0 DEF FromCache
<1>3. KeptInv'
  BY <1>0, <1>2 DEF KeptInv
<1>4. CASE Enough
  <2>1. Feed(Merge({}, FreshHints)) /\ RowsFit(Merge({}, FreshHints), now)
    BY <1>0, <1>4, CachedRowsFit DEF FromCache
  <2>2. now <= now /\ now - now <= MaxStale + Lag + TickTimeout
    BY <1>1
  <2>3. ASSUME NEW k, Announced(k)
        PROVE  \/ now - ClosesAt(k) <= MaxStale \/ now >= ClosesAt(k) \/ last >= k
               \/ TooSlowFor(k)'
    <3>1. k \in Int /\ k <= Newest(now)
      BY <2>3 DEF Announced
    <3>2. ClosedBy(k, now)
      BY <1>1, <3>1, ClosedIs
    <3> QED BY <1>1, <3>1, <3>2 DEF ClosedBy, ClosesAt
  <2> QED BY <1>1, <1>2, <1>3, <2>1, <2>2, <2>3, RefreshKeeps
<1>5. CASE ~Enough
  <2> DEFINE asof == fallback.asof
  <2>1. Fresh(fallback)
    BY <1>5 DEF FromCache
  <2>2. /\ asof \in Nat /\ fallback.at \in Nat /\ fallback.at <= now /\ fallback # NoRest
        /\ asof <= fallback.at /\ fallback.at <= asof + Lag + TickTimeout /\ now - fallback.at <= MaxStale
    BY <1>0, <2>1 DEF Fresh, KeptInv
  <2>3. asof <= now /\ now - asof <= MaxStale + Lag + TickTimeout /\ now - asof <= Period
    <3> HIDE DEF asof
    <3> QED BY <1>1, <2>2
  <2>4. Feed(Merge(RowsAt(asof, Limit), FreshHints))
    BY <1>5 DEF FromCache
  <2>5. RowsFit(Merge(RowsAt(asof, Limit), FreshHints), asof)
    BY <1>0, <2>2, <2>3, MergedRowsFit
  <2>6. ASSUME NEW k, Announced(k)
        PROVE  \/ now - ClosesAt(k) <= MaxStale \/ asof >= ClosesAt(k) \/ last >= k
               \/ TooSlowFor(k)'
    <3>1. ClosesAt(k) \in Int
      BY <1>0, <2>6, NumbersAre DEF Announced, ClosesAt
    <3>2. /\ fallback.at >= ClosesAt(k) /\ fallback.at <= ClosesAt(k) + MaxStale
          => last >= k
      BY <2>2, <2>6 DEF Announced
    <3>3. fallback.at > ClosesAt(k) + MaxStale /\ asof < ClosesAt(k) => TooSlowFor(k)'
      BY <1>2, <2>2 DEF TooSlowFor, ClosesAt
    <3> HIDE DEF asof
    <3> QED BY <1>1, <2>2, <3>1, <3>2, <3>3
  <2> HIDE DEF asof
  <2> QED BY <1>2, <1>3, <2>2, <2>3, <2>4, <2>5, <2>6, RefreshKeeps
<1> QED BY <1>4, <1>5

(* A refresh from REST.                                                    *)
LEMMA RestAnswersKeep == FeedInv /\ RestAnswers => FeedInv' /\ last' >= Ripe(now)
<1> SUFFICES ASSUME FeedInv, RestAnswers PROVE FeedInv' /\ last' >= Ripe(now)
  OBVIOUS
<1>0. HintsInv /\ KeptInv /\ LastInv /\ FedInv /\ JobFits /\ JobInTime /\ AnnouncedInv
  BY DEF FeedInv
<1>1. /\ Period \in Nat /\ MaxStale \in Nat /\ Lag \in Nat /\ TickTimeout \in Nat /\ now \in Nat /\ Period > 0
      /\ MaxStale + Lag + TickTimeout <= Period /\ now >= 3 * Period
  <2>1. now >= Start /\ Start >= 3 * Period /\ Start \in Nat
    BY <1>0, NumbersAre
  <2> QED BY <1>0, <2>1, NumbersAre
<1>9. job.since \in Int /\ job.since <= now /\ now - job.since <= TickTimeout
  BY <1>0, UnderWay DEF RestAnswers, JobInTime, Timed
<1>2. PICK asof \in (job.since - Lag) .. now :
         /\ fallback' = [asof |-> asof, at |-> now]
         /\ Feed(Merge(RowsAt(asof, Limit), FreshHints))
  BY DEF RestAnswers
<1>3. /\ now' = now /\ hints' = hints /\ pending' = pending
      /\ job' = AfterRefresh /\ job.step \in {"candles", "rest"}
  BY <1>0 DEF RestAnswers
<1>4. asof \in Nat /\ asof <= now /\ now <= asof + Lag + TickTimeout
  BY <1>1, <1>2, <1>9
<1>5. now - asof <= MaxStale + Lag + TickTimeout /\ now - asof <= Period
  BY <1>1, <1>4
<1>6. KeptInv'
  BY <1>1, <1>2, <1>3, <1>4 DEF KeptInv
<1>7. RowsFit(Merge(RowsAt(asof, Limit), FreshHints), asof)
  BY <1>0, <1>4, <1>5, MergedRowsFit
<1>8. ASSUME NEW k, Announced(k)
      PROVE  \/ now - ClosesAt(k) <= MaxStale \/ asof >= ClosesAt(k) \/ last >= k
             \/ TooSlowFor(k)'
  <2>1. ClosesAt(k) \in Int
    BY <1>0, <1>8, NumbersAre DEF Announced, ClosesAt
  <2>2. fallback'.asof = asof /\ fallback'.at = now /\ fallback' # NoRest
    <3>1. asof # -1
      BY <1>4
    <3> QED BY <1>2, <3>1 DEF NoRest
  <2>3. now > ClosesAt(k) + MaxStale /\ asof < ClosesAt(k) => TooSlowFor(k)'
    BY <2>2 DEF TooSlowFor, ClosesAt
  <2> QED BY <1>1, <1>4, <2>1, <2>3
<1> QED BY <1>2, <1>3, <1>4, <1>5, <1>6, <1>7, <1>8, RefreshKeeps

(* Time passes; a bar that closes is announced while the stream is up.     *)
LEMMA TimeKeepsFeed == FeedInv /\ Tick => FeedInv'
<1> SUFFICES ASSUME FeedInv, Tick PROVE FeedInv'
  OBVIOUS
<1>0. HintsInv /\ KeptInv /\ LastInv /\ FedInv /\ JobFits /\ JobInTime /\ AnnouncedInv
  BY DEF FeedInv
<1>1. now \in Nat /\ Start \in Nat /\ now >= Start /\ Period \in Nat /\ Period > 0
  BY <1>0, NumbersAre
<1>2. now' = now + 1 /\ now' \in Nat /\ now' >= now
  BY <1>1 DEF Tick
<1>3. /\ fallback' = fallback /\ job' = job /\ last' = last /\ fed' = fed
      /\ refreshed' = refreshed /\ excused' = excused
  BY DEF Tick
<1>4. LastInv' /\ FedInv'
  BY <1>0, <1>1, <1>2, <1>3, FedStays
<1>5. KeptInv'
  BY <1>0, <1>1, <1>2, <1>3 DEF KeptInv
<1>6. JobFits' /\ JobInTime'
  <2>1. job.since \in Int /\ job.step # "candles" /\ TickTimeout \in Nat
    BY <1>0, NumbersAre, UnderWay DEF Tick
  <2>2. job.step \in Timed => now - job.since < TickTimeout
    BY DEF Tick, InTime, Timed
  <2> QED BY <1>0, <1>1, <1>2, <1>3, <2>1, <2>2 DEF JobFits, JobInTime
<1>7. ASSUME NEW k, job'.kind = "candle" /\ job'.ts = k, job'.step \in {"orders", "entry"}
      PROVE  last' >= k \/ TooSlowFor(k)'
  <2>1. last >= k \/ TooSlowFor(k)
    BY <1>0, <1>3, <1>7 DEF AnnouncedInv
  <2> QED BY <1>3, <2>1 DEF TooSlowFor, ClosesAt
<1>8. CASE Closing(now + 1) /\ stream = "up"
  <2>0. PICK n \in Int : n = Newest(now')
    BY <1>1, <1>2, NewestGrows
  <2>1. hints' = Insert(n, TRUE, now') /\ pending' = pending \cup {n}
    BY <1>2, <1>8, <2>0 DEF Tick
  <2>2. n \in Int /\ ClosesAt(n) = now' /\ Newest(now) \in Int
    BY <1>1, <1>2, <1>8, <2>0, ClosingIs, NewestGrows
  <2>3. Newest(now) < n
    <3>1. ~ClosedBy(n, now)
      BY <1>1, <1>2, <2>2 DEF ClosedBy, ClosesAt
    <3>2. ~(n <= Newest(now))
      BY <1>1, <2>2, <3>1, ClosedIs
    <3> QED BY <2>2, <3>2
  <2>4. now' = (n + 1) * Period
    BY <2>2 DEF ClosesAt
  <2>5. /\ HintsInv'
        /\ \A h \in hints' : (h \in hints /\ h.ts # n) \/ (h.ts = n /\ h.confirm = TRUE)
        /\ \A h \in hints : h.ts # n /\ now' - h.at <= MaxStale => h \in hints'
        /\ [ts |-> n, confirm |-> TRUE, at |-> now'] \in hints'
    BY <1>0, <1>2, <2>1, <2>2, <2>4, InsertFits
  <2>6. Announced(n)'
    <3>1. Unhidden(n)'
      BY <2>5 DEF Unhidden
    <3>2. ~(fallback' # NoRest /\ fallback'.at >= ClosesAt(n))
      BY <1>0, <1>1, <1>2, <1>3, <2>2 DEF KeptInv
    <3>3. n <= Newest(now')
      BY <2>0
    <3> QED BY <2>2, <2>5, <3>1, <3>2, <3>3 DEF Announced, ClosesAt
  <2>7. ASSUME NEW k, Announced(k) PROVE Announced(k)'
    <3>1. k \in Int /\ k # n
      BY <2>2, <2>3, <2>7 DEF Announced
    <3>2. \A h \in hints' : h \in hints \/ h.ts # k \/ h.confirm
      BY <2>5
    <3>3. \A h \in hints : h.ts = k /\ now' - h.at <= MaxStale => h \in hints'
      BY <2>5, <3>1
    <3>4. last' \in Int /\ last \in Int /\ last' >= last
      BY <1>0, <1>3 DEF LastInv
    <3> QED BY <1>0, <1>2, <1>3, <2>7, <3>2, <3>3, <3>4, AnnouncedStays
  <2>8. AnnouncedInv'
    <3>1. ASSUME NEW k \in pending' PROVE Announced(k)'
      <4>1. k = n \/ k \in pending
        BY <2>1
      <4> QED BY <1>0, <2>6, <2>7, <4>1 DEF AnnouncedInv
    <3>2. ASSUME NEW k, job'.kind = "candle" /\ job'.ts = k PROVE Announced(k)'
      BY <1>0, <1>3, <2>7, <3>2 DEF AnnouncedInv
    <3> QED BY <1>7, <3>1, <3>2 DEF AnnouncedInv
  <2> QED BY <1>4, <1>5, <1>6, <2>5, <2>8 DEF FeedInv
<1>9. CASE ~(Closing(now + 1) /\ stream = "up")
  <2>1. hints' = {h \in hints : now' - h.at <= MaxStale} /\ pending' = pending
    <3>1. hints' = {h \in hints : now + 1 - h.at <= MaxStale} /\ pending' = pending
      BY <1>9 DEF Tick
    <3>2. \A h \in hints : now + 1 - h.at <= MaxStale <=> now' - h.at <= MaxStale
      <4>1. \A h \in hints : h.at \in Nat
        BY <1>0 DEF HintsInv, HintFits
      <4> QED BY <1>1, <1>2, <4>1
    <3> QED BY <3>1, <3>2
  <2>2. HintsInv'
    BY <1>0, <1>2, <2>1, ExpiryFits
  <2>3. ASSUME NEW k, Announced(k) PROVE Announced(k)'
    <3>1. last' \in Int /\ last \in Int /\ last' >= last
      BY <1>0, <1>3 DEF LastInv
    <3>2. \A h \in hints' : h \in hints \/ h.ts # k \/ h.confirm
      BY <2>1
    <3>3. \A h \in hints : h.ts = k /\ now' - h.at <= MaxStale => h \in hints'
      BY <2>1
    <3> QED BY <1>0, <1>2, <1>3, <2>3, <3>1, <3>2, <3>3, AnnouncedStays
  <2>4. AnnouncedInv'
    BY <1>0, <1>3, <1>7, <2>1, <2>3 DEF AnnouncedInv
  <2> QED BY <1>4, <1>5, <1>6, <2>2, <2>4 DEF FeedInv
<1> QED BY <1>8, <1>9

(* An update of the open candle is about no announced bar.                 *)
LEMMA OpenCandleKeeps == FeedInv /\ UpdateCandle => FeedInv'
<1> SUFFICES ASSUME FeedInv, UpdateCandle PROVE FeedInv'
  OBVIOUS
<1>0. HintsInv /\ KeptInv /\ LastInv /\ FedInv /\ JobFits /\ JobInTime /\ AnnouncedInv
  BY DEF FeedInv
<1>1. /\ now' = now /\ fallback' = fallback /\ job' = job /\ last' = last /\ fed' = fed
      /\ refreshed' = refreshed /\ excused' = excused /\ pending' = pending
      /\ now \in Nat /\ now' \in Nat /\ now' >= now
  <2>1. now \in Nat /\ now' = now
    BY <1>0, NumbersAre DEF UpdateCandle
  <2> QED BY <2>1 DEF UpdateCandle
<1>2. PICK n \in Int : n = now \div Period
  BY <1>0, NumbersAre
<1>3. hints' = Insert(n, FALSE, now') /\ n = now' \div Period
  BY <1>1, <1>2 DEF UpdateCandle
<1>4. /\ HintsInv'
      /\ \A h \in hints' : (h \in hints /\ h.ts # n) \/ (h.ts = n /\ h.confirm = FALSE)
      /\ \A h \in hints : h.ts # n /\ now' - h.at <= MaxStale => h \in hints'
  BY <1>0, <1>1, <1>3, InsertFits
<1>5. LastInv' /\ FedInv'
  BY <1>0, <1>1, FedStays
<1>6. KeptInv' /\ JobFits' /\ JobInTime'
  BY <1>0, <1>1 DEF KeptInv, JobFits, JobInTime
<1>7. ASSUME NEW k, Announced(k) PROVE Announced(k)'
  <2>1. k # n
    <3>1. Newest(now) = n - 1
      BY <1>2 DEF Newest
    <3>2. k \in Int /\ k <= n - 1
      BY <1>7, <3>1 DEF Announced
    <3> QED BY <1>2, <3>2
  <2>2. \A h \in hints' : h \in hints \/ h.ts # k \/ h.confirm
    BY <1>4, <2>1
  <2>3. \A h \in hints : h.ts = k /\ now' - h.at <= MaxStale => h \in hints'
    BY <1>4, <2>1
  <2>4. last' \in Int /\ last \in Int /\ last' >= last
    BY <1>0, <1>1 DEF LastInv
  <2> QED BY <1>0, <1>1, <1>7, <2>2, <2>3, <2>4, AnnouncedStays
<1>8. AnnouncedInv'
  BY <1>0, <1>1, <1>7 DEF AnnouncedInv, TooSlowFor, ClosesAt
<1> QED BY <1>4, <1>5, <1>6, <1>8 DEF FeedInv

(* The steps that move the candle announced and the dispatch under way,    *)
(* and touch neither hints nor what was fed.                               *)
LEMMA DispatchKeeps ==
    ASSUME FeedInv,
           now' = now, hints' = hints, last' = last, fed' = fed, refreshed' = refreshed,
           excused' = excused, fallback' \in {fallback, NoRest}, JobFits', JobInTime',
           pending' \subseteq pending,
           job'.kind = "candle" =>
             (job.kind = "candle" /\ job'.ts = job.ts) \/ job'.ts \in pending,
           job'.kind = "candle" /\ job'.step \in {"orders", "entry"} =>
             /\ job.kind = "candle" /\ job'.ts = job.ts
             /\ job.step \in {"orders", "entry"} /\ fallback' = fallback
    PROVE  FeedInv'
<1>0. HintsInv /\ KeptInv /\ LastInv /\ FedInv /\ JobFits /\ JobInTime /\ AnnouncedInv
  BY DEF FeedInv
<1>1. now \in Nat /\ now' \in Nat /\ now' >= now
  BY <1>0, NumbersAre
<1>2. HintsInv' /\ LastInv' /\ FedInv'
  BY <1>0, <1>1, HintsStay, FedStays
<1>3. KeptInv'
  BY <1>0 DEF KeptInv
<1>4. ASSUME NEW k, Announced(k) PROVE Announced(k)'
  <2>1. last' \in Int /\ last \in Int /\ last' >= last
    BY <1>0 DEF LastInv
  <2> QED BY <1>0, <1>1, <1>4, <2>1, AnnouncedStays
<1>5. AnnouncedInv'
  <2>1. ASSUME NEW k \in pending' PROVE Announced(k)'
    <3>1. k \in pending
      BY <2>1
    <3> QED BY <1>0, <1>4, <3>1 DEF AnnouncedInv
  <2>2. ASSUME NEW k, job'.kind = "candle" /\ job'.ts = k PROVE Announced(k)'
    <3>1. CASE job.kind = "candle" /\ job'.ts = job.ts
      BY <1>0, <1>4, <2>2, <3>1 DEF AnnouncedInv
    <3>2. CASE job'.ts \in pending
      BY <1>0, <1>4, <2>2, <3>2 DEF AnnouncedInv
    <3> QED BY <2>2, <3>1, <3>2
  <2>3. ASSUME NEW k, job'.kind = "candle" /\ job'.ts = k, job'.step \in {"orders", "entry"}
        PROVE  last' >= k \/ TooSlowFor(k)'
    <3>1. job.kind = "candle" /\ job.ts = k /\ job.step \in {"orders", "entry"} /\ fallback' = fallback
      BY <2>3
    <3>2. last >= k \/ TooSlowFor(k)
      BY <1>0, <3>1 DEF AnnouncedInv
    <3> QED BY <3>1, <3>2 DEF TooSlowFor, ClosesAt
  <2> QED BY <2>1, <2>2, <2>3 DEF AnnouncedInv
<1> QED BY <1>2, <1>3, <1>5, JobFits', JobInTime' DEF FeedInv

(* A handler that ends leaves the engine idle or with the strategies after *)
(* this one.                                                               *)
LEMMA EndIs ==
    ASSUME job' \in {NoJob, OtherWork}
    PROVE  /\ JobFits' /\ JobInTime' /\ job'.kind # "candle"
<1>1. CASE job' = NoJob
  BY <1>1 DEF NoJob, JobFits, JobInTime, Kinds, Steps, Timed
<1>2. CASE job' = OtherWork
  BY <1>2 DEF OtherWork, JobFits, JobInTime, Kinds, Steps, Timed
<1> QED BY <1>1, <1>2

(* Every step keeps the invariant.                                         *)
LEMMA FeedStep == FeedInv /\ [FeedNext]_feedVars => FeedInv'
<1> SUFFICES ASSUME FeedInv, [FeedNext]_feedVars PROVE FeedInv'
  OBVIOUS
<1>0. JobFits /\ JobInTime /\ AnnouncedInv /\ now \in Nat /\ TickTimeout \in Nat /\ now - now = 0
  BY NumbersAre DEF FeedInv
<1>j. /\ job.kind \in Kinds /\ job.step \in Steps /\ job.ts \in Int /\ job.since \in Int
      /\ job.step # "none" => job.kind # "none"
  BY <1>0, UnderWay
<1>1. CASE Tick
  BY <1>1, TimeKeepsFeed
<1>2. CASE UpdateCandle
  BY <1>2, OpenCandleKeeps
<1>3. CASE Down \/ Up \/ DeferNewest \/ UNCHANGED feedVars
  <2>1. /\ now' = now /\ hints' = hints /\ last' = last /\ fed' = fed /\ refreshed' = refreshed
        /\ excused' = excused /\ fallback' = fallback /\ pending' \subseteq pending /\ job' = job
    BY <1>3 DEF Down, Up, DeferNewest, feedVars
  <2>2. JobFits' /\ JobInTime'
    BY <1>0, <2>1 DEF JobFits, JobInTime
  <2> QED BY <2>1, <2>2, DispatchKeeps
<1>4. CASE OnTimer \/ OnOtherEvent \/ OthersEnd \/ CallFails \/ HandlerEnds
  <2>1. /\ now' = now /\ hints' = hints /\ last' = last /\ fed' = fed /\ refreshed' = refreshed
        /\ excused' = excused /\ fallback' = fallback /\ pending' = pending
    BY <1>4 DEF OnTimer, OnOtherEvent, OthersEnd, CallFails, HandlerEnds
  <2>2. JobFits' /\ JobInTime' /\ job'.kind # "candle"
    <3>1. CASE job' \in {NoJob, OtherWork}
      BY <3>1, EndIs
    <3>2. CASE job' = [kind |-> "timer", ts |-> -1, step |-> "ahead", since |-> now]
      BY <1>0, <3>2 DEF JobFits, JobInTime, Kinds, Steps, Timed
    <3> QED BY <1>4, <3>1, <3>2 DEF OnTimer, OnOtherEvent, OthersEnd, CallFails, HandlerEnds, Ended
  <2> QED BY <2>1, <2>2, DispatchKeeps
<1>5. CASE OnConfirmedCandle
  <2>1. PICK k \in pending : /\ job' = [kind |-> "candle", ts |-> k, step |-> "candles", since |-> now]
                             /\ pending' = pending \ {k}
    BY <1>5 DEF OnConfirmedCandle
  <2>2. k \in Int
    BY <1>0 DEF AnnouncedInv, Announced
  <2>3. JobFits' /\ JobInTime' /\ job'.ts = k /\ job'.step = "candles"
    <3>1. now' = now
      BY <1>5 DEF OnConfirmedCandle
    <3> QED BY <1>0, <2>1, <2>2, <3>1 DEF JobFits, JobInTime, Kinds, Steps, Timed
  <2>4. /\ now' = now /\ hints' = hints /\ last' = last /\ fed' = fed /\ refreshed' = refreshed
        /\ excused' = excused /\ fallback' = fallback /\ pending' \subseteq pending
    BY <1>5, <2>1 DEF OnConfirmedCandle
  <2> QED BY <2>3, <2>4, DispatchKeeps
<1>6. CASE FromCache
  BY <1>6, CandleAnswersKeep
<1>7. CASE AskRest
  <2>1. job' = [job EXCEPT !.step = "rest"] /\ job.step = "candles"
    BY <1>7 DEF AskRest
  <2>2. /\ JobFits' /\ job'.kind = job.kind /\ job'.ts = job.ts /\ job'.since = job.since
        /\ job'.step = "rest"
    <3>1. job.kind # "none" /\ "rest" \in Steps
      BY <1>j, <2>1 DEF Steps
    <3> QED BY <1>0, <2>1, <3>1, StepIs
  <2>3. /\ now' = now /\ hints' = hints /\ last' = last /\ fed' = fed /\ refreshed' = refreshed
        /\ excused' = excused /\ fallback' = NoRest /\ pending' = pending
    BY <1>7 DEF AskRest
  <2>4. JobInTime'
    BY <1>0, <2>1, <2>2, <2>3 DEF JobInTime
  <2> QED BY <2>2, <2>3, <2>4, DispatchKeeps
<1>8. CASE RestAnswers
  BY <1>8, RestAnswersKeep
<1>9. CASE TurnComes \/ TimesOut
  <2>1. /\ now' = now /\ hints' = hints /\ last' = last /\ fed' = fed /\ refreshed' = refreshed
        /\ excused' = excused /\ fallback' = fallback /\ pending' = pending
    BY <1>9 DEF TurnComes, TimesOut
  <2>2. PICK s \in {"candles", "reconcile"} :
               job' = [kind |-> job.kind, ts |-> job.ts, step |-> s, since |-> now]
    BY <1>9 DEF TurnComes, TimesOut
  <2>3. job.kind # "none"
    BY <1>9, <1>j DEF TurnComes, TimesOut
  <2>4. JobFits' /\ JobInTime' /\ job'.kind = job.kind /\ job'.ts = job.ts
        /\ job'.step \notin {"orders", "entry"}
    BY <1>0, <1>j, <2>1, <2>2, <2>3 DEF JobFits, JobInTime, Kinds, Steps, Timed
  <2> QED BY <2>1, <2>4, DispatchKeeps
<1>10. CASE OrdersDone
  <2>1. /\ now' = now /\ hints' = hints /\ last' = last /\ fed' = fed /\ refreshed' = refreshed
        /\ excused' = excused /\ fallback' = fallback /\ pending' = pending /\ job.step = "orders"
    BY <1>10 DEF OrdersDone
  <2>2. CASE job.kind = "candle"
    <3>1. job' = [job EXCEPT !.step = "entry"]
      BY <1>10, <2>2 DEF OrdersDone
    <3>2. /\ JobFits' /\ job'.kind = job.kind /\ job'.ts = job.ts /\ job'.since = job.since
          /\ job'.step = "entry"
      <4>1. "entry" \in Steps
        BY DEF Steps
      <4> QED BY <1>0, <2>2, <3>1, <4>1, StepIs
    <3>3. JobInTime'
      BY <1>0, <2>1, <3>2 DEF JobInTime, Timed
    <3> QED BY <2>1, <2>2, <3>2, <3>3, DispatchKeeps
  <2>3. CASE job.kind # "candle"
    <3>1. job' \in {NoJob, OtherWork}
      BY <1>10, <2>3 DEF OrdersDone, Ended
    <3>2. JobFits' /\ JobInTime' /\ job'.kind # "candle"
      BY <3>1, EndIs
    <3> QED BY <2>1, <3>2, DispatchKeeps
  <2> QED BY <2>2, <2>3
<1> QED BY <1>1, <1>2, <1>3, <1>4, <1>5, <1>6, <1>7, <1>8, <1>9, <1>10 DEF FeedNext, Engine

(* So it holds throughout.                                                 *)
LEMMA FeedHolds == FeedSpec => []FeedInv
BY StartIsGood, FeedStep, PTL DEF FeedSpec

(* The least of an interval is its lower end.                              *)
LEMMA IntervalIs ==
    ASSUME NEW m \in Int, NEW n \in Int, m <= n
    PROVE  Min(m .. n) = m
<1>1. m \in m .. n /\ \A x \in m .. n : m <= x
  OBVIOUS
<1>2. \A y \in m .. n : (\A x \in m .. n : y <= x) => y = m
  OBVIOUS
<1> QED BY <1>1, <1>2 DEF Min

(* The signal is fed every bar once, none left out behind a newer one,     *)
(* unless two refreshes were too far apart (refresh_bars on live_candles'  *)
(* answer).                                                                *)
THEOREM BarsAreFedInOrder == FeedSpec => []NoBarSkipped
<1>1. FeedInv => NoBarSkipped
  <2> SUFFICES ASSUME FeedInv, ~excused PROVE fed = Min(fed) .. last
    BY DEF NoBarSkipped
  <2>1. last \in Int
    BY DEF FeedInv, LastInv
  <2>2. PICK m \in Int : m <= last /\ fed = m .. last
    BY DEF FeedInv, FedInv
  <2>3. Min(m .. last) = m
    BY <2>1, <2>2, IntervalIs
  <2> QED BY <2>2, <2>3
<1> QED BY <1>1, FeedHolds, PTL

(* When an entry is evaluated for an announced candle, the signal has been *)
(* fed it (on_candle: refresh_bars before evaluate_entry), whatever the    *)
(* answer came from and however long the orders took, except on an answer  *)
(* under way from before the close until the hint had expired.             *)
THEOREM EntriesSeeTheirBar == FeedSpec => []EntrySeesItsBar
<1>1. FeedInv => EntrySeesItsBar
  BY DEF FeedInv, JobFits, AnnouncedInv, EntrySeesItsBar
<1> QED BY <1>1, FeedHolds, PTL

(* A refresh leaves no bar out that closed as long before it as a hint is  *)
(* fresh, a call may take and REST may trail.                              *)
THEOREM RefreshesFeedBarsOnTime == FeedSpec => BarsOnTime
<1>1. FeedInv /\ [FeedNext]_feedVars =>
        [refreshed' # refreshed \/ last' # last
         => last' >= Newest(now - MaxStale - Lag - TickTimeout)]_feedVars
  <2> SUFFICES ASSUME FeedInv, [FeedNext]_feedVars, refreshed' # refreshed \/ last' # last
               PROVE  last' >= Ripe(now)
    BY DEF Ripe
  <2>1. CASE FromCache
    BY <2>1, CandleAnswersKeep
  <2>2. CASE RestAnswers
    BY <2>2, RestAnswersKeep
  <2>3. CASE ~FromCache /\ ~RestAnswers
    <3>1. refreshed' = refreshed /\ last' = last
      BY <2>3 DEF FeedNext, Engine, feedVars, Tick, UpdateCandle, Down, Up, OnTimer, TurnComes,
                  OnConfirmedCandle, DeferNewest, OnOtherEvent, OthersEnd, AskRest, CallFails,
                  TimesOut, OrdersDone, HandlerEnds
    <3> QED BY <3>1
  <2> QED BY <2>1, <2>2, <2>3
<1> QED BY <1>1, FeedHolds, PTL DEF FeedSpec, BarsOnTime

-----------------------------------------------------------------------------
(* The hints are as many as the bars they are about.                       *)
LEMMA OneHintPerBar ==
    ASSUME HintsInv
    PROVE  Cardinality({h.ts : h \in hints}) = Cardinality(hints)
<1> DEFINE n == now \div Period
           T == {h.ts : h \in hints}
           f == [k \in T |-> CHOOSE h \in hints : h.ts = k]
<1>1. n \in Nat
  BY NumbersAre
<1>2. ASSUME NEW h \in hints PROVE h.ts \in n - 2 .. n
  <2>1. h.confirm \in BOOLEAN
    BY DEF HintsInv, HintFits
  <2>2. /\ h.confirm => h.ts \in n - 2 .. n - 1
        /\ ~h.confirm => h.ts \in n - 1 .. n
    BY HintBars
  <2> HIDE DEF n
  <2> QED BY <1>1, <2>1, <2>2
<1>3. IsFiniteSet(T)
  <2>1. T \subseteq n - 2 .. n
    BY <1>2
  <2>2. IsFiniteSet(n - 2 .. n)
    <3> HIDE DEF n
    <3> QED BY <1>1, FS_Interval
  <2> QED BY <2>1, <2>2, FS_Subset
<1>4. \A k \in T : f[k] \in hints /\ f[k].ts = k
  OBVIOUS
<1>5. f \in [T -> hints]
  BY <1>4
<1>6. \A h \in hints : h.ts \in T /\ f[h.ts] = h
  BY <1>4 DEF HintsInv, OneRowEach
<1> HIDE DEF f, T
<1>7. f \in Bijection(T, hints)
  <2>1. \A a, b \in T : f[a] = f[b] => a = b
    BY <1>4
  <2>2. \A h \in hints : \E a \in T : f[a] = h
    BY <1>6
  <2> QED BY <1>5, <2>1, <2>2, Fun_IsBij
<1>8. ExistsBijection(T, hints)
  BY <1>7 DEF ExistsBijection
<1>9. Cardinality(hints) = Cardinality(T)
  BY <1>3, <1>8, FS_Bijection
<1> QED BY <1>9 DEF T

(* The clock stays within its bound, and the stream is up or down.         *)
ClockInv == now <= MaxTime /\ stream \in {"up", "down"}

LEMMA ClockHolds == FeedSpec => []ClockInv
<1>1. FeedInit => ClockInv
  <2>1. Start <= MaxTime
    BY FeedAssumption
  <2> QED BY <2>1 DEF FeedInit, ClockInv
<1>2. FeedInv /\ ClockInv /\ [FeedNext]_feedVars => ClockInv'
  <2> SUFFICES ASSUME FeedInv, ClockInv, [FeedNext]_feedVars PROVE ClockInv'
    OBVIOUS
  <2>1. CASE Tick
    <3>1. now \in Nat /\ MaxTime \in Nat
      BY FeedAssumption, NumbersAre DEF FeedInv
    <3> QED BY <2>1, <3>1 DEF Tick, ClockInv
  <2>2. CASE ~Tick
    <3>1. now' = now /\ stream' \in {stream, "up", "down"}
      BY <2>2 DEF FeedNext, Engine, feedVars, UpdateCandle, Down, Up, OnTimer, TurnComes,
                  OnConfirmedCandle, DeferNewest, OnOtherEvent, OthersEnd, FromCache, AskRest,
                  RestAnswers, CallFails, TimesOut, OrdersDone, HandlerEnds
    <3> QED BY <3>1 DEF ClockInv
  <2> QED BY <2>1, <2>2
<1> QED BY <1>1, <1>2, FeedHolds, PTL DEF FeedSpec

(* Every variable of the feed has its type, at any length of run.          *)
THEOREM FeedTypes == FeedSpec => []FeedTypeOK
<1>1. FeedInv /\ ClockInv => FeedTypeOK
  <2> SUFFICES ASSUME FeedInv, ClockInv PROVE FeedTypeOK
    OBVIOUS
  <2>0. HintsInv /\ KeptInv /\ LastInv /\ FedInv /\ JobFits /\ JobInTime
    BY DEF FeedInv
  <2>1. now \in Start .. MaxTime
    <3>1. MaxTime \in Nat
      BY FeedAssumption
    <3> QED BY <2>0, <3>1, NumbersAre DEF ClockInv
  <2>2. /\ \A h \in hints : now - h.at <= MaxStale
        /\ Cardinality({h.ts : h \in hints}) = Cardinality(hints)
    BY <2>0, OneHintPerBar DEF HintsInv, HintFits
  <2>3. fallback = NoRest \/ fallback.at - fallback.asof <= Lag + TickTimeout
    BY <2>0, NumbersAre DEF KeptInv
  <2>4. /\ job.kind \in {"none", "timer", "candle", "other"}
        /\ job.step \in {"none", "ahead", "candles", "rest", "orders", "entry", "reconcile", "others"}
        /\ job.step \in {"rest", "orders", "entry", "reconcile"} => now - job.since <= TickTimeout
    BY <2>0 DEF JobFits, Kinds, Steps, JobInTime, Timed
  <2> QED BY <2>0, <2>1, <2>2, <2>3, <2>4 DEF FeedTypeOK, ClockInv, FedInv
<1> QED BY <1>1, FeedHolds, ClockHolds, PTL

=============================================================================
