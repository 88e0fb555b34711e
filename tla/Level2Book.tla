----------------------------- MODULE Level2Book -----------------------------
(***************************************************************************)
(* The Level-2 order book of one instrument: what OKX publishes on the     *)
(* books channel, the validation of a message (okx-public-protocol), the   *)
(* book that the public stream keeps (okx-market-model/level2.rs, through  *)
(* OkxMarketDataCache of okx/websocket.rs), the watch channel from the     *)
(* stream to the engine (okx/websocket/runtime_event.rs), and the replay   *)
(* book (okx-market-model/replay_book.rs) of a recorder that listens to    *)
(* the same stream.                                                        *)
(*                                                                         *)
(* OKX numbers its books 1, 2, ... and describes book i by a snapshot or   *)
(* by an update from book i - 1.  Whatever it ever sent may arrive at any  *)
(* time, again, or never.  A side of a book gives every price its          *)
(* quantity, 0 where there is no level.                                    *)
(***************************************************************************)
EXTENDS Integers, Sequences, FiniteSets

CONSTANTS
    Prices,     \* the prices of the instrument
    Depth,      \* OKX_LEVEL2_MAX_DEPTH
    Window,     \* ROLLING_FEATURE_WINDOW
    Books,      \* the books OKX may publish
    BadBooks,   \* crossed, one-sided or too deep books OKX may send by error
    MaxSeq,     \* bound: books published
    MaxFaults   \* bound: messages out of order or defective, and lost streams

ASSUME PricesAssumption == Prices \subseteq Nat \ {0} /\ IsFiniteSet(Prices)
ASSUME DepthAssumption == Depth \in Nat \ {0}
ASSUME WindowAssumption == Window \in Nat \ {0}
ASSUME BoundsAssumption == MaxSeq \in Nat \ {0} /\ MaxFaults \in Nat

VARIABLES
    market,     \* the books OKX has published, the i-th with seqId i
    book,       \* OkxLevel2Book
    points,     \* rolling.points, by the epoch each was computed in
    session,    \* the public stream: "up", "failed" (not yet invalidated), "down"
    fromHere,   \* history: a snapshot came in this session
    watch,      \* the coalescing watch channel to the engine
    seen,       \* the event the engine last took from it
    produced,   \* market_events_produced
    coalesced,  \* market_events_coalesced
    taken,      \* history: events the engine took
    replay,     \* replay_book's OrderBook
    faults      \* faults so far

vars == <<market, book, points, session, fromHere, watch, seen, produced,
          coalesced, taken, replay, faults>>

Side == [Prices -> Nat]
NoLevels == [p \in Prices |-> 0]
Levels(side) == {p \in Prices : side[p] > 0}

NoSeq == 0      \* sequence_id: None
NoEvent == [event |-> 0, epoch |-> 0, generation |-> 0, seq |-> NoSeq]

-----------------------------------------------------------------------------
(* Messages.  A level of a message is a quantity, 0 to remove the level,   *)
(* or Keep where the message does not mention the price.                   *)

Keep == -1

Message(action, bids, asks, prev, seq) ==
    [action |-> action, bids |-> bids, asks |-> asks, prev |-> prev, seq |-> seq]

Worse(bids, p, q) == IF bids THEN p < q ELSE p > q

(* Levels that fell out of the published depth: OKX may leave out their    *)
(* removal.                                                                *)
PushedOut(old, new, bids) ==
    {p \in Levels(old) \ Levels(new) :
        /\ Cardinality(Levels(new)) = Depth
        /\ \A q \in Levels(new) : Worse(bids, p, q)}

Diff(old, new, silent) ==
    [p \in Prices |-> IF new[p] = old[p] \/ p \in silent THEN Keep ELSE new[p]]

Empty == [p \in Prices |-> Keep]

Snapshot(b, i) == Message("snapshot", b.bids, b.asks, -1, i)

(* The update from book old to book b; tell: every removal is spelled out. *)
Update(old, b, prev, i, tell) ==
    Message("update",
            Diff(old.bids, b.bids, IF tell THEN {} ELSE PushedOut(old.bids, b.bids, TRUE)),
            Diff(old.asks, b.asks, IF tell THEN {} ELSE PushedOut(old.asks, b.asks, FALSE)),
            prev, i)

Heartbeat(i) == Message("update", Empty, Empty, i, i)

-----------------------------------------------------------------------------
(* OkxLevel2Book.                                                          *)

NewBook == [bids |-> NoLevels, asks |-> NoLevels, valid |-> FALSE, epoch |-> 0,
            generation |-> 0, seq |-> NoSeq]

(* validate_book *)
Sound(b) ==
    /\ Levels(b.bids) # {} /\ Levels(b.asks) # {}
    /\ \A p \in Levels(b.bids), q \in Levels(b.asks) : p < q

WithinDepth(b) ==
    Cardinality(Levels(b.bids)) <= Depth /\ Cardinality(Levels(b.asks)) <= Depth

(* A book of OKX's can be validated, one sent by error cannot. *)
ASSUME BooksAssumption ==
    /\ Books \cup BadBooks \subseteq [bids : Side, asks : Side]
    /\ \A b \in Books : Sound(b) /\ WithinDepth(b)
    /\ \A b \in BadBooks : ~(Sound(b) /\ WithinDepth(b))

(* Bug: the counters start again. *)
InvalidatedAfresh(b) ==
    [b EXCEPT !.bids = NoLevels, !.asks = NoLevels, !.valid = FALSE, !.seq = NoSeq,
              !.generation = 0]

(* invalidate *)
Invalidated(b) ==
    [b EXCEPT !.bids = NoLevels, !.asks = NoLevels, !.valid = FALSE, !.seq = NoSeq]

(* apply_side: the levels, and whether a removal hit no level *)
Merged(side, change) == [p \in Prices |-> IF change[p] = Keep THEN side[p] ELSE change[p]]
UnknownRemoval(side, change) == \E p \in Prices : change[p] = 0 /\ side[p] = 0

(* trim_to_depth: the worst levels go first *)
Trimmed(side, bids) ==
    LET levels == Levels(side)
    IN IF Cardinality(levels) <= Depth THEN side
       ELSE [p \in Prices |->
                IF Cardinality({q \in levels : Worse(bids, p, q)}) < Depth THEN side[p] ELSE 0]

(* build_snapshot_side and the checks of apply_snapshot *)
SnapshotAccepted(m) == WithinDepth(m) /\ Sound(m)

AfterSnapshot(b, m) ==
    [bids |-> m.bids, asks |-> m.asks, valid |-> TRUE, epoch |-> b.epoch + 1,
     generation |-> b.generation + 1, seq |-> m.seq]

IsHeartbeat(b, m) ==
    m.bids = Empty /\ m.asks = Empty /\ m.seq = b.seq /\ m.prev = b.seq

(* The book the update makes, before it is validated. *)
AfterUpdate(b, m) ==
    [b EXCEPT !.bids = Trimmed(Merged(@, m.bids), TRUE),
              !.asks = Trimmed(Merged(@, m.asks), FALSE),
              !.generation = @ + 1,
              !.seq = m.seq]

(* Bug: only an update that follows the current book with a gap is         *)
(* refused, not one that repeats or goes back.                             *)
UpdateAcceptedOld(b, m) ==
    /\ m.prev <= b.seq
    /\ ~UnknownRemoval(b.bids, m.bids) /\ ~UnknownRemoval(b.asks, m.asks)
    /\ Sound(AfterUpdate(b, m))

(* apply_increment: neither a gap, nor a regression, nor an inconsistent   *)
(* side                                                                    *)
UpdateAccepted(b, m) ==
    /\ m.prev = b.seq
    /\ m.seq > b.seq
    /\ ~UnknownRemoval(b.bids, m.bids) /\ ~UnknownRemoval(b.asks, m.asks)
    /\ Sound(AfterUpdate(b, m))

-----------------------------------------------------------------------------
(* The replay book of the recorder.  It has no sequence check of its own:  *)
(* its owner applies what the stream accepted and marks it untrusted when  *)
(* the stream refused a message or was lost.                               *)

NewReplay == [bids |-> NoLevels, asks |-> NoLevels, trusted |-> FALSE,
              hasSnapshot |-> FALSE, seq |-> NoSeq]

Levelled(r, m) ==
    IF m.action = "snapshot" THEN [bids |-> m.bids, asks |-> m.asks]
    ELSE [bids |-> Merged(r.bids, m.bids), asks |-> Merged(r.asks, m.asks)]

(* OrderBook::apply: apply_levels, finish_apply *)
Replayed(r, m) ==
    LET b == Levelled(r, m)
        has == m.action = "snapshot" \/ r.hasSnapshot
    IN [bids |-> b.bids, asks |-> b.asks, hasSnapshot |-> has, seq |-> m.seq,
        trusted |-> /\ m.action = "snapshot" \/ (r.trusted /\ has)
                    /\ WithinDepth(b) /\ Sound(b)]

(* OrderBook::mark_untrusted, by a recorder that goes on listening, or     *)
(* OrderBook::reset, by one that starts an epoch                           *)
Distrusted(r) == {[r EXCEPT !.trusted = FALSE], NewReplay}

-----------------------------------------------------------------------------
(* The stream: a message that was received is parsed and applied, and what *)
(* it made is reported (apply_public_market_data_message_and_report).      *)

(* report_level2: the newest event replaces the one not yet taken. *)
Report(b) ==
    /\ produced' = produced + 1
    /\ watch' = [event |-> produced + 1, epoch |-> b.epoch,
                 generation |-> b.generation, seq |-> b.seq]

(* rolling_features: the oldest point goes when the window is full. *)
Rolled(before, b) ==
    IF Len(before) >= Window THEN Append(Tail(before), b.epoch) ELSE Append(before, b.epoch)

(* The message is applied: finish_features, then the report. *)
Accept(m) ==
    LET b == IF m.action = "snapshot" THEN AfterSnapshot(book, m) ELSE AfterUpdate(book, m)
    IN /\ book' = b
       /\ points' = Rolled(IF m.action = "snapshot" THEN <<>> ELSE points, b)
       /\ fromHere' = (m.action = "snapshot" \/ fromHere)
       /\ replay' = Replayed(replay, m)
       /\ Report(b)
       /\ UNCHANGED session

(* Bug: the stream goes on and waits for a snapshot. *)
RefuseSilently ==
    /\ book' = Invalidated(book)
    /\ points' = <<>>
    /\ replay' \in Distrusted(replay)
    /\ UNCHANGED <<session, fromHere, watch, produced>>

(* Any error of the book invalidates it (an update before a snapshot finds *)
(* it invalid already) and ends the stream.                                *)
Refuse ==
    /\ book' = Invalidated(book)
    /\ points' = <<>>
    /\ session' = "failed"
    /\ replay' \in Distrusted(replay)
    /\ UNCHANGED <<fromHere, watch, produced>>

(* apply_snapshot and apply_increment, up to what they decide *)
Verdict(b, m) ==
    CASE m.action = "snapshot" /\ SnapshotAccepted(m) -> "accept"
      [] m.action = "update" /\ b.valid /\ IsHeartbeat(b, m) -> "heartbeat"
      [] m.action = "update" /\ b.valid /\ ~IsHeartbeat(b, m) /\ UpdateAccepted(b, m) -> "accept"
      [] OTHER -> "refuse"

(* OkxLevel2Book::apply_with_clock *)
Apply(m) ==
    LET verdict == Verdict(book, m)
    IN \/ verdict = "accept" /\ Accept(m)
       \/ verdict = "refuse" /\ Refuse
       \/ /\ verdict = "heartbeat"
          /\ UNCHANGED <<book, points, session, fromHere, watch, produced, replay>>

Others == UNCHANGED <<market, seen, coalesced, taken>>

(* What OKX owes a subscription: the current book once, then every update. *)
Due(tell) ==
    IF fromHere
    THEN Update(market[book.seq], market[book.seq + 1], book.seq, book.seq + 1, tell)
    ELSE Snapshot(market[Len(market)], Len(market))

InOrder(tell) ==
    /\ session = "up"
    /\ fromHere => book.valid /\ book.seq < Len(market)
    /\ Apply(Due(tell))
    /\ UNCHANGED faults /\ Others

(* Lost, repeated, reordered: any message OKX may have sent at any time. *)
OutOfOrder ==
    /\ session = "up" /\ faults < MaxFaults
    /\ \/ \E i \in 1 .. Len(market) : Apply(Snapshot(market[i], i)) \/ Apply(Heartbeat(i))
       \/ \E i \in 2 .. Len(market), tell \in BOOLEAN :
             Apply(Update(market[i - 1], market[i], i - 1, i, tell))
    /\ faults' = faults + 1 /\ Others

(* A message whose content is not a book of OKX: a bad snapshot, an update *)
(* into a bad book or one with a sequence id that does not advance.        *)
Defective ==
    /\ session = "up" /\ faults < MaxFaults
    /\ \E i \in 1 .. Len(market) :
          \/ \E b \in BadBooks : Apply(Snapshot(b, i))
          \/ \E b \in BadBooks :
                /\ ~Sound([bids |-> Trimmed(b.bids, TRUE), asks |-> Trimmed(b.asks, FALSE)])
                /\ Apply(Update(market[i], b, i, i + 1, TRUE))
          \/ \E b \in Books, j \in 1 .. i :
                b # market[i] /\ Apply(Update(market[i], b, i, j, TRUE))
    /\ faults' = faults + 1 /\ Others

(* A message of another instrument, channel or action, with several rows,  *)
(* a bad level or a price twice on a side (parse_books_message), and every *)
(* other end of the connection: the stream fails, the book is not touched. *)
StreamLost ==
    /\ session = "up" /\ faults < MaxFaults
    /\ session' = "failed"
    /\ replay' \in Distrusted(replay)
    /\ faults' = faults + 1
    /\ UNCHANGED <<book, points, fromHere, watch, produced>> /\ Others

(* run_public_market_stream: after the report of the outcome *)
InvalidateForReconnect ==
    /\ session = "failed"
    /\ session' = "down"
    /\ book' = Invalidated(book)
    /\ points' = <<>>
    /\ UNCHANGED <<fromHere, watch, produced, replay, faults>> /\ Others

Reconnect ==
    /\ session = "down"
    /\ session' = "up"
    /\ fromHere' = FALSE
    /\ UNCHANGED <<book, points, watch, produced, replay, faults>> /\ Others

-----------------------------------------------------------------------------
(* level2_runtime_event_decision and record_market_event_dispatched *)
Take ==
    /\ watch # seen
    /\ seen' = watch
    /\ taken' = taken + 1
    /\ coalesced' = coalesced + (IF watch.event > seen.event + 1
                                 THEN watch.event - seen.event - 1 ELSE 0)
    /\ UNCHANGED <<market, book, points, session, fromHere, watch, produced, replay, faults>>

(* OKX publishes another book. *)
Publish ==
    /\ Len(market) < MaxSeq
    /\ \E b \in Books : b # market[Len(market)] /\ market' = Append(market, b)
    /\ UNCHANGED <<book, points, session, fromHere, watch, seen, produced, coalesced,
                   taken, replay, faults>>

Init ==
    /\ \E b \in Books : market = <<b>>
    /\ book = NewBook /\ points = <<>>
    /\ session = "up" /\ fromHere = FALSE
    /\ watch = NoEvent /\ seen = NoEvent
    /\ produced = 0 /\ coalesced = 0 /\ taken = 0
    /\ replay = NewReplay
    /\ faults = 0

Next ==
    \/ Publish \/ (\E tell \in BOOLEAN : InOrder(tell)) \/ OutOfOrder \/ Defective \/ StreamLost
    \/ InvalidateForReconnect \/ Reconnect \/ Take

Spec == Init /\ [][Next]_vars

(* The stream task always goes on, and OKX delivers on a subscribed        *)
(* connection.                                                             *)
FairSpec ==
    /\ Spec
    /\ WF_vars(InOrder(TRUE)) /\ WF_vars(InvalidateForReconnect) /\ WF_vars(Reconnect)
    /\ WF_vars(Take)

-----------------------------------------------------------------------------
(* Properties.                                                             *)

(* Types, and the book is empty exactly when it is invalid (invalidate). *)
TypeOK ==
    /\ market \in Seq(Books) /\ Len(market) \in 1 .. MaxSeq
    /\ book \in [bids : Side, asks : Side, valid : BOOLEAN, epoch : Nat,
                 generation : Nat, seq : Nat]
    /\ book.valid <=> book.seq # NoSeq
    /\ Len(points) <= Window
    /\ session \in {"up", "failed", "down"} /\ fromHere \in BOOLEAN
    /\ book.epoch <= book.generation
    /\ faults \in 0 .. MaxFaults

(* A valid book is the very book that OKX published under its sequence id, *)
(* whatever was lost, repeated, reordered or defective on the way, also    *)
(* when OKX leaves out the removal of the levels that fell out of its      *)
(* depth (apply_increment, trim_to_depth).                                 *)
BookIsTruth ==
    book.valid => /\ book.seq <= Len(market)
                  /\ market[book.seq].bids = book.bids
                  /\ market[book.seq].asks = book.asks

(* A replay book that is still trusted holds that book too, although it    *)
(* neither checks sequence ids nor trims (replay_book.rs).                 *)
ReplayIsTruth ==
    replay.trusted => /\ replay.seq \in 1 .. Len(market)
                      /\ market[replay.seq].bids = replay.bids
                      /\ market[replay.seq].asks = replay.asks

(* No book that its owner trusts, in the runtime or in a replay, was ever  *)
(* anything but a book of OKX's.                                           *)
TrustedBooksAreTrue == BookIsTruth /\ ReplayIsTruth

(* A book never survives its connection: while the stream receives, it is  *)
(* valid only with a snapshot of this session                              *)
(* (invalidate_level2_for_reconnect).                                      *)
BookOfThisSession == session = "up" /\ book.valid => fromHere

(* The rolling features compare only books of one epoch (apply_snapshot).  *)
OneEpochPoints == \A i \in 1 .. Len(points) : points[i] = book.epoch

(* Every event produced was taken, was coalesced or is waiting: none is    *)
(* counted twice or lost without trace (record_market_event_dispatched).   *)
EventsAddUp ==
    produced = taken + coalesced
               + (IF watch = seen THEN 0 ELSE watch.event - seen.event)

(* The engine never sees an older book after a newer one, across           *)
(* reconnects and snapshots.                                               *)
NeverBackwards ==
    [][seen' # seen => /\ seen'.generation > seen.generation
                       /\ seen'.epoch >= seen.epoch
                       /\ seen'.epoch = seen.epoch => seen'.seq > seen.seq]_vars

(* When the faults end the book becomes valid, catches up with OKX and the *)
(* engine sees it.                                                         *)
BookRecovers ==
    <>[](book.valid /\ book.seq = Len(market) /\ seen.seq = book.seq)
=============================================================================
