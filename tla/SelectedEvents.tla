---------------------------- MODULE SelectedEvents ----------------------------
(***************************************************************************)
(* What the streams of the selected group send, on its way to the screen:  *)
(* a message is parsed (sources/selected_streams.py), queued under the     *)
(* selection it was received for, written in batches (selection_runtime.py,*)
(* selected_store.py), read back and published (artifacts.py).  The        *)
(* lifetime of a selection, which SelectionRuntime models, is a lease that *)
(* opens, is renewed and closes; the catalog changes at any time.          *)
(***************************************************************************)
EXTENDS Integers, Sequences, SequencesExt, FiniteSetsExt

CONSTANTS
  Instrument,     \* the instruments of the selected group, one per venue
  Native,         \* those of MEXC: sizes in contracts, and depth that may be invalidated
  Message,        \* depth messages: [bids, asks], sequences of [price, size]
  Levels,         \* levels kept on each side (20)
  Factor,         \* what one contract may be worth
  Notional,       \* BOOK_WALK_NOTIONALS
  Scale,          \* a multiple of every price: base sizes are counted in its fractions
  Nowhere,        \* a model value: not listed, no lease, no book, no artifact
  MaxAge,         \* ticks until depth is stale (10 s)
  Life,           \* ticks a lease lives (15 min)
  BatchSize,      \* events the writer takes at once (256)
  TradesKept,     \* trades kept of a selection (100)
  Burst,          \* trade messages: [of, ids], ids in the order of the trades' time
  MaxMessages,    \* bound: messages that give events
  MaxSelections,  \* bound: selections
  MaxRevisions,   \* bound: changes of the catalog
  LastMoment      \* bound: ticks

LevelPrices(message) == {level.price : level \in ToSet(message.bids) \cup ToSet(message.asks)}

ASSUME EventsAssumption ==
  /\ Native \subseteq Instrument
  /\ \A burst \in Burst : burst.of \in Instrument /\ burst.ids \in Seq(Nat)
  /\ Factor \subseteq Nat \ {0}
  /\ {MaxAge, Life, BatchSize, TradesKept, Levels, Scale} \subseteq Nat \ {0}
  /\ {MaxMessages, MaxSelections, MaxRevisions, LastMoment} \subseteq Nat
  /\ \A message \in Message : \A price \in LevelPrices(message) : price > 0 /\ Scale % price = 0

VARIABLES
  moment,
  listing,     \* the current version of each member: [number, factor], or Nowhere
  revisions,
  lease,       \* the row without superseded_at: [id, from, until], or Nowhere
  selections,  \* selections opened so far
  listeners,   \* the definitions the open streams parse with, or Nowhere
  emitted,     \* messages received so far
  inbox,       \* the runtime's queue of events
  levels,      \* selected_depth_levels: one row per book
  tape,        \* selected_trades, in order of their ids
  taken,       \* the trades accepted per selection, kept or not
  viewing      \* what the publication under way has read, or Nowhere

leaseVars == <<lease, selections, listeners>>
tableVars == <<levels, tape, taken>>
eventsVars == <<moment, listing, revisions, leaseVars, emitted, inbox, tableVars, viewing>>

EventsInit ==
  /\ moment = 0
  /\ listing = [i \in Instrument |->
                  [number |-> 1, factor |-> IF i \in Native THEN Min(Factor) ELSE 1]]
  /\ revisions = 0
  /\ lease = Nowhere /\ selections = 0 /\ listeners = Nowhere
  /\ emitted = 0 /\ inbox = <<>>
  /\ levels = {} /\ tape = <<>> /\ taken = {}
  /\ viewing = Nowhere

-----------------------------------------------------------------------------
(* Parsing *)

(* One side as it is published: by price, best first, the first levels only. *)
Sorted(side, before(_, _)) ==
  LET sorted == SortSeq(side, LAMBDA a, b : before(a.price, b.price)) IN
  SubSeq(sorted, 1, Min({Len(sorted), Levels}))

Descending(a, b) == a > b
Ascending(a, b) == a < b

OnePerPrice(side) == \A j, k \in DOMAIN side : side[j].price = side[k].price => j = k

(* Contracts are turned into base units; other venues send base units. *)
Normalized(side, factor) == [k \in DOMAIN side |-> [side[k] EXCEPT !.size = @ * factor]]

Parsed(message, factor) ==
  [bids |-> Normalized(Sorted(message.bids, Descending), factor),
   asks |-> Normalized(Sorted(message.asks, Ascending), factor)]

(* What the parser and SelectedDepth refuse is dropped, and the stream goes on. *)
Acceptable(message) ==
  /\ message.bids # <<>> /\ message.asks # <<>>
  /\ OnePerPrice(message.bids) /\ OnePerPrice(message.asks)
  /\ Parsed(message, 1).bids[1].price < Parsed(message, 1).asks[1].price

(* What a parser makes of one message: a book, or a trade of every row. *)
DepthEvents(message, factor) == <<[kind |-> "depth", book |-> Parsed(message, factor)]>>

TradeEvents(burst) == [k \in DOMAIN burst.ids |-> [kind |-> "trade", id |-> burst.ids[k]]]

(***************************************************************************)
(* The events of one message, of a stream that is still to be heard.  Each *)
(* keeps the factor it was normalized with and its message's number.       *)
(***************************************************************************)
Received(i, events) ==
  /\ emitted < MaxMessages
  /\ emitted' = emitted + 1
  /\ inbox' = inbox \o [k \in DOMAIN events |->
                 events[k] @@ [selection |-> selections, of |-> i, at |-> moment,
                               n |-> emitted + 1, factor |-> listeners[i].factor]]
  /\ UNCHANGED <<moment, listing, revisions, leaseVars, tableVars, viewing>>

Listens(i) == listeners # Nowhere /\ listeners[i] # Nowhere

ReceiveBook(i) ==
  /\ Listens(i)
  /\ \E message \in Message :
       /\ Acceptable(message)
       /\ Received(i, DepthEvents(message, listeners[i].factor))

ReceiveInvalidation(i) == Listens(i) /\ i \in Native /\ Received(i, <<[kind |-> "gap"]>>)

(* A venue may send a trade again, and out of order, after a reconnection. *)
ReceiveTrades(i) ==
  /\ Listens(i)
  /\ \E burst \in Burst :
       /\ burst.of = i
       /\ Received(i, TradeEvents(burst))

-----------------------------------------------------------------------------
(* Writing *)

(* A gap carries no quantities. *)
SameQuantity(event) ==
  event.of \in Native /\ event.kind # "gap" => listing[event.of].factor = event.factor

Storable(event) ==
  /\ lease # Nowhere
  /\ lease.id = event.selection
  /\ event.at >= lease.from /\ event.at < lease.until
  /\ listing[event.of] # Nowhere
  /\ SameQuantity(event)

StoredRow(event) ==
  [selection |-> event.selection, of |-> event.of, version |-> listing[event.of],
   at |-> event.at, n |-> event.n, factor |-> event.factor]

SameBook(row, event) ==
  row.selection = event.selection /\ row.of = event.of /\ row.version = listing[event.of]

(* Both a new book and an invalidation remove the levels there are. *)
LevelsAfter(rows, event) ==
  CASE event.kind = "trade" -> rows
    [] event.kind = "gap" -> {row \in rows : ~SameBook(row, event)}
    [] event.kind = "depth" ->
         {row \in rows : ~SameBook(row, event)} \cup {StoredRow(event) @@ [book |-> event.book]}

(* ON CONFLICT DO NOTHING: the first row of a trade stays. *)
TapeAfter(rows, event) ==
  IF event.kind = "trade"
     /\ ~ \E k \in DOMAIN rows : SameBook(rows[k], event) /\ rows[k].id = event.id
  THEN Append(rows, StoredRow(event) @@ [id |-> event.id])
  ELSE rows

(* Newest first: by source time, which the ids stand for, then as they came in. *)
Newer(rows, j, k) ==
  \/ rows[j].id > rows[k].id
  \/ rows[j].id = rows[k].id /\ rows[j].at > rows[k].at
  \/ rows[j].id = rows[k].id /\ rows[j].at = rows[k].at /\ j > k

AmongNewest(rows, k) ==
  Cardinality({j \in DOMAIN rows : rows[j].selection = rows[k].selection /\ Newer(rows, j, k)})
    < TradesKept

(* Only the writer's own selection is pruned. *)
KeptOnly(rows, selection) ==
  LET kept == {k \in DOMAIN rows : rows[k].selection = selection => AmongNewest(rows, k)}
      index == SetToSortSeq(kept, <)
  IN [k \in DOMAIN index |-> rows[index[k]]]

Trades(events) == SelectSeq(events, LAMBDA event : event.kind = "trade")

(***************************************************************************)
(* The writer's batch is what had come in when it began; as the events of  *)
(* one selection are written before the next one opens, it is of one       *)
(* selection, and one transaction stores all of it or, when an event can't *)
(* be stored, nothing.  The writer goes on either way.                     *)
(***************************************************************************)
Persist ==
  \E n \in 1..Min({BatchSize, Len(inbox)}) :
    LET batch == SubSeq(inbox, 1, n)
        stored == FoldLeft(TapeAfter, tape, batch)
    IN /\ IF \A k \in 1..n : Storable(batch[k])
          THEN /\ levels' = FoldLeft(LevelsAfter, levels, batch)
               /\ tape' = IF Trades(batch) = <<>> THEN stored
                          ELSE KeptOnly(stored, batch[1].selection)
               /\ taken' = taken \cup {[selection |-> event.selection, of |-> event.of,
                                        version |-> listing[event.of], id |-> event.id]
                                       : event \in ToSet(Trades(batch))}
          ELSE UNCHANGED tableVars
       /\ inbox' = SubSeq(inbox, n + 1, Len(inbox))
       /\ UNCHANGED <<moment, listing, revisions, leaseVars, emitted, viewing>>

-----------------------------------------------------------------------------
(* Publishing *)

Steps == UNCHANGED <<moment, listing, revisions, leaseVars, emitted, inbox, tableVars>>

(***************************************************************************)
(* The lease and the members are read first; what is committed before the  *)
(* levels are read, too, may be newer than the moment taken here.           *)
(***************************************************************************)
ReadLease ==
  /\ viewing = Nowhere
  /\ lease # Nowhere /\ lease.until > moment
  /\ viewing' = [at |-> moment, id |-> lease.id, from |-> lease.from, members |-> listing]
  /\ Steps

(* _walk_levels: what the notional buys, level by level, in fractions of Scale. *)
Consume(notional, side) ==
  FoldLeft(LAMBDA sofar, level :
             LET quote == Min({sofar.left, level.price * level.size}) IN
             [left |-> sofar.left - quote, base |-> sofar.base + quote * (Scale \div level.price)],
           [left |-> notional, base |-> 0], side)

(* The impact of an average price worse than the best one, times the top's cost. *)
Walk(notional, side, buys) ==
  LET end == Consume(notional, side)
      cost == side[1].price * end.base
  IN IF end.left > 0 THEN Nowhere
     ELSE [base |-> end.base,
           impact |-> Max({0, IF buys THEN notional * Scale - cost ELSE cost - notional * Scale})]

RowsOf(i) ==
  {row \in levels : row.selection = viewing.id /\ row.of = i
                    /\ row.version = viewing.members[i]}

Quality(i, now) ==
  IF RowsOf(i) = {} THEN "unavailable"
  ELSE LET age == now - (CHOOSE row \in RowsOf(i) : TRUE).at IN
       IF age < 0 THEN "unavailable" ELSE IF age > MaxAge THEN "stale" ELSE "ready"

(* The walks are made when the market is read, the quality when it is published. *)
Walkable(i) ==
  RowsOf(i) # {} /\ LET age == viewing.at - (CHOOSE row \in RowsOf(i) : TRUE).at
                    IN age >= 0 /\ age <= MaxAge

Listing(i, now) ==
  [quality |-> Quality(i, now),
   depth |-> IF Quality(i, now) = "ready" THEN RowsOf(i) ELSE {},
   walks |-> IF Walkable(i)
             THEN LET book == (CHOOSE row \in RowsOf(i) : TRUE).book IN
                  [n \in Notional |-> [buy |-> Walk(n, book.asks, TRUE),
                                       sell |-> Walk(n, book.bids, FALSE)]]
             ELSE Nowhere]

(* selected-market.json.  The trades are published as they are stored. *)
Artifact(now) ==
  LET members == {i \in Instrument : viewing.members[i] # Nowhere}
      listed == [i \in members |-> Listing(i, now)]
  IN [at |-> now, id |-> viewing.id, from |-> viewing.from, members |-> listed,
      status |-> IF members = {} THEN "unavailable"
                 ELSE IF \E i \in members : listed[i].quality # "ready" THEN "partial" ELSE "ready"]

(* A full publication takes the moment again after its reads. *)
Publications ==
  IF viewing = Nowhere THEN {} ELSE {Artifact(now) : now \in {viewing.at} \cup moment..LastMoment}

(* The levels are read and the file is replaced, as Artifacts says. *)
PublishMarket ==
  /\ viewing # Nowhere
  /\ viewing' = Nowhere
  /\ Steps

-----------------------------------------------------------------------------
(* The selection and the catalog *)

(* The streams of the selection before were stopped and its events written. *)
OpenSelection ==
  /\ listeners = Nowhere /\ inbox = <<>>
  /\ selections < MaxSelections
  /\ \E i \in Instrument : listing[i] # Nowhere
  /\ selections' = selections + 1
  /\ lease' = [id |-> selections + 1, from |-> moment, until |-> moment + Life]
  /\ listeners' = listing
  /\ UNCHANGED <<moment, listing, revisions, emitted, inbox, tableVars, viewing>>

Beat ==
  /\ listeners # Nowhere /\ lease.until > moment
  /\ lease' = [lease EXCEPT !.until = moment + Life]
  /\ lease' # lease
  /\ UNCHANGED <<moment, listing, revisions, selections, listeners, emitted, inbox, tableVars,
                 viewing>>

(* The streams are stopped and what they sent is written before the lease is closed. *)
CloseSelection ==
  /\ lease # Nowhere /\ inbox = <<>>
  /\ lease' = Nowhere /\ listeners' = Nowhere
  /\ UNCHANGED <<moment, listing, revisions, selections, emitted, inbox, tableVars, viewing>>

(* The process is killed: its lease stays until it is superseded. *)
Killed ==
  /\ listeners' = Nowhere /\ inbox' = <<>> /\ viewing' = Nowhere
  /\ UNCHANGED <<moment, listing, revisions, lease, selections, emitted, tableVars>>

(* A new version of an instrument, which its streams learn of at the next check. *)
Relist(i) ==
  /\ revisions < MaxRevisions
  /\ listing[i] # Nowhere
  /\ revisions' = revisions + 1
  /\ \/ listing' = [listing EXCEPT ![i] = Nowhere]
     \/ \E f \in Factor : i \in Native /\ listing' = [listing EXCEPT ![i] =
                                       [number |-> listing[i].number + 1, factor |-> f]]
  /\ UNCHANGED <<moment, leaseVars, emitted, inbox, tableVars, viewing>>

ClockTicks ==
  /\ moment < LastMoment
  /\ moment' = moment + 1
  /\ UNCHANGED <<listing, revisions, leaseVars, emitted, inbox, tableVars, viewing>>

EventsNext ==
  \/ \E i \in Instrument : ReceiveBook(i) \/ ReceiveInvalidation(i) \/ ReceiveTrades(i) \/ Relist(i)
  \/ Persist
  \/ ReadLease \/ PublishMarket
  \/ OpenSelection \/ Beat \/ CloseSelection \/ Killed
  \/ ClockTicks

EventsSpec == EventsInit /\ [][EventsNext]_eventsVars

-----------------------------------------------------------------------------
(* Properties *)

EventsTypeOK ==
  /\ moment \in 0..LastMoment /\ revisions \in 0..MaxRevisions
  /\ selections \in 0..MaxSelections /\ emitted \in 0..MaxMessages
  /\ lease = Nowhere \/ (lease.id \in 1..selections /\ lease.from <= moment)
  /\ \A row \in levels : \A other \in levels :
       row.selection = other.selection /\ row.of = other.of /\ row.version = other.version
       => row = other

OnScreen(artifact) ==
  IF artifact.status = "unavailable" THEN {}
  ELSE UNION {artifact.members[i].depth : i \in DOMAIN artifact.members}

(***************************************************************************)
(* Whatever batches were refused and whatever changed while the market was *)
(* read, a book that is published was received under the artifact's own    *)
(* selection, at most ten seconds before and not after it, and its levels  *)
(* are in order and uncrossed (store_selected_events, build_selected_market).*)
(***************************************************************************)
BooksAreCurrent ==
  \A artifact \in Publications : \A row \in OnScreen(artifact) :
    /\ row.selection = artifact.id
    /\ artifact.from <= row.at /\ row.at <= artifact.at /\ artifact.at <= row.at + MaxAge
    /\ row.book.bids[1].price < row.book.asks[1].price
    /\ \A k \in 2..Len(row.book.bids) : row.book.bids[k].price < row.book.bids[k - 1].price
    /\ \A k \in 2..Len(row.book.asks) : row.book.asks[k].price > row.book.asks[k - 1].price

(***************************************************************************)
(* Books only move forward: what waits to be written is in the order it    *)
(* was received in and newer than everything that is stored, whichever     *)
(* selection, batch or process it came from.                               *)
(***************************************************************************)
BooksMoveForward ==
  /\ \A j, k \in DOMAIN inbox : j < k => inbox[j].n <= inbox[k].n
  /\ \A row \in levels, k \in DOMAIN inbox : row.n < inbox[k].n

(***************************************************************************)
(* The sizes stored for a version of a MEXC contract were computed with    *)
(* that version's contract size, though the stream that computed them may  *)
(* not have heard of the new version yet (_selected_versions).             *)
(***************************************************************************)
QuantitiesFit ==
  \A row \in levels \cup ToSet(tape) : row.of \in Native => row.factor = row.version.factor

(***************************************************************************)
(* The trades kept of a selection are the newest ones accepted under it,   *)
(* each once, though trades arrive late, out of order, again after they    *)
(* were pruned, and under several versions.                                *)
(***************************************************************************)
TradesAreNewest ==
  \A s \in 1..selections :
    LET kept == {k \in DOMAIN tape : tape[k].selection = s}
        all == {trade \in taken : trade.selection = s}
    IN /\ Cardinality(kept) = Min({TradesKept, Cardinality(all)})
       /\ \A j, k \in kept :
            tape[j].of = tape[k].of /\ tape[j].version = tape[k].version /\ tape[j].id = tape[k].id
            => j = k
       /\ \A k \in kept : Cardinality({trade \in all : trade.id > tape[k].id}) < TradesKept

(***************************************************************************)
(* A walk is given exactly when the visible levels are worth the notional; *)
(* its size is what the best price buys at most and the worst at least, and *)
(* a larger notional never has a smaller impact per unit                   *)
(* (estimate_book_walks).                                                  *)
(***************************************************************************)
WalkFits(side, n, walk, buys) ==
  LET worth == FoldLeft(LAMBDA sum, level : sum + level.price * level.size, 0, side) IN
  /\ walk = Nowhere <=> worth < n
  /\ walk # Nowhere =>
       LET best == side[1].price * walk.base
           worst == Last(side).price * walk.base
       IN IF buys THEN best <= n * Scale /\ n * Scale <= worst
                  ELSE best >= n * Scale /\ n * Scale >= worst

WalksAreExact ==
  \A artifact \in Publications : \A row \in OnScreen(artifact) :
    LET walks == artifact.members[row.of].walks IN
    walks # Nowhere =>
      \A n, m \in Notional :
        /\ WalkFits(row.book.asks, n, walks[n].buy, TRUE)
        /\ WalkFits(row.book.bids, n, walks[n].sell, FALSE)
        /\ n <= m /\ walks[m].buy # Nowhere =>
             /\ walks[n].buy # Nowhere
             /\ walks[n].buy.impact * walks[m].buy.base <= walks[m].buy.impact * walks[n].buy.base

(* What is published of the selected group is what its streams sent, in order. *)
SelectedIsHonest ==
  /\ EventsTypeOK
  /\ BooksAreCurrent /\ BooksMoveForward
  /\ QuantitiesFit /\ TradesAreNewest /\ WalksAreExact
===============================================================================
