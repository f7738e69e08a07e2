------------------------------- MODULE BookFeed -------------------------------
(***************************************************************************)
(* How a client gets a market's order book: the live deltas that the        *)
(* WebSocket gateway pushes, stitched to a snapshot of the book that the    *)
(* projector writes and the API server reads.  Gateway and projector read   *)
(* the same partition of engine.events, each at its own pace.               *)
(*                                                                          *)
(* The projector's book is that of one market and one projector (module     *)
(* Projector has several); events other than deltas leave it alone.  A      *)
(* sequence that orderbook_events has is never above that of                *)
(* orderbook_state, so the second check of project_orderbook_delta decides. *)
(***************************************************************************)
EXTENDS WsProperties, OrderBook

CONSTANTS
  Watcher,                    \* the session of the client
  BookMarket, BookPartition,  \* the market it watches, and the market's events
  Price,
  Depth                       \* levels of a side that it asks for

Level == [side: {"BID", "ASK"}, price: Price]
Delta == [type: {"OrderBookDelta"}, id: Nat \ {0}, levels: SUBSET (Level \X Nat)]

MaxDepth == 200

ASSUME BookAssumption ==
  /\ Watcher \in Session /\ BookMarket \in Market /\ BookPartition \in Partition
  /\ Payload \subseteq Delta \cup [type: {"Other"}]
  /\ Price \subseteq Nat /\ IsFiniteSet(Price)
  /\ Depth \in 1 .. MaxDepth

VARIABLES
  projected,  \* offset up to which the projector has read the partition
  book,       \* orderbook_levels of the market
  bookSeq,    \* orderbook_state of the market, 0 where there is no row
  fetch,      \* where the client's request for the snapshot is
  snapSeq,    \* the snapshot's engine_sequence
  snapshot,   \* the snapshot's levels: level -> quantity
  readTo      \* the sequence of the book when the last level was read

bookTables == <<projected, book, bookSeq>>
client == <<fetch, snapSeq, snapshot, readTo>>
feedVars == <<vars, bookTables, client>>

EmptyView == [l \in Level |-> 0]

FeedInit ==
  /\ Init
  /\ projected = 0
  /\ book = [l \in Level |-> NoLevel]
  /\ bookSeq = 0
  /\ fetch = "idle"
  /\ snapSeq = 0
  /\ snapshot = EmptyView
  /\ readTo = 0

-----------------------------------------------------------------------------
IsDelta(record) ==
  /\ record.source = "engine" /\ record.market = BookMarket
  /\ record.payload.type = "OrderBookDelta"

\* How the engine publishes the deltas of a market: each for the first time in
\* the order of their numbers.  A delta may come again at any time.
InSequence(records) ==
  \A n, k \in DOMAIN records :
    LET e == records[n].payload
        f == records[k].payload
    IN IsDelta(records[n]) /\ IsDelta(records[k]) =>
         /\ e.id = f.id => e = f
         /\ n < k /\ f.id < e.id =>
              \E j \in 1 .. n - 1 : IsDelta(records[j]) /\ records[j].payload = f

ASSUME FeedInSequence == \A topics \in History : InSequence(topics[BookPartition])

DeltaOffsets == {n \in DOMAIN topic[BookPartition] : IsDelta(topic[BookPartition][n])}
DeltaAt(n) == topic[BookPartition][n].payload

\* project_orderbook_delta, which saves the offset in any case.
ProjectDelta ==
  \E n \in DeltaOffsets :
    /\ projected < n /\ \A k \in DeltaOffsets : k < n => k <= projected
    /\ projected' = n
    /\ IF DeltaAt(n).id > bookSeq
         THEN /\ book' = [l \in Level |-> LevelAfter(book[l], l, DeltaAt(n))]
              /\ bookSeq' = DeltaAt(n).id
         ELSE UNCHANGED <<book, bookSeq>>
    /\ UNCHANGED <<vars, client>>

-----------------------------------------------------------------------------
(***************************************************************************)
(* The client's request: get_orderbook_snapshot runs three statements, each *)
(* of which sees the tables as they are by then.                            *)
(***************************************************************************)
Confirmed ==
  \E i \in DOMAIN received[Watcher] :
    /\ received[Watcher][i].type = "Subscribed"
    /\ BookMarket \in received[Watcher][i].markets

SideRead(side) ==
  [l \in Level |-> IF l \in TopLevels(book, side, Depth) THEN book[l].quantity
                   ELSE snapshot[l]]

\* The request of a client that has been told Subscribed; in the histories
\* without a delta nobody asks for the book.
ReadState ==
  /\ fetch = "idle" /\ Confirmed /\ DeltaOffsets # {}
  /\ fetch' = "bids"
  /\ snapSeq' = bookSeq
  /\ UNCHANGED <<vars, bookTables, snapshot, readTo>>

ReadBids ==
  /\ fetch = "bids"
  /\ fetch' = "asks"
  /\ snapshot' = SideRead("BID")
  /\ UNCHANGED <<vars, bookTables, snapSeq, readTo>>

\* Mutant: the sequence is read after the levels.
ReadAsksMutant ==
  /\ fetch = "asks"
  /\ fetch' = "done"
  /\ snapshot' = SideRead("ASK")
  /\ snapSeq' = bookSeq
  /\ readTo' = bookSeq
  /\ UNCHANGED <<vars, bookTables>>

ReadAsks ==
  /\ fetch = "asks"
  /\ fetch' = "done"
  /\ snapshot' = SideRead("ASK")
  /\ readTo' = bookSeq
  /\ UNCHANGED <<vars, bookTables, snapSeq>>

\* A statement fails and the client, told 500, may ask again.
FetchFails ==
  /\ fetch \in {"bids", "asks"}
  /\ fetch' = "idle"
  /\ snapSeq' = 0
  /\ snapshot' = EmptyView
  /\ UNCHANGED <<vars, bookTables, readTo>>

FeedNext ==
  \/ Next /\ UNCHANGED <<bookTables, client>>
  \/ ProjectDelta
  \/ ReadState \/ ReadBids \/ ReadAsks \/ FetchFails

FeedSpec == FeedInit /\ [][FeedNext]_feedVars

-----------------------------------------------------------------------------
(***************************************************************************)
(* The book in the client's hands: what its socket has got of the market,   *)
(* less the deltas that the snapshot contains, in sequence order.           *)
(***************************************************************************)
GotOffsets ==
  {received[Watcher][i].offset : i \in {j \in DOMAIN received[Watcher] :
     received[Watcher][j].type = "MarketEvent" /\
     received[Watcher][j].partition = BookPartition}}

Got == {DeltaAt(n) : n \in GotOffsets \cap DeltaOffsets}

Naming(deltas, l) == {e \in deltas : \E x \in e.levels : x[1] = l}

Quantity(e, l) == (CHOOSE x \in e.levels : x[1] = l)[2]

Latest(deltas) == CHOOSE e \in deltas : \A f \in deltas : f.id <= e.id

LastQuantity(deltas, l, otherwise) ==
  IF Naming(deltas, l) = {} THEN otherwise ELSE Quantity(Latest(Naming(deltas, l)), l)

View(l) == LastQuantity({e \in Got : e.id > snapSeq}, l, snapshot[l])

ViewSeq ==
  CHOOSE n \in {snapSeq} \cup {e.id : e \in Got} :
    \A k \in {snapSeq} \cup {e.id : e \in Got} : k <= n

\* The engine's book after the delta n.
UpTo(n) == {e \in {DeltaAt(k) : k \in DeltaOffsets} : e.id <= n}
EngineQuantity(l, n) == LastQuantity(UpTo(n), l, 0)

\* A level behind Depth others is not in the snapshot.
CutOff(l) ==
  Cardinality({k \in Level : /\ k.side = l.side /\ snapshot[k] > 0
                             /\ IF l.side = "BID" THEN k.price > l.price
                                ELSE k.price < l.price}) >= Depth

\* What the client has got of the market, deltas and others.
OfMarket == {n \in GotOffsets : topic[BookPartition][n].market = BookMarket}

\* A delta that the gateway was past when it took the subscription, and the
\* projector was not past when it gave the snapshot.
FellBetween ==
  /\ OfMarket # {}
  /\ \E n \in DeltaOffsets :
       /\ DeltaAt(n).id > snapSeq /\ DeltaAt(n) \notin Got
       /\ \A k \in OfMarket : n < k

(***************************************************************************)
(* docs/websocket.md: a client that subscribes, fetches the snapshot, drops *)
(* the deltas up to the snapshot's sequence and applies the others has the  *)
(* engine's book, from the sequence on at which the last level was read:    *)
(* get_orderbook_snapshot reads the sequence before the levels, so a delta  *)
(* that is projected in between is in the levels and is not dropped.        *)
(* Levels cut off by the depth apart, and only if no delta fell between the *)
(* gateway and a projector that lags behind it.                             *)
(***************************************************************************)
StitchedBook ==
  /\ fetch = "done" /\ ViewSeq >= readTo
  /\ ~Unsubscribed(Watcher, BookMarket) /\ ~FellBetween
  => \A l \in Level :
       \/ View(l) = EngineQuantity(l, ViewSeq)
       \/ View(l) = 0 /\ CutOff(l)

(***************************************************************************)
(* The same without the condition on the projector, as the document has it: *)
(* subscribing before fetching the snapshot makes the stitching gap-free.   *)
(***************************************************************************)
GapFreeStitching ==
  /\ fetch = "done" /\ ViewSeq >= readTo
  /\ ~Unsubscribed(Watcher, BookMarket)
  => \A l \in Level :
       \/ View(l) = EngineQuantity(l, ViewSeq)
       \/ View(l) = 0 /\ CutOff(l)
=============================================================================
