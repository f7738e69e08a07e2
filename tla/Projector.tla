------------------------------ MODULE Projector ------------------------------
(***************************************************************************)
(* The projector: one task per partition of engine.input, engine.replies,   *)
(* engine.events and wallet.events (run_source_partition in                 *)
(* apps/projector/src/redpanda.rs), which build the read models of          *)
(* apps/projector/src/repository.rs: order contexts, orders, fills,         *)
(* positions and the order book.  The tasks are not ordered among each      *)
(* other: an event that needs the context of an order whose input has not   *)
(* been projected waits for it.                                             *)
(*                                                                          *)
(* An order stands for its order id and for its reservation (or             *)
(* liquidation) id.  The topics are what wallet and engine have written; a  *)
(* behaviour starts with one of the histories of History, of which the      *)
(* tasks have read nothing.  Amounts stay far from the limits of i64, where *)
(* clamp_i128_to_i64 would cut them off.                                    *)
(***************************************************************************)
EXTENDS Integers, Sequences, FiniteSetsExt, OrderBook

CONSTANTS
  User, NoUser, Market, Price, Order, InfoOf, Partition, Instance,
  History,     \* contents of the partitions
  MaxStops     \* bound: ends of a projector process

Side == {"LONG", "SHORT"}
Opposite(side) == IF side = "LONG" THEN "SHORT" ELSE "LONG"

Role == {"maker", "taker"}
OtherRole(role) == IF role = "maker" THEN "taker" ELSE "maker"

OrderInfo ==
  [user: User, market: Market, side: Side, quantity: Nat \ {0}, margin: Nat,
   reduceOnly: BOOLEAN, liquidation: BOOLEAN]

Level == [side: {"BID", "ASK"}, price: Price]

Record ==
       [type: {"PlaceOrder", "LiquidatePosition", "Accepted", "Rejected"}, order: Order]
  \cup [type: {"OrderOpened", "OrderCancelled"}, order: Order, id: Nat]
  \cup [type: {"TradeExecuted"}, id: Nat, market: Market, order: [Role -> Order],
        reservation: [Role -> BOOLEAN], price: Price, quantity: Nat \ {0},
        reason: {"TRADE", "LIQUIDATION"}, liquidation: BOOLEAN,
        liquidated: User \cup {NoUser}, positionSide: Side \cup {"NONE"}]
  \cup [type: {"OrderBookDelta"}, id: Nat, market: Market, levels: SUBSET (Level \X Nat)]
  \cup [type: {"OtherEvent"}, id: Nat]
  \cup [type: {"Other"}]

EventType ==
  {"OrderOpened", "OrderCancelled", "TradeExecuted", "OrderBookDelta", "OtherEvent"}

ASSUME ProjectorAssumption ==
  /\ InfoOf \in [Order -> OrderInfo]
  /\ History \subseteq [Partition -> Seq(Record)]
  /\ Price \subseteq Nat
  /\ MaxStops \in Nat

VARIABLES
  topic,       \* partition -> its records
  contexts,    \* projector_order_context: status, and whether order_id is set
  orders,      \* orders, status "NONE" where there is no row
  fills,       \* fills
  positions,   \* positions and position_fills: <<user, market>> -> position
  closed,      \* closed_positions and closed_position_fills
  lastPrice,   \* markets.last_traded_price
  eventLog,    \* engine_event_log: ids
  book,        \* orderbook_levels: market -> level -> quantity and sequence
  bookSeq,     \* orderbook_state, 0 where there is no row
  bookEvents,  \* orderbook_events: <<market, sequence>>
  offsets,     \* projector_offsets
  at,          \* <<instance, partition>> -> the offset the task is at, 0 when down
  logged,      \* tasks that have logged the event at hand
  stops

orderTables == <<contexts, orders>>
tradeTables == <<fills, positions, closed, lastPrice>>
bookTables == <<book, bookSeq, bookEvents>>
progress == <<offsets, at, logged>>
vars == <<topic, orderTables, tradeTables, eventLog, bookTables, progress, stops>>

Task == Instance \X Partition
Account == User \X Market

NoContext == [status |-> "NONE", known |-> FALSE]
NoOrder ==
  [status |-> "NONE", side |-> "LONG", quantity |-> 0, margin |-> 0, reduceOnly |-> FALSE]
NoPosition ==
  [side |-> "LONG", quantity |-> 0, margin |-> 0, average |-> 0, pnl |-> 0,
   openOrder |-> CHOOSE o \in Order : TRUE, fills |-> {}]

Init ==
  /\ topic \in History
  /\ contexts = [o \in Order |-> NoContext]
  /\ orders = [o \in Order |-> NoOrder]
  /\ fills = {}
  /\ positions = [a \in Account |-> NoPosition]
  /\ closed = {}
  /\ lastPrice = [m \in Market |-> 0]
  /\ eventLog = {}
  /\ book = [m \in Market |-> [l \in Level |-> NoLevel]]
  /\ bookSeq = [m \in Market |-> 0]
  /\ bookEvents = {}
  /\ offsets = [p \in Partition |-> 1]
  /\ at = [t \in Task |-> 1]
  /\ logged = {}
  /\ stops = 0

-----------------------------------------------------------------------------
HasRecord(t) == at[t] \in DOMAIN topic[t[2]]
RecordAt(t) == topic[t[2]][at[t]]
AtRecord(t, types) == HasRecord(t) /\ RecordAt(t).type \in types

\* save_queue_offset_in_tx commits with the tables; the task goes on.
Advance(t) ==
  /\ offsets' = [offsets EXCEPT ![t[2]] = IF @ < at[t] + 1 THEN at[t] + 1 ELSE @]
  /\ at' = [at EXCEPT ![t] = @ + 1]
  /\ logged' = logged \ {t}
  /\ UNCHANGED <<topic, stops>>

HasContext(o) == contexts[o].status # "NONE"
HasOrder(o) == orders[o].status # "NONE"

SetContext(o, status, known) ==
  contexts' = [contexts EXCEPT ![o] = [status |-> status, known |-> known]]

(***************************************************************************)
(* engine.input: save_order_context, save_liquidation_context.  A context   *)
(* that is stored again keeps its status and order id.                      *)
(***************************************************************************)
ContextOf(o) ==
  LET info == InfoOf[o]
  IN [found |-> TRUE, reserved |-> TRUE, quantity |-> info.quantity,
      side |-> IF info.liquidation THEN Opposite(info.side) ELSE info.side,
      margin |-> IF info.liquidation THEN 0 ELSE info.margin,
      reduceOnly |-> info.liquidation \/ info.reduceOnly]

SaveContext(t) ==
  /\ AtRecord(t, {"PlaceOrder", "LiquidatePosition"})
  /\ LET o == RecordAt(t).order
     IN IF HasContext(o) THEN UNCHANGED contexts ELSE SetContext(o, "PENDING", FALSE)
  /\ Advance(t)
  /\ UNCHANGED <<orders, tradeTables, eventLog, bookTables>>

(***************************************************************************)
(* engine.replies: mark_order_accepted, mark_order_rejected and the same    *)
(* for liquidations.                                                        *)
(***************************************************************************)

AcceptedStatus(status) ==
  IF status \in {"OPEN", "PARTIAL", "FILLED", "CANCELLED"} THEN status ELSE "ACCEPTED"

RejectedStatus(status) ==
  IF status \in {"ACCEPTED", "OPEN", "PARTIAL", "FILLED", "CANCELLED"}
    THEN status ELSE "REJECTED"

MarkAccepted(t) ==
  /\ AtRecord(t, {"Accepted"})
  /\ LET o == RecordAt(t).order
     IN HasContext(o) /\ SetContext(o, AcceptedStatus(contexts[o].status), TRUE)
  /\ Advance(t)
  /\ UNCHANGED <<orders, tradeTables, eventLog, bookTables>>

MarkRejected(t) ==
  /\ AtRecord(t, {"Rejected"})
  /\ LET o == RecordAt(t).order
     IN HasContext(o) /\ SetContext(o, RejectedStatus(contexts[o].status), contexts[o].known)
  /\ Advance(t)
  /\ UNCHANGED <<orders, tradeTables, eventLog, bookTables>>

\* Other inputs and replies, wallet events and undecodable records.
SkipRecord(t) ==
  /\ AtRecord(t, {"Other"})
  /\ Advance(t)
  /\ UNCHANGED <<orderTables, tradeTables, eventLog, bookTables>>

(***************************************************************************)
(* engine.events.  process_engine_event logs the event in a transaction of  *)
(* its own and then projects it.                                            *)
(***************************************************************************)
\* The id of a log row is the engine's, or is made of type, market and sequence of
\* the event.  Either way it tells an event from all others.
EventLogId(e) == <<e.type, e.id>>

\* ON CONFLICT DO NOTHING: an event that comes again adds no row.
WithLogEntry(e) == eventLog \cup {EventLogId(e)}

LogEvent(t) ==
  /\ AtRecord(t, EventType) /\ t \notin logged
  /\ eventLog' = WithLogEntry(RecordAt(t))
  /\ logged' = logged \cup {t}
  /\ UNCHANGED <<topic, orderTables, tradeTables, bookTables, offsets, at, stops>>

AtEvent(t, type) == AtRecord(t, {type}) /\ t \in logged

OpenedStatus(status) ==
  IF status \in {"PARTIAL", "FILLED", "CANCELLED"} THEN status ELSE "OPEN"

\* Mutant: an OrderOpened that comes again opens a cancelled order.
OpenedRowStatusMutant(status) == IF status = "FILLED" THEN status ELSE "OPEN"

\* The row of a partly filled order becomes OPEN again; its context does not.
OpenedRowStatus(status) ==
  IF status \in {"FILLED", "CANCELLED"} THEN status ELSE "OPEN"

Row(c, status) ==
  [status |-> status, side |-> c.side, quantity |-> c.quantity, margin |-> c.margin,
   reduceOnly |-> c.reduceOnly]

UpsertOrder(o, c, status) ==
  orders' = [orders EXCEPT ![o] =
    IF HasOrder(o) THEN [@ EXCEPT !.status = status, !.reduceOnly = c.reduceOnly]
    ELSE Row(c, status)]

ProjectOpened(t) ==
  /\ AtEvent(t, "OrderOpened")
  /\ LET o == RecordAt(t).order
     IN /\ HasContext(o)
        /\ SetContext(o, OpenedStatus(contexts[o].status), TRUE)
        /\ UpsertOrder(o, ContextOf(o), OpenedRowStatus(orders[o].status))
  /\ Advance(t)
  /\ UNCHANGED <<tradeTables, eventLog, bookTables>>

Missing ==
  [found |-> FALSE, reserved |-> FALSE, quantity |-> 0, side |-> "NONE", margin |-> 0,
   reduceOnly |-> FALSE]

\* Mutant: contexts are found by their reservation only.
LookupMutant(o, byReservation) ==
  IF HasContext(o) /\ byReservation THEN ContextOf(o) ELSE Missing

\* load_context_for_order_in_tx: by reservation, by order id, by the order's row.
Lookup(o, byReservation) ==
  IF HasContext(o) /\ (byReservation \/ contexts[o].known) THEN ContextOf(o)
  ELSE IF HasOrder(o)
    THEN [found |-> TRUE, reserved |-> FALSE, quantity |-> orders[o].quantity,
          side |-> orders[o].side, margin |-> orders[o].margin,
          reduceOnly |-> orders[o].reduceOnly]
  ELSE Missing

ProjectCancelled(t) ==
  /\ AtEvent(t, "OrderCancelled")
  /\ LET o == RecordAt(t).order
     IN /\ Lookup(o, TRUE).found
        /\ IF HasContext(o) THEN SetContext(o, "CANCELLED", TRUE) ELSE UNCHANGED contexts
        /\ UpsertOrder(o, Lookup(o, TRUE), "CANCELLED")
  /\ Advance(t)
  /\ UNCHANGED <<tradeTables, eventLog, bookTables>>

-----------------------------------------------------------------------------
(***************************************************************************)
(* project_trade_executed.  A leg is a trade's part in one role.            *)
(***************************************************************************)
IsSynthetic(e) ==
  \/ e.reason = "LIQUIDATION" \/ e.liquidation
  \/ e.liquidated # NoUser \/ e.positionSide # "NONE"

SyntheticSide(e, role, counterpart) ==
  IF e.positionSide # "NONE"
    THEN LET closes == IF e.liquidated = NoUser THEN role = "taker"
                       ELSE InfoOf[e.order[role]].user = e.liquidated
         IN IF closes THEN Opposite(e.positionSide) ELSE e.positionSide
  ELSE IF counterpart # "NONE" THEN Opposite(counterpart)
  ELSE IF role = "maker" THEN "LONG" ELSE "SHORT"

\* load_trade_contexts_in_tx: a trade of a liquidation does not wait for a
\* context but makes one up.
LegContext(e, role) ==
  LET c == Lookup(e.order[role], e.reservation[role])
      other == Lookup(e.order[OtherRole(role)], e.reservation[OtherRole(role)])
  IN IF c.found \/ ~IsSynthetic(e) THEN c
     ELSE [found |-> TRUE, reserved |-> FALSE, quantity |-> e.quantity, margin |-> 0,
           side |-> SyntheticSide(e, role, other.side), reduceOnly |-> TRUE]

\* Mutant: a trade that is stored already is projected again.
InsertedMutant(e) == TRUE

\* INSERT INTO fills ... ON CONFLICT DO NOTHING.
Inserted(e) == \A f \in fills : f.id # e.id

QuantityOf(fill) == fill.quantity

\* cumulative_filled_quantity_in_tx.
Filled(o, rows) ==
  MapThenSumSet(QuantityOf, {f \in rows : \E role \in Role : f.order[role] = o})

\* Mutant: only the order's fills as a maker count.
FillStatusMutant(o, c, rows) ==
  IF MapThenSumSet(QuantityOf, {f \in rows : f.order["maker"] = o}) >= c.quantity
    THEN "FILLED" ELSE "PARTIAL"

FillStatus(o, c, rows) == IF Filled(o, rows) >= c.quantity THEN "FILLED" ELSE "PARTIAL"

OrderAfterFill(o, c, rows) ==
  LET row == IF HasOrder(o) THEN orders[o] ELSE Row(c, "PENDING")
  IN IF row.status = "CANCELLED" THEN row
     ELSE [row EXCEPT !.status = FillStatus(o, c, rows)]

ContextAfterFill(o, c, rows) ==
  LET x == contexts[o]
      known == x.known \/ c.reserved
  IN IF ~HasContext(o) \/ ~known THEN x
     ELSE [known |-> TRUE,
           status |-> IF x.status = "CANCELLED" THEN x.status ELSE FillStatus(o, c, rows)]

(***************************************************************************)
(* Positions: project_position_for_fill_in_tx and what it calls.            *)
(***************************************************************************)
AtLeastOne(n) == IF n < 1 THEN 1 ELSE n

ProportionalMargin(margin, of, quantity) ==
  IF margin <= 0 \/ of <= 0 \/ quantity <= 0 THEN 0
  ELSE IF quantity >= of THEN margin
  ELSE AtLeastOne((margin * quantity) \div of)

WeightedAverage(average, quantity, price, added) ==
  (average * quantity + price * added) \div (quantity + added)

Pnl(side, entry, exit, quantity) ==
  quantity * (IF side = "LONG" THEN exit - entry ELSE entry - exit)

OpenPosition(c, o, e, quantity) ==
  [side |-> c.side, quantity |-> quantity, average |-> e.price, pnl |-> 0,
   margin |-> ProportionalMargin(c.margin, c.quantity, quantity),
   openOrder |-> o, fills |-> {e.id}]

Increase(p, c, e) ==
  [p EXCEPT !.quantity = @ + e.quantity,
            !.margin = @ + ProportionalMargin(c.margin, c.quantity, e.quantity),
            !.average = WeightedAverage(@, p.quantity, e.price, e.quantity),
            !.fills = @ \cup {e.id}]

ClosedQuantity(p, e) == IF p.quantity < e.quantity THEN p.quantity ELSE e.quantity

ClosedMargin(p, e) == ProportionalMargin(p.margin, p.quantity, ClosedQuantity(p, e))

\* Mutant: the fills of a position are deleted with it.
ClosedFillsMutant(p, e) == {e.id}

\* The position's fills go to the row that closes the last of it.
ClosedFills(p, e) ==
  IF ClosedQuantity(p, e) < p.quantity THEN {e.id} ELSE p.fills \cup {e.id}

CloseRow(p, account, o, e) ==
  [account |-> account, side |-> p.side, quantity |-> ClosedQuantity(p, e),
   entry |-> p.average, exit |-> e.price,
   pnl |-> Pnl(p.side, p.average, e.price, ClosedQuantity(p, e)),
   margin |-> ClosedMargin(p, e), openOrder |-> p.openOrder, closeOrder |-> o,
   reason |-> e.reason, fills |-> ClosedFills(p, e)]

\* What reduce_or_reverse_position_in_tx leaves open.
Reduced(p, c, o, e) ==
  LET n == ClosedQuantity(p, e)
      rest == p.margin - ClosedMargin(p, e)
  IN IF n < p.quantity
       THEN [p EXCEPT !.quantity = @ - n, !.margin = IF rest < 0 THEN 0 ELSE rest]
     ELSE IF e.quantity > n THEN OpenPosition(c, o, e, e.quantity - n)
     ELSE NoPosition

\* s holds the positions and the closed positions.
ApplyLeg(s, e, role) ==
  LET o == e.order[role]
      c == LegContext(e, role)
      account == <<InfoOf[o].user, e.market>>
      p == s.positions[account]
      Put(q) == [s EXCEPT !.positions[account] = q]
  IN IF p.quantity = 0
       THEN IF c.reduceOnly THEN s ELSE Put(OpenPosition(c, o, e, e.quantity))
     ELSE IF p.side = c.side
       THEN IF c.reduceOnly THEN s ELSE Put(Increase(p, c, e))
     ELSE [Put(Reduced(p, c, o, e)) EXCEPT !.closed = @ \cup {CloseRow(p, account, o, e)}]

Mark(p, price) == [p EXCEPT !.pnl = Pnl(p.side, p.average, price, p.quantity)]

\* Mutant: only the positions of the trade's users are marked.
RefreshPnlMutant(rows, e) ==
  [a \in Account |->
    IF a[2] = e.market /\ (\E r \in Role : InfoOf[e.order[r]].user = a[1])
      THEN Mark(rows[a], e.price) ELSE rows[a]]

RefreshPnl(rows, e) ==
  [a \in Account |-> IF a[2] = e.market THEN Mark(rows[a], e.price) ELSE rows[a]]

FillRow(e) ==
  [id |-> e.id, market |-> e.market, order |-> e.order, price |-> e.price,
   quantity |-> e.quantity, side |-> [r \in Role |-> LegContext(e, r).side]]

ProjectTrade(t) ==
  /\ AtEvent(t, "TradeExecuted")
  /\ LET e == RecordAt(t)
         traded == {e.order[r] : r \in Role}
         RoleOf(o) == CHOOSE r \in Role : e.order[r] = o
         rows == IF Inserted(e) THEN fills \cup {FillRow(e)} ELSE fills
         maker == ApplyLeg([positions |-> positions, closed |-> closed], e, "maker")
         both == ApplyLeg(maker, e, "taker")
     IN /\ \A r \in Role : LegContext(e, r).found
        /\ fills' = rows
        /\ orders' = [o \in Order |->
             IF o \in traded THEN OrderAfterFill(o, LegContext(e, RoleOf(o)), rows)
             ELSE orders[o]]
        /\ contexts' = [o \in Order |->
             IF o \in traded THEN ContextAfterFill(o, LegContext(e, RoleOf(o)), rows)
             ELSE contexts[o]]
        /\ IF Inserted(e)
             THEN /\ lastPrice' = [lastPrice EXCEPT ![e.market] = e.price]
                  /\ positions' = RefreshPnl(both.positions, e)
                  /\ closed' = both.closed
             ELSE UNCHANGED <<lastPrice, positions, closed>>
  /\ Advance(t)
  /\ UNCHANGED <<eventLog, bookTables>>

-----------------------------------------------------------------------------
(***************************************************************************)
(* project_orderbook_delta.                                                 *)
(***************************************************************************)

\* Mutant: a delta that comes again is applied again.
AppliesMutant(e) == TRUE

Applies(e) == <<e.market, e.id>> \notin bookEvents /\ e.id > bookSeq[e.market]

ProjectDelta(t) ==
  /\ AtEvent(t, "OrderBookDelta")
  /\ LET e == RecordAt(t)
     IN /\ bookEvents' = bookEvents \cup {<<e.market, e.id>>}
        /\ IF Applies(e)
             THEN /\ book' = [book EXCEPT ![e.market] =
                       [l \in Level |-> LevelAfter(book[e.market][l], l, e)]]
                  /\ bookSeq' = [bookSeq EXCEPT ![e.market] = IF @ < e.id THEN e.id ELSE @]
             ELSE UNCHANGED <<book, bookSeq>>
  /\ Advance(t)
  /\ UNCHANGED <<orderTables, tradeTables, eventLog>>

\* project_engine_event_log, which logs the event once more.
ProjectOther(t) ==
  /\ AtEvent(t, "OtherEvent")
  /\ eventLog' = WithLogEntry(RecordAt(t))
  /\ Advance(t)
  /\ UNCHANGED <<orderTables, tradeTables, bookTables>>

-----------------------------------------------------------------------------
ContextMissing(t) ==
  \/ /\ AtRecord(t, {"Accepted", "Rejected", "OrderOpened"})
     /\ ~HasContext(RecordAt(t).order)
  \/ AtRecord(t, {"OrderCancelled"}) /\ ~Lookup(RecordAt(t).order, TRUE).found
  \/ /\ AtRecord(t, {"TradeExecuted"})
     /\ \E r \in Role : ~LegContext(RecordAt(t), r).found

\* Mutant: a record whose context is missing is skipped.
WaitForContextMutant(t) ==
  /\ ContextMissing(t)
  /\ Advance(t)
  /\ UNCHANGED <<orderTables, tradeTables, eventLog, bookTables>>

\* MissingOrderContext: sleep, then the same record again from the start.
WaitForContext(t) ==
  /\ ContextMissing(t)
  /\ RecordAt(t).type \in EventType => t \in logged
  /\ logged' = logged \ {t}
  /\ UNCHANGED <<topic, orderTables, tradeTables, eventLog, bookTables, offsets, at, stops>>

Idle(t) == at[t] # 0 /\ ~HasRecord(t) /\ UNCHANGED vars

Stop(i) ==
  /\ \A p \in Partition : at[<<i, p>>] # 0
  /\ stops < MaxStops
  /\ stops' = stops + 1
  /\ at' = [t \in Task |-> IF t[1] = i THEN 0 ELSE at[t]]
  /\ logged' = {t \in logged : t[1] # i}
  /\ UNCHANGED <<topic, orderTables, tradeTables, eventLog, bookTables, offsets>>

Start(i) ==
  /\ \A p \in Partition : at[<<i, p>>] = 0
  /\ at' = [t \in Task |-> IF t[1] = i THEN offsets[t[2]] ELSE at[t]]
  /\ UNCHANGED <<topic, orderTables, tradeTables, eventLog, bookTables, offsets, logged, stops>>

TaskStep(t) ==
  \/ SaveContext(t) \/ MarkAccepted(t) \/ MarkRejected(t) \/ SkipRecord(t)
  \/ LogEvent(t) \/ ProjectOpened(t) \/ ProjectCancelled(t) \/ ProjectTrade(t)
  \/ ProjectDelta(t) \/ ProjectOther(t) \/ WaitForContext(t) \/ Idle(t)

Next ==
  \/ \E t \in Task : TaskStep(t)
  \/ \E i \in Instance : Stop(i) \/ Start(i)

Spec == Init /\ [][Next]_vars
=============================================================================
