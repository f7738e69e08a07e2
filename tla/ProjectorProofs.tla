--------------------------- MODULE ProjectorProofs ---------------------------
(***************************************************************************)
(* The projector's read models, for any number of processes, partitions,    *)
(* orders, users and restarts and any history of the topics: progress, the  *)
(* order book, the marks of positions, the statuses of orders and, last,    *)
(* positions and the fills they are linked to.  Where the code relies on    *)
(* what the engine sends, that is a hypothesis of the theorem               *)
(* (CancelsAreOfOpenOrders, ReduceOnlyReduces).                             *)
(***************************************************************************)
EXTENDS ProjectorProperties, SumTheorems, TLAPS

Status ==
  {"NONE", "PENDING", "ACCEPTED", "REJECTED", "OPEN", "PARTIAL", "FILLED", "CANCELLED"}

OrderRow ==
  [status: Status, side: Side, quantity: Nat, margin: Nat, reduceOnly: BOOLEAN]

(***************************************************************************)
(* The types of the progress of the tasks and of contexts and orders.       *)
(***************************************************************************)
ProgressOK ==
  /\ topic \in [Partition -> Seq(Record)]
  /\ offsets \in [Partition -> Nat \ {0}]
  /\ at \in [Task -> Nat]
  /\ logged \subseteq Task
  /\ \A p \in Partition : offsets[p] <= Len(topic[p]) + 1

OrdersOK ==
  /\ contexts \in [Order -> [status: Status, known: BOOLEAN]]
  /\ orders \in [Order -> OrderRow]

(***************************************************************************)
(* No task is ahead of the stored offset of its partition, and what it has  *)
(* logged is the event at hand.  Only a context that is stored has an order *)
(* id.                                                                      *)
(***************************************************************************)
TasksBehindOffsets == \A t \in Task : at[t] <= offsets[t[2]]

LoggedEvents ==
  \A t \in logged :
    /\ AtRecord(t, EventType)
    /\ EventLogId(RecordAt(t)) \in eventLog

KnownAreStored == \A o \in Order : contexts[o].known => HasContext(o)

ProgressInv ==
  /\ ProgressOK /\ OrdersOK
  /\ TasksBehindOffsets /\ LoggedEvents /\ KnownAreStored /\ NothingUnprojected

(***************************************************************************)
(* What a step may never take back: contexts, order ids, rows of orders,    *)
(* fills, log rows and book events.                                         *)
(***************************************************************************)
TablesGrow ==
  /\ \A o \in Order : HasContext(o) => HasContext(o)'
  /\ \A o \in Order : contexts[o].known => contexts'[o].known
  /\ \A o \in Order : HasOrder(o) => HasOrder(o)'
  /\ fills \subseteq fills' /\ eventLog \subseteq eventLog' /\ bookEvents \subseteq bookEvents'

-----------------------------------------------------------------------------
\* The record at hand.
LEMMA RecordTyped ==
  ASSUME ProgressOK, NEW t \in Task, HasRecord(t)
  PROVE  /\ t[2] \in Partition /\ at[t] \in 1 .. Len(topic[t[2]]) /\ at[t] \in Nat
         /\ RecordAt(t) \in Record
<1>1. t[2] \in Partition /\ topic[t[2]] \in Seq(Record) /\ at[t] \in Nat
  BY DEF Task, ProgressOK
<1> HIDE DEF Record
<1> QED
  BY <1>1 DEF HasRecord, RecordAt

\* Which fields a record has follows from its type.
LEMMA RecordFields ==
  ASSUME NEW e \in Record
  PROVE  /\ e.type \in {"PlaceOrder", "LiquidatePosition", "Accepted", "Rejected",
                        "OrderOpened", "OrderCancelled"} => e.order \in Order
         /\ e.type = "TradeExecuted" =>
              /\ e.order \in [Role -> Order] /\ e.reservation \in [Role -> BOOLEAN]
              /\ e.market \in Market /\ e.price \in Price /\ e.quantity \in Nat \ {0}
              /\ e.positionSide \in Side \cup {"NONE"}
         /\ e.type = "OrderBookDelta" => e.market \in Market /\ e.id \in Nat
BY DEF Record

\* What has been projected stays projected.
LEMMA ProjectedStays ==
  ASSUME NEW e \in Record, Projected(e), TablesGrow
  PROVE  Projected(e)'
<1>1. e.type \in EventType => EventLogId(e)' \in eventLog'
  BY DEF Projected, TablesGrow, EventLogId
<1>2. e.type \in {"PlaceOrder", "LiquidatePosition"} => HasContext(e.order)'
  BY RecordFields DEF Projected, TablesGrow
<1>3. e.type = "Accepted" => contexts'[e.order].known
  BY RecordFields DEF Projected, TablesGrow
<1>4. e.type \in {"OrderOpened", "OrderCancelled"} => HasOrder(e.order)'
  BY RecordFields DEF Projected, TablesGrow
<1>5. e.type = "TradeExecuted" => \E f \in fills' : f.id = e.id
  BY DEF Projected, TablesGrow
<1>6. e.type = "OrderBookDelta" => <<e.market, e.id>> \in bookEvents'
  BY DEF Projected, TablesGrow
<1> QED
  BY <1>1, <1>2, <1>3, <1>4, <1>5, <1>6 DEF Projected

\* The step of a task that has projected the record at hand.
LEMMA AdvanceKeepsProgress ==
  ASSUME ProgressInv, NEW t \in Task, HasRecord(t), Advance(t), TablesGrow, OrdersOK',
         KnownAreStored', NEW e, e = RecordAt(t), Projected(e)'
  PROVE  ProgressInv'
<1> USE DEF ProgressInv
<1>1. /\ t[2] \in Partition /\ at[t] \in 1 .. Len(topic[t[2]]) /\ at[t] \in Nat
      /\ e \in Record
  BY RecordTyped
<1>2. /\ topic' = topic /\ logged' = logged \ {t}
      /\ at' = [at EXCEPT ![t] = @ + 1]
      /\ offsets' = [offsets EXCEPT ![t[2]] = IF @ < at[t] + 1 THEN at[t] + 1 ELSE @]
  BY DEF Advance
<1>3. /\ offsets[t[2]] \in Nat \ {0} /\ topic[t[2]] \in Seq(Record)
      /\ Len(topic[t[2]]) \in Nat
  BY <1>1 DEF ProgressOK
<1>4. ProgressOK'
  <2>1. offsets' \in [Partition -> Nat \ {0}] /\ at' \in [Task -> Nat]
    BY <1>1, <1>2, <1>3 DEF ProgressOK
  <2>2. \A p \in Partition : offsets'[p] <= Len(topic[p]) + 1
    BY <1>1, <1>2, <1>3 DEF ProgressOK
  <2> QED
    BY <1>2, <2>1, <2>2 DEF ProgressOK
<1>5. TasksBehindOffsets'
  <2> SUFFICES ASSUME NEW u \in Task PROVE at'[u] <= offsets'[u[2]]
    BY DEF TasksBehindOffsets
  <2>1. u[2] \in Partition /\ at[u] \in Nat /\ offsets[u[2]] \in Nat \ {0}
        /\ at[u] <= offsets[u[2]]
    BY DEF Task, ProgressOK, TasksBehindOffsets
  <2> QED
    BY <1>1, <1>2, <1>3, <2>1 DEF ProgressOK
<1>6. LoggedEvents'
  <2> SUFFICES ASSUME NEW u \in logged, u # t
               PROVE  AtRecord(u, EventType)' /\ EventLogId(RecordAt(u))' \in eventLog'
    BY <1>2 DEF LoggedEvents
  <2>1. u \in Task /\ at'[u] = at[u]
    BY <1>2 DEF ProgressOK
  <2>2. AtRecord(u, EventType) /\ EventLogId(RecordAt(u)) \in eventLog
    BY DEF LoggedEvents
  <2> QED
    BY <1>2, <2>1, <2>2 DEF AtRecord, HasRecord, RecordAt, EventLogId, TablesGrow, EventType
<1>7. NothingUnprojected'
  <2> SUFFICES ASSUME NEW p \in Partition, NEW n \in 1 .. (offsets'[p] - 1)
               PROVE  Projected(topic[p][n])'
    BY <1>2 DEF NothingUnprojected
  <2>1. offsets[p] \in Nat \ {0} /\ at[t] <= offsets[t[2]]
    BY DEF ProgressOK, TasksBehindOffsets
  <2>2. n \in 1 .. (offsets[p] - 1) \/ (p = t[2] /\ n = at[t])
    BY <1>1, <1>2, <1>3, <2>1 DEF ProgressOK
  <2>3. PICK f : f = topic[p][n]
    OBVIOUS
  <2>4. Projected(f)'
    <3>1. CASE n \in 1 .. (offsets[p] - 1)
      <4>1. topic[p] \in Seq(Record) /\ offsets[p] <= Len(topic[p]) + 1
        BY DEF ProgressOK
      <4>2. n \in 1 .. Len(topic[p])
        BY <4>1, <3>1, <2>1
      <4>3. f \in Record
        BY <4>1, <4>2, <2>3
      <4>4. Projected(f)
        BY <3>1, <2>3 DEF NothingUnprojected
      <4> QED
        BY <4>3, <4>4, ProjectedStays
    <3>2. CASE p = t[2] /\ n = at[t]
      <4>1. f = e
        BY <3>2, <2>3 DEF RecordAt
      <4> QED
        BY <4>1
    <3> QED
      BY <2>2, <3>1, <3>2
  <2> QED
    BY <2>3, <2>4, <1>2
<1> QED
  BY <1>4, <1>5, <1>6, <1>7

-----------------------------------------------------------------------------
LegInfo ==
  [found: BOOLEAN, reserved: BOOLEAN, quantity: Nat, side: Side \cup {"NONE"}, margin: Nat,
   reduceOnly: BOOLEAN]

\* load_context_for_order_in_tx returns a context whose side is known, or none.
LEMMA LookupTyped ==
  ASSUME OrdersOK, NEW o \in Order, NEW byReservation \in BOOLEAN
  PROVE  /\ Lookup(o, byReservation) \in LegInfo
         /\ Lookup(o, byReservation).found => Lookup(o, byReservation).side \in Side
<1>1. InfoOf[o] \in OrderInfo
  BY ProjectorAssumption
<1>2. ContextOf(o) \in LegInfo /\ ContextOf(o).side \in Side
  BY <1>1 DEF ContextOf, LegInfo, OrderInfo, Side, Opposite
<1>3. orders[o] \in OrderRow
  BY DEF OrdersOK
<1>4. Missing \in LegInfo /\ ~Missing.found
  BY DEF Missing, LegInfo
<1> QED
  BY <1>2, <1>3, <1>4 DEF Lookup, OrderRow, LegInfo

\* So does load_trade_contexts_in_tx, for both legs of a trade.
LEMMA LegContextTyped ==
  ASSUME OrdersOK, NEW e \in Record, e.type = "TradeExecuted", NEW role \in Role
  PROVE  /\ LegContext(e, role) \in LegInfo
         /\ LegContext(e, role).found => LegContext(e, role).side \in Side
<1>1. /\ e.order \in [Role -> Order] /\ e.reservation \in [Role -> BOOLEAN]
      /\ e.quantity \in Nat \ {0} /\ e.positionSide \in Side \cup {"NONE"}
  BY RecordFields
<1> DEFINE c == Lookup(e.order[role], e.reservation[role])
           other == Lookup(e.order[OtherRole(role)], e.reservation[OtherRole(role)])
<1>2. OtherRole(role) \in Role
  BY DEF OtherRole, Role
<1>3. /\ c \in LegInfo /\ other \in LegInfo
      /\ c.found => c.side \in Side
  BY <1>1, <1>2, LookupTyped
<1> HIDE DEF c, other
<1>4. other.side \in Side \cup {"NONE"}
  BY <1>3 DEF LegInfo
<1>5. SyntheticSide(e, role, other.side) \in Side
  BY <1>1, <1>4 DEF SyntheticSide, Side, Opposite
<1>6. LegContext(e, role) =
        IF c.found \/ ~IsSynthetic(e) THEN c
        ELSE [found |-> TRUE, reserved |-> FALSE, quantity |-> e.quantity, margin |-> 0,
              side |-> SyntheticSide(e, role, other.side), reduceOnly |-> TRUE]
  BY DEF LegContext, c, other
<1> QED
  BY <1>1, <1>3, <1>5, <1>6 DEF LegInfo

-----------------------------------------------------------------------------
\* save_order_context, mark_order_accepted, mark_order_rejected and records of
\* no interest.
LEMMA ReplyKeepsProgress ==
  ASSUME ProgressInv, NEW t \in Task,
         SaveContext(t) \/ MarkAccepted(t) \/ MarkRejected(t) \/ SkipRecord(t)
  PROVE  ProgressInv'
<1> USE DEF ProgressInv
<1>1. HasRecord(t) /\ Advance(t)
  BY DEF SaveContext, MarkAccepted, MarkRejected, SkipRecord, AtRecord
<1>2. PICK e \in Record : e = RecordAt(t)
  BY <1>1, RecordTyped
<1>3. UNCHANGED <<orders, fills, eventLog, bookEvents>>
  BY DEF SaveContext, MarkAccepted, MarkRejected, SkipRecord, orderTables, tradeTables, bookTables
<1>4. \/ e.type = "Other" /\ contexts' = contexts
      \/ /\ e.type \in {"PlaceOrder", "LiquidatePosition"}
         /\ HasContext(e.order) /\ contexts' = contexts
      \/ /\ e.type \in {"PlaceOrder", "LiquidatePosition"}
         /\ ~HasContext(e.order) /\ SetContext(e.order, "PENDING", FALSE)
      \/ /\ e.type = "Accepted" /\ HasContext(e.order)
         /\ SetContext(e.order, AcceptedStatus(contexts[e.order].status), TRUE)
      \/ /\ e.type = "Rejected" /\ HasContext(e.order)
         /\ SetContext(e.order, RejectedStatus(contexts[e.order].status),
                       contexts[e.order].known)
  BY <1>2 DEF SaveContext, MarkAccepted, MarkRejected, SkipRecord, AtRecord, orderTables
<1>5. e.type # "Other" => e.order \in Order
  BY <1>2, <1>4, RecordFields
<1>6. contexts \in [Order -> [status: Status, known: BOOLEAN]]
  BY DEF OrdersOK
<1>7. /\ contexts' \in [Order -> [status: Status, known: BOOLEAN]]
      /\ \A o \in Order : contexts[o].status # "NONE" => contexts'[o].status # "NONE"
      /\ \A o \in Order : contexts[o].known => contexts'[o].known
      /\ \A o \in Order : contexts'[o].known => contexts'[o].status # "NONE"
      /\ e.type \in {"PlaceOrder", "LiquidatePosition"} => contexts'[e.order].status # "NONE"
      /\ e.type = "Accepted" => contexts'[e.order].known
  <2> DEFINE Kept == \/ e.type = "Other"
                     \/ /\ e.type \in {"PlaceOrder", "LiquidatePosition"}
                        /\ HasContext(e.order)
  <2>1. CASE Kept
    <3>1. contexts' = contexts
      BY <2>1, <1>4
    <3> QED
      BY <2>1, <3>1, <1>6 DEF HasContext, KnownAreStored
  <2>2. CASE ~Kept
    <3>1. PICK status \in Status \ {"NONE"}, known \in BOOLEAN :
            /\ SetContext(e.order, status, known)
            /\ contexts[e.order].known => known
            /\ e.type = "Accepted" => known
      <4>1. contexts[e.order].status \in Status /\ contexts[e.order].known \in BOOLEAN
            /\ (contexts[e.order].known => HasContext(e.order))
        BY <2>2, <1>4, <1>5, <1>6 DEF KnownAreStored
      <4> QED
        BY <4>1, <2>2, <1>4 DEF AcceptedStatus, RejectedStatus, Status
    <3>2. e.order \in Order
      BY <2>2, <1>4, <1>5
    <3>3. contexts' = [contexts EXCEPT ![e.order] = [status |-> status, known |-> known]]
      BY <3>1 DEF SetContext
    <3> QED
      BY <3>1, <3>2, <3>3, <1>6 DEF HasContext, KnownAreStored
  <2> QED
    BY <2>1, <2>2
<1>8. OrdersOK' /\ KnownAreStored' /\ TablesGrow
  BY <1>3, <1>7 DEF OrdersOK, KnownAreStored, TablesGrow, HasContext, HasOrder
<1>9. Projected(e)'
  BY <1>4, <1>7 DEF Projected, HasContext, EventType
<1> QED
  BY <1>1, <1>2, <1>8, <1>9, AdvanceKeepsProgress

\* The order's row after upsert_order_in_tx.
LEMMA UpsertTyped ==
  ASSUME OrdersOK, NEW o \in Order, NEW c \in LegInfo, c.side \in Side,
         NEW status \in Status \ {"NONE"}, UpsertOrder(o, c, status)
  PROVE  /\ orders' \in [Order -> OrderRow] /\ orders'[o].status # "NONE"
         /\ \A x \in Order : orders[x].status # "NONE" => orders'[x].status # "NONE"
<1>1. orders \in [Order -> OrderRow] /\ orders[o] \in OrderRow
  BY DEF OrdersOK
<1>2. PICK row : /\ orders' = [orders EXCEPT ![o] = row]
                 /\ row = IF HasOrder(o)
                            THEN [orders[o] EXCEPT !.status = status, !.reduceOnly = c.reduceOnly]
                            ELSE Row(c, status)
  BY <1>1 DEF UpsertOrder
<1>3. row \in OrderRow /\ row.status # "NONE"
  BY <1>1, <1>2 DEF OrderRow, Row, LegInfo
<1> QED
  BY <1>1, <1>2, <1>3

\* project_order_opened and project_order_cancelled.
LEMMA OrderEventKeepsProgress ==
  ASSUME ProgressInv, NEW t \in Task, ProjectOpened(t) \/ ProjectCancelled(t)
  PROVE  ProgressInv'
<1> USE DEF ProgressInv
<1>1. HasRecord(t) /\ Advance(t) /\ t \in logged
  BY DEF ProjectOpened, ProjectCancelled, AtEvent, AtRecord
<1>2. PICK e \in Record : e = RecordAt(t)
  BY <1>1, RecordTyped
<1>3. UNCHANGED <<fills, eventLog, bookEvents>>
  BY DEF ProjectOpened, ProjectCancelled, tradeTables, bookTables
<1>4. e.type \in {"OrderOpened", "OrderCancelled"}
  BY <1>2 DEF ProjectOpened, ProjectCancelled, AtEvent, AtRecord
<1>5. PICK o \in Order : o = e.order
  BY <1>4, RecordFields
<1>6. /\ contexts \in [Order -> [status: Status, known: BOOLEAN]]
      /\ contexts[o] \in [status: Status, known: BOOLEAN]
      /\ orders[o].status \in Status
  BY DEF OrdersOK, OrderRow
<1>7. PICK c \in LegInfo, status \in Status \ {"NONE"} :
        /\ c.side \in Side
        /\ UpsertOrder(o, c, status)
        /\ \/ ~HasContext(o) /\ contexts' = contexts
           \/ \E st \in Status \ {"NONE"} : SetContext(o, st, TRUE)
  <2>1. CASE ProjectOpened(t)
    <3>1. /\ HasContext(o) /\ SetContext(o, OpenedStatus(contexts[o].status), TRUE)
          /\ UpsertOrder(o, ContextOf(o), OpenedRowStatus(orders[o].status))
      BY <2>1, <1>2, <1>5 DEF ProjectOpened
    <3>2. Lookup(o, TRUE) = ContextOf(o) /\ ContextOf(o).found
      BY <3>1 DEF Lookup, ContextOf
    <3>3. ContextOf(o) \in LegInfo /\ ContextOf(o).side \in Side
      BY <3>2, LookupTyped
    <3>4. /\ OpenedStatus(contexts[o].status) \in Status \ {"NONE"}
          /\ OpenedRowStatus(orders[o].status) \in Status \ {"NONE"}
      BY <1>6 DEF OpenedStatus, OpenedRowStatus, Status
    <3> QED
      BY <3>1, <3>3, <3>4
  <2>2. CASE ProjectCancelled(t)
    <3>1. /\ Lookup(o, TRUE).found
          /\ IF HasContext(o) THEN SetContext(o, "CANCELLED", TRUE) ELSE UNCHANGED contexts
          /\ UpsertOrder(o, Lookup(o, TRUE), "CANCELLED")
      BY <2>2, <1>2, <1>5 DEF ProjectCancelled
    <3>2. Lookup(o, TRUE) \in LegInfo /\ Lookup(o, TRUE).side \in Side
      BY <3>1, LookupTyped
    <3>3. "CANCELLED" \in Status \ {"NONE"}
      BY DEF Status
    <3> QED
      BY <3>1, <3>2, <3>3
  <2> QED
    BY <2>1, <2>2
<1>8. /\ orders' \in [Order -> OrderRow] /\ orders'[o].status # "NONE"
      /\ \A x \in Order : orders[x].status # "NONE" => orders'[x].status # "NONE"
  BY <1>7, UpsertTyped
<1>9. /\ contexts' \in [Order -> [status: Status, known: BOOLEAN]]
      /\ \A x \in Order : contexts[x].status # "NONE" => contexts'[x].status # "NONE"
      /\ \A x \in Order : contexts[x].known => contexts'[x].known
      /\ \A x \in Order : contexts'[x].known => contexts'[x].status # "NONE"
  <2>1. CASE contexts' = contexts
    BY <2>1, <1>6 DEF KnownAreStored, HasContext
  <2>2. ASSUME NEW st \in Status \ {"NONE"}, SetContext(o, st, TRUE)
        PROVE  <1>9!1 /\ <1>9!2 /\ <1>9!3 /\ <1>9!4
    <3>1. contexts' = [contexts EXCEPT ![o] = [status |-> st, known |-> TRUE]]
      BY <2>2 DEF SetContext
    <3> QED
      BY <3>1, <1>6 DEF KnownAreStored, HasContext
  <2> QED
    BY <2>1, <2>2, <1>7
<1>10. OrdersOK' /\ KnownAreStored' /\ TablesGrow
  BY <1>3, <1>8, <1>9 DEF OrdersOK, KnownAreStored, TablesGrow, HasContext, HasOrder
<1>11. EventLogId(e) \in eventLog
  BY <1>1, <1>2 DEF LoggedEvents
<1>12. Projected(e)'
  BY <1>3, <1>4, <1>5, <1>8, <1>11 DEF Projected, HasOrder, EventLogId
<1> QED
  BY <1>1, <1>2, <1>10, <1>12, AdvanceKeepsProgress

\* project_orderbook_delta and project_engine_event_log.
LEMMA BookEventKeepsProgress ==
  ASSUME ProgressInv, NEW t \in Task, ProjectDelta(t) \/ ProjectOther(t)
  PROVE  ProgressInv'
<1> USE DEF ProgressInv
<1>1. HasRecord(t) /\ Advance(t) /\ t \in logged
  BY DEF ProjectDelta, ProjectOther, AtEvent, AtRecord
<1>2. PICK e \in Record : e = RecordAt(t)
  BY <1>1, RecordTyped
<1>3. UNCHANGED <<contexts, orders, fills>>
  BY DEF ProjectDelta, ProjectOther, tradeTables, orderTables
<1>4. /\ eventLog \subseteq eventLog' /\ bookEvents \subseteq bookEvents'
      /\ \/ e.type = "OrderBookDelta" /\ <<e.market, e.id>> \in bookEvents'
         \/ e.type = "OtherEvent"
  BY <1>2 DEF ProjectDelta, ProjectOther, AtEvent, AtRecord, bookTables, WithLogEntry
<1>5. OrdersOK' /\ KnownAreStored' /\ TablesGrow
  BY <1>3, <1>4 DEF OrdersOK, KnownAreStored, TablesGrow, HasContext, HasOrder
<1>6. EventLogId(e) \in eventLog
  BY <1>1, <1>2 DEF LoggedEvents
<1>7. Projected(e)'
  BY <1>4, <1>6 DEF Projected, EventLogId
<1> QED
  BY <1>1, <1>2, <1>5, <1>7, AdvanceKeepsProgress

\* An order and its context after a fill: rows and order ids stay.
LEMMA AfterFillTyped ==
  ASSUME OrdersOK, KnownAreStored, NEW o \in Order, NEW c \in LegInfo, c.side \in Side, NEW rows
  PROVE  /\ OrderAfterFill(o, c, rows) \in OrderRow
         /\ OrderAfterFill(o, c, rows).status # "NONE"
         /\ ContextAfterFill(o, c, rows) \in [status: Status, known: BOOLEAN]
         /\ HasContext(o) => ContextAfterFill(o, c, rows).status # "NONE"
         /\ contexts[o].known => ContextAfterFill(o, c, rows).known
         /\ ContextAfterFill(o, c, rows).known => ContextAfterFill(o, c, rows).status # "NONE"
<1>1. orders[o] \in OrderRow /\ contexts[o] \in [status: Status, known: BOOLEAN]
      /\ (contexts[o].known => HasContext(o))
  BY DEF OrdersOK, KnownAreStored
<1>2. FillStatus(o, c, rows) \in Status \ {"NONE"}
  BY DEF FillStatus, Status
<1>3. OrderAfterFill(o, c, rows) \in OrderRow /\ OrderAfterFill(o, c, rows).status # "NONE"
  <2> DEFINE row == IF HasOrder(o) THEN orders[o] ELSE Row(c, "PENDING")
  <2>1. row \in OrderRow /\ row.status # "NONE"
    BY <1>1 DEF HasOrder, Row, LegInfo, OrderRow, Status
  <2>2. OrderAfterFill(o, c, rows) =
          IF row.status = "CANCELLED" THEN row ELSE [row EXCEPT !.status = FillStatus(o, c, rows)]
    BY DEF OrderAfterFill
  <2> HIDE DEF row
  <2> QED
    BY <2>1, <2>2, <1>2 DEF OrderRow
<1>4. /\ ContextAfterFill(o, c, rows) \in [status: Status, known: BOOLEAN]
      /\ HasContext(o) => ContextAfterFill(o, c, rows).status # "NONE"
      /\ contexts[o].known => ContextAfterFill(o, c, rows).known
      /\ ContextAfterFill(o, c, rows).known => ContextAfterFill(o, c, rows).status # "NONE"
  <2>1. CASE ~HasContext(o) \/ ~(contexts[o].known \/ c.reserved)
    <3>1. ContextAfterFill(o, c, rows) = contexts[o]
      BY <2>1 DEF ContextAfterFill
    <3> QED
      BY <3>1, <1>1 DEF HasContext
  <2>2. CASE HasContext(o) /\ (contexts[o].known \/ c.reserved)
    BY <2>2, <1>1, <1>2 DEF ContextAfterFill, HasContext
  <2> QED
    BY <2>1, <2>2
<1> QED
  BY <1>3, <1>4

\* project_trade_executed.
LEMMA TradeKeepsProgress ==
  ASSUME ProgressInv, NEW t \in Task, ProjectTrade(t)
  PROVE  ProgressInv'
<1> USE DEF ProgressInv
<1>1. HasRecord(t) /\ Advance(t) /\ t \in logged
  BY DEF ProjectTrade, AtEvent, AtRecord
<1>2. PICK e \in Record : e = RecordAt(t)
  BY <1>1, RecordTyped
<1>3. e.type = "TradeExecuted" /\ UNCHANGED <<eventLog, bookEvents>>
  BY <1>2 DEF ProjectTrade, AtEvent, AtRecord, bookTables
<1> DEFINE traded == {e.order[r] : r \in Role}
           RoleOf(o) == CHOOSE r \in Role : e.order[r] = o
           rows == IF Inserted(e) THEN fills \cup {FillRow(e)} ELSE fills
<1>4. /\ \A r \in Role : LegContext(e, r).found
      /\ fills' = rows
      /\ orders' = [o \in Order |->
           IF o \in traded THEN OrderAfterFill(o, LegContext(e, RoleOf(o)), rows) ELSE orders[o]]
      /\ contexts' = [o \in Order |->
           IF o \in traded THEN ContextAfterFill(o, LegContext(e, RoleOf(o)), rows)
           ELSE contexts[o]]
  BY <1>2 DEF ProjectTrade
<1>5. \A o \in traded : LegContext(e, RoleOf(o)) \in LegInfo /\ LegContext(e, RoleOf(o)).side \in Side
  <2> SUFFICES ASSUME NEW o \in traded
               PROVE  LegContext(e, RoleOf(o)) \in LegInfo /\ LegContext(e, RoleOf(o)).side \in Side
    OBVIOUS
  <2>1. RoleOf(o) \in Role
    OBVIOUS
  <2> HIDE DEF RoleOf
  <2> QED
    BY <2>1, <1>3, <1>4, LegContextTyped
<1>6. fills \subseteq rows /\ \E f \in rows : f.id = e.id
  <2>1. FillRow(e).id = e.id
    BY DEF FillRow
  <2>2. ~Inserted(e) => \E f \in fills : f.id = e.id
    BY DEF Inserted
  <2> QED
    BY <2>1, <2>2
<1> HIDE DEF traded, RoleOf, rows
<1>7. \A o \in Order :
        /\ orders'[o] \in OrderRow
        /\ orders[o].status # "NONE" => orders'[o].status # "NONE"
        /\ contexts'[o] \in [status: Status, known: BOOLEAN]
        /\ contexts[o].status # "NONE" => contexts'[o].status # "NONE"
        /\ contexts[o].known => contexts'[o].known
        /\ contexts'[o].known => contexts'[o].status # "NONE"
  <2> SUFFICES ASSUME NEW o \in Order PROVE <1>7!(o)
    OBVIOUS
  <2>1. CASE o \in traded
    <3>1. PICK c \in LegInfo : c.side \in Side /\ c = LegContext(e, RoleOf(o))
      BY <2>1, <1>5
    <3>2. /\ orders'[o] = OrderAfterFill(o, c, rows)
          /\ contexts'[o] = ContextAfterFill(o, c, rows)
      BY <2>1, <1>4, <3>1
    <3> QED
      BY <3>1, <3>2, AfterFillTyped DEF HasContext
  <2>2. CASE o \notin traded
    <3>1. orders'[o] = orders[o] /\ contexts'[o] = contexts[o]
      BY <2>2, <1>4
    <3> QED
      BY <3>1 DEF OrdersOK, KnownAreStored, HasContext
  <2> QED
    BY <2>1, <2>2
<1>8. OrdersOK' /\ KnownAreStored' /\ TablesGrow
  BY <1>3, <1>4, <1>6, <1>7 DEF OrdersOK, KnownAreStored, TablesGrow, HasContext, HasOrder
<1>9. EventLogId(e) \in eventLog
  BY <1>1, <1>2 DEF LoggedEvents
<1>10. Projected(e)'
  BY <1>3, <1>4, <1>6, <1>9 DEF Projected, EventLogId
<1> QED
  BY <1>1, <1>2, <1>8, <1>10, AdvanceKeepsProgress

-----------------------------------------------------------------------------
\* The first transaction of process_engine_event, and the sleep of a task that
\* misses a context.
LEMMA LogKeepsProgress ==
  ASSUME ProgressInv, NEW t \in Task, LogEvent(t) \/ WaitForContext(t)
  PROVE  ProgressInv'
<1> USE DEF ProgressInv
<1>1. UNCHANGED <<topic, contexts, orders, fills, bookEvents, offsets, at>>
  BY DEF LogEvent, WaitForContext, orderTables, tradeTables, bookTables
<1>2. eventLog \subseteq eventLog' /\ logged' \subseteq Task
  BY DEF LogEvent, WaitForContext, WithLogEntry, ProgressOK
<1>3. ProgressOK' /\ OrdersOK' /\ TasksBehindOffsets' /\ KnownAreStored'
  BY <1>1, <1>2 DEF ProgressOK, OrdersOK, TasksBehindOffsets, KnownAreStored, HasContext
<1>4. NothingUnprojected'
  BY <1>1, <1>2 DEF NothingUnprojected, Projected, HasContext, HasOrder, EventLogId
<1>5. LoggedEvents'
  <2> SUFFICES ASSUME NEW u \in logged'
               PROVE  AtRecord(u, EventType)' /\ EventLogId(RecordAt(u))' \in eventLog'
    BY DEF LoggedEvents
  <2>1. AtRecord(u, EventType) /\ EventLogId(RecordAt(u)) \in eventLog'
    BY <1>2 DEF LoggedEvents, LogEvent, WaitForContext, WithLogEntry
  <2> QED
    BY <1>1, <2>1 DEF AtRecord, HasRecord, RecordAt, EventLogId, EventType
<1> QED
  BY <1>3, <1>4, <1>5

\* A process ends or starts again from the stored offsets.
LEMMA ProcessKeepsProgress ==
  ASSUME ProgressInv, NEW i \in Instance, Stop(i) \/ Start(i)
  PROVE  ProgressInv'
<1> USE DEF ProgressInv
<1>1. UNCHANGED <<topic, contexts, orders, fills, eventLog, bookEvents, offsets>>
  BY DEF Stop, Start, orderTables, tradeTables, bookTables
<1>2. /\ at' \in [Task -> Nat] /\ logged' \subseteq logged
      /\ \A u \in Task : at'[u] \in {0, at[u], offsets[u[2]]}
      /\ \A u \in logged' : at'[u] = at[u]
  <2>1. \A u \in Task : u[2] \in Partition /\ offsets[u[2]] \in Nat /\ at[u] \in Nat
    BY DEF Task, ProgressOK
  <2>2. CASE Stop(i)
    BY <2>1, <2>2 DEF Stop, ProgressOK
  <2>3. CASE Start(i)
    <3>1. \A u \in logged : u[1] # i
      <4> SUFFICES ASSUME NEW u \in logged, u[1] = i PROVE FALSE
        OBVIOUS
      <4>1. u \in Task /\ u = <<i, u[2]>> /\ u[2] \in Partition
        BY DEF ProgressOK, Task
      <4>2. at[u] = 0 /\ topic[u[2]] \in Seq(Record)
        BY <4>1, <2>3 DEF Start, ProgressOK
      <4>3. at[u] \in DOMAIN topic[u[2]]
        BY DEF LoggedEvents, AtRecord, HasRecord
      <4> QED
        BY <4>2, <4>3
    <3> QED
      BY <2>1, <2>3, <3>1 DEF Start, ProgressOK
  <2> QED
    BY <2>2, <2>3
<1>3. ProgressOK' /\ OrdersOK' /\ KnownAreStored'
  BY <1>1, <1>2 DEF ProgressOK, OrdersOK, KnownAreStored, HasContext
<1>4. TasksBehindOffsets'
  <2> SUFFICES ASSUME NEW u \in Task PROVE at'[u] <= offsets[u[2]]
    BY <1>1 DEF TasksBehindOffsets
  <2>1. u[2] \in Partition /\ at[u] \in Nat /\ offsets[u[2]] \in Nat /\ at[u] <= offsets[u[2]]
    BY DEF Task, ProgressOK, TasksBehindOffsets
  <2> QED
    BY <1>2, <2>1
<1>5. LoggedEvents'
  <2> SUFFICES ASSUME NEW u \in logged'
               PROVE  AtRecord(u, EventType)' /\ EventLogId(RecordAt(u))' \in eventLog'
    BY DEF LoggedEvents
  <2>1. AtRecord(u, EventType) /\ EventLogId(RecordAt(u)) \in eventLog /\ at'[u] = at[u]
    BY <1>2 DEF LoggedEvents
  <2>2. topic' = topic /\ eventLog' = eventLog
    BY <1>1
  <2>3. RecordAt(u)' = RecordAt(u) /\ HasRecord(u)' = HasRecord(u)
    BY <2>1, <2>2 DEF RecordAt, HasRecord
  <2> QED
    BY <2>1, <2>2, <2>3 DEF AtRecord, EventLogId, EventType
<1>6. NothingUnprojected'
  BY <1>1 DEF NothingUnprojected, Projected, HasContext, HasOrder, EventLogId
<1> QED
  BY <1>3, <1>4, <1>5, <1>6

\* A step that changes nothing.
LEMMA StutterKeepsProgress ==
  ASSUME ProgressInv, UNCHANGED vars
  PROVE  ProgressInv'
BY DEF ProgressInv, ProgressOK, OrdersOK, TasksBehindOffsets, LoggedEvents, KnownAreStored,
       NothingUnprojected, Projected, HasContext, HasOrder, EventLogId, AtRecord, HasRecord,
       RecordAt, vars, orderTables, tradeTables, bookTables, progress, EventType

\* Nothing has been read in the beginning.
LEMMA ProgressInitInv == Init => ProgressInv
<1> SUFFICES ASSUME Init PROVE ProgressInv
  OBVIOUS
<1> USE DEF Init
<1>1. topic \in [Partition -> Seq(Record)]
  BY ProjectorAssumption
<1>2. \A p \in Partition : Len(topic[p]) \in Nat
  BY <1>1
<1>3. ProgressOK
  BY <1>1, <1>2 DEF ProgressOK
<1>4. OrdersOK
  BY DEF OrdersOK, NoContext, NoOrder, OrderRow, Status, Side
<1>5. TasksBehindOffsets
  BY DEF TasksBehindOffsets, Task
<1>6. LoggedEvents /\ KnownAreStored
  BY DEF LoggedEvents, KnownAreStored, NoContext
<1>7. NothingUnprojected
  BY DEF NothingUnprojected
<1> QED
  BY <1>3, <1>4, <1>5, <1>6, <1>7 DEF ProgressInv

\* One step per action.
LEMMA ProgressStepInv == ProgressInv /\ [Next]_vars => ProgressInv'
<1> SUFFICES ASSUME ProgressInv, [Next]_vars PROVE ProgressInv'
  OBVIOUS
<1>1. ASSUME NEW t \in Task, TaskStep(t) PROVE ProgressInv'
  <2>1. CASE Idle(t)
    BY <2>1, StutterKeepsProgress DEF Idle
  <2> QED
    BY <1>1, <2>1, ReplyKeepsProgress, LogKeepsProgress, OrderEventKeepsProgress,
       TradeKeepsProgress, BookEventKeepsProgress DEF TaskStep
<1> QED
  BY <1>1, ProcessKeepsProgress, StutterKeepsProgress DEF Next

\* The invariant holds in every behaviour.
LEMMA ProgressInvariant == Spec => []ProgressInv
  BY ProgressInitInv, ProgressStepInv, PTL DEF Spec

(***************************************************************************)
(* Nothing below a stored offset was skipped: whatever contexts the tasks   *)
(* had to wait for, whichever processes ended between logging an event and  *)
(* projecting it, its context, row, fill, book event and log row are there. *)
(***************************************************************************)
THEOREM ProjectorNothingUnprojected == Spec => []NothingUnprojected
<1>1. ProgressInv => NothingUnprojected
  BY DEF ProgressInv
<1> QED
  BY <1>1, ProgressInvariant, PTL

-----------------------------------------------------------------------------
(***************************************************************************)
(* The order book.  No level and no stored book event is ahead of the       *)
(* market's sequence.                                                       *)
(***************************************************************************)
BookOK ==
  /\ topic \in History
  /\ book \in [Market -> [Level -> [quantity: Nat, seq: Nat]]]
  /\ bookSeq \in [Market -> Nat]
  /\ \A m \in Market : \A l \in Level : book[m][l].seq <= bookSeq[m]
  /\ \A m \in Market : \A id \in Nat : <<m, id>> \in bookEvents => id <= bookSeq[m]

(***************************************************************************)
(* What BookMatchesDeltas says of a level, with the last delta named.       *)
(***************************************************************************)
LastDelta(m, l, e) ==
  /\ e \in Deltas(m, l)
  /\ \A f \in Deltas(m, l) : f.id <= e.id

LevelsCurrent ==
  \A m \in Market : \A l \in Level :
    \/ Deltas(m, l) = {} /\ book[m][l] = NoLevel
    \/ \E e : LastDelta(m, l, e) /\ <<l, book[m][l].quantity>> \in e.levels

BookInv == BookOK /\ LevelsCurrent

\* The delta at a place of the topics.
DeltaAt(p, n, m) ==
  /\ p \in Partition /\ n \in DOMAIN topic[p]
  /\ topic[p][n].type = "OrderBookDelta" /\ topic[p][n].market = m

LEMMA DeltasMember ==
  ASSUME NEW m, NEW l, NEW e
  PROVE  e \in Deltas(m, l) <=>
           /\ \E p \in Partition : \E n \in DOMAIN topic[p] : DeltaAt(p, n, m) /\ topic[p][n] = e
           /\ e.id <= bookSeq[m]
           /\ \E x \in e.levels : x[1] = l
BY DEF Deltas, DeltaAt

LEMMA DeltaFields ==
  ASSUME ProgressOK, NEW p, NEW n, NEW m, DeltaAt(p, n, m)
  PROVE  topic[p][n] \in Record /\ topic[p][n].id \in Nat /\ n \in Nat \ {0}
         /\ m \in Market /\ topic[p][n].levels \subseteq Level \X Nat
<1>1. topic[p] \in Seq(Record) /\ n \in 1 .. Len(topic[p]) /\ topic[p][n] \in Record
  BY DEF DeltaAt, ProgressOK
<1>2. topic[p][n].id \in Nat /\ m \in Market
  BY <1>1, RecordFields DEF DeltaAt
<1>3. topic[p][n].levels \subseteq Level \X Nat
  BY <1>1 DEF DeltaAt, Record
<1> QED
  BY <1>1, <1>2, <1>3

\* A delta is the only one with its number.
LEMMA LastDeltaUnique ==
  ASSUME ProgressOK, BookOK, NEW m, NEW l, NEW e, NEW f, LastDelta(m, l, e), LastDelta(m, l, f)
  PROVE  e = f
<1>1. PICK p, n : DeltaAt(p, n, m) /\ topic[p][n] = e
  BY DeltasMember DEF LastDelta
<1>2. PICK q, k : DeltaAt(q, k, m) /\ topic[q][k] = f
  BY DeltasMember DEF LastDelta
<1>3. e.id \in Nat /\ f.id \in Nat
  BY <1>1, <1>2, DeltaFields
<1>4. e.id <= f.id /\ f.id <= e.id
  BY DEF LastDelta
<1>5. InSequence(topic)
  BY DeltasInSequence DEF BookOK
<1> QED
  BY <1>1, <1>2, <1>3, <1>4, <1>5 DEF InSequence, DeltaAt

\* Below a stored offset every delta has been counted.
LEMMA DeltasBehindSequence ==
  ASSUME ProgressInv, BookOK, NEW p, NEW n, NEW m, DeltaAt(p, n, m), n < offsets[p]
  PROVE  topic[p][n].id <= bookSeq[m]
<1>1. topic[p][n].id \in Nat /\ n \in Nat \ {0} /\ m \in Market
  BY DeltaFields DEF ProgressInv
<1>2. offsets[p] \in Nat /\ p \in Partition
  BY DEF ProgressInv, ProgressOK, DeltaAt
<1>3. n \in 1 .. (offsets[p] - 1)
  BY <1>1, <1>2
<1>4. Projected(topic[p][n])
  BY <1>2, <1>3 DEF ProgressInv, NothingUnprojected
<1>5. <<m, topic[p][n].id>> \in bookEvents
  BY <1>4 DEF Projected, DeltaAt
<1> QED
  BY <1>1, <1>5 DEF BookOK

\* Between the stored sequence and a delta that a task is at there is no other.
LEMMA NoDeltaBetween ==
  ASSUME ProgressInv, BookOK, NEW t \in Task, NEW m, DeltaAt(t[2], at[t], m),
         NEW q, NEW k, DeltaAt(q, k, m), topic[q][k].id <= RecordAt(t).id
  PROVE  topic[q][k].id <= bookSeq[m] \/ topic[q][k] = RecordAt(t)
<1> DEFINE p == t[2]
           n == at[t]
           e == topic[p][n]
           f == topic[q][k]
<1>1. e = RecordAt(t)
  BY DEF RecordAt
<1>2. e.id \in Nat /\ f.id \in Nat /\ n \in Nat \ {0} /\ k \in Nat \ {0}
  BY DeltaFields DEF ProgressInv
<1>3. p \in Partition /\ q \in Partition
  BY DEF DeltaAt
<1>4. InSequence(topic)
  BY DeltasInSequence DEF BookOK
<1>5. /\ p = q
      /\ e.id = f.id => e = f
      /\ n < k /\ f.id < e.id => \E j \in 1 .. n - 1 : topic[p][j] = f
  BY <1>3, <1>4 DEF InSequence, DeltaAt
<1>6. n <= offsets[p] /\ offsets[p] \in Nat
  BY <1>3 DEF ProgressInv, ProgressOK, TasksBehindOffsets
<1>7. CASE k < n
  <2>1. k < offsets[q]
    BY <1>2, <1>5, <1>6, <1>7
  <2> QED
    BY <2>1, DeltasBehindSequence
<1>8. CASE n < k /\ f.id < e.id
  <2>1. PICK j \in 1 .. n - 1 : topic[p][j] = f
    BY <1>5, <1>8
  <2>2. DeltaAt(p, j, m)
    BY <2>1, <1>2, <1>5 DEF DeltaAt, ProgressInv, ProgressOK
  <2>3. j < offsets[p]
    BY <1>2, <1>6
  <2>4. topic[p][j].id <= bookSeq[m]
    BY <2>2, <2>3, DeltasBehindSequence
  <2> QED
    BY <2>1, <2>4
<1>9. CASE k = n \/ f.id = e.id
  BY <1>1, <1>5, <1>9
<1> QED
  BY <1>1, <1>2, <1>7, <1>8, <1>9

\* What apply_orderbook_level_in_tx writes.
LEMMA LevelWritten ==
  ASSUME NEW e, e.id \in Nat, e.levels \subseteq Level \X Nat, NEW l \in Level,
         NEW row \in [quantity: Nat, seq: Nat]
  PROVE  /\ LevelAfter(row, l, e) \in [quantity: Nat, seq: Nat]
         /\ LevelAfter(row, l, e).seq \in {0, row.seq, e.id}
         /\ row.seq < e.id /\ (\E x \in e.levels : x[1] = l) =>
              <<l, LevelAfter(row, l, e).quantity>> \in e.levels
         /\ ~(\E x \in e.levels : x[1] = l) => LevelAfter(row, l, e) = row
<1>1. CASE row.seq < e.id /\ \E x \in e.levels : x[1] = l
  <2>1. PICK x : x = CHOOSE y \in e.levels : y[1] = l
    OBVIOUS
  <2>2. x \in e.levels /\ x[1] = l
    BY <2>1, <1>1
  <2>3. x = <<l, x[2]>> /\ x[2] \in Nat
    BY <2>2
  <2>4. LevelAfter(row, l, e) = [quantity |-> x[2], seq |-> IF x[2] = 0 THEN 0 ELSE e.id]
    BY <2>1, <1>1 DEF LevelAfter
  <2> QED
    BY <2>2, <2>3, <2>4
<1>2. CASE ~(row.seq < e.id /\ \E x \in e.levels : x[1] = l)
  <2>1. LevelAfter(row, l, e) = row
    BY <1>2 DEF LevelAfter
  <2> QED
    BY <2>1, <1>2
<1> QED
  BY <1>1, <1>2

\* A delta that is applied: it becomes the last one of the levels it names.
LEMMA AppliedDeltaKeepsBook ==
  ASSUME ProgressInv, BookInv, NEW t \in Task, ProjectDelta(t), Applies(RecordAt(t))
  PROVE  BookInv'
<1> USE DEF ProgressInv, BookInv
<1>1. HasRecord(t) /\ Advance(t) /\ t[2] \in Partition
  BY RecordTyped DEF ProjectDelta, AtEvent, AtRecord
<1>2. PICK e : e = RecordAt(t)
  OBVIOUS
<1>3. PICK m : m = e.market
  OBVIOUS
<1>4. DeltaAt(t[2], at[t], m) /\ e = topic[t[2]][at[t]]
  BY <1>1, <1>2, <1>3 DEF ProjectDelta, AtEvent, AtRecord, HasRecord, RecordAt, DeltaAt
<1>5. m \in Market /\ e.id \in Nat /\ e.levels \subseteq Level \X Nat
  BY <1>4, DeltaFields
<1>6. /\ topic' = topic
      /\ bookEvents' = bookEvents \cup {<<m, e.id>>}
      /\ book' = [book EXCEPT ![m] = [l \in Level |-> LevelAfter(book[m][l], l, e)]]
      /\ bookSeq' = [bookSeq EXCEPT ![m] = IF @ < e.id THEN e.id ELSE @]
  BY <1>1, <1>2, <1>3 DEF ProjectDelta, Advance
<1>7. /\ bookSeq[m] \in Nat /\ bookSeq[m] < e.id
      /\ book[m] \in [Level -> [quantity: Nat, seq: Nat]]
  BY <1>2, <1>3, <1>5 DEF Applies, BookOK
<1>8. /\ bookSeq' = [bookSeq EXCEPT ![m] = e.id] /\ bookSeq'[m] = e.id
      /\ \A l \in Level : book'[m][l] = LevelAfter(book[m][l], l, e)
      /\ \A x \in Market : x # m => book'[x] = book[x] /\ bookSeq'[x] = bookSeq[x]
  BY <1>5, <1>6, <1>7 DEF BookOK
<1>9. \A l \in Level : book[m][l].seq \in Nat /\ book[m][l].seq < e.id
  BY <1>5, <1>7 DEF BookOK
<1>10. ASSUME NEW l \in Level
       PROVE  /\ book'[m][l] \in [quantity: Nat, seq: Nat]
              /\ book'[m][l].seq <= e.id
              /\ (\E y \in e.levels : y[1] = l) => <<l, book'[m][l].quantity>> \in e.levels
              /\ ~(\E y \in e.levels : y[1] = l) => book'[m][l] = book[m][l]
  <2>1. PICK row \in [quantity: Nat, seq: Nat] : row = book[m][l]
    BY <1>7
  <2>2. book'[m][l] = LevelAfter(row, l, e) /\ row.seq < e.id
    BY <1>8, <1>9, <2>1
  <2>3. /\ LevelAfter(row, l, e) \in [quantity: Nat, seq: Nat]
        /\ LevelAfter(row, l, e).seq \in {0, row.seq, e.id}
        /\ (\E y \in e.levels : y[1] = l) => <<l, LevelAfter(row, l, e).quantity>> \in e.levels
        /\ ~(\E y \in e.levels : y[1] = l) => LevelAfter(row, l, e) = row
    BY <1>5, <2>2, LevelWritten
  <2>4. row.seq \in Nat
    OBVIOUS
  <2>5. LevelAfter(row, l, e).seq <= e.id
    BY <1>5, <2>2, <2>3, <2>4
  <2> QED
    BY <2>1, <2>2, <2>3, <2>5
<1>11. BookOK'
  <2>1. \A l \in Level : /\ book'[m][l] \in [quantity: Nat, seq: Nat]
                         /\ book'[m][l].seq <= e.id
    BY <1>10
  <2>2. book' \in [Market -> [Level -> [quantity: Nat, seq: Nat]]]
    BY <1>5, <1>6, <1>8, <2>1 DEF BookOK
  <2>3. bookSeq' \in [Market -> Nat]
    BY <1>5, <1>8 DEF BookOK
  <2>4. \A x \in Market : \A l \in Level : book'[x][l].seq <= bookSeq'[x]
    BY <1>8, <2>1 DEF BookOK
  <2>5. \A x \in Market : \A id \in Nat : <<x, id>> \in bookEvents' => id <= bookSeq'[x]
    BY <1>5, <1>6, <1>7, <1>8 DEF BookOK
  <2> QED
    BY <1>6, <2>2, <2>3, <2>4, <2>5 DEF BookOK
<1>12. LevelsCurrent'
  <2> SUFFICES ASSUME NEW x \in Market, NEW l \in Level
               PROVE  \/ Deltas(x, l)' = {} /\ book'[x][l] = NoLevel
                      \/ \E f : LastDelta(x, l, f)' /\ <<l, book'[x][l].quantity>> \in f.levels
    BY DEF LevelsCurrent, NoLevel
  <2>1. \/ Deltas(x, l) = {} /\ book[x][l] = NoLevel
        \/ \E f : LastDelta(x, l, f) /\ <<l, book[x][l].quantity>> \in f.levels
    BY DEF LevelsCurrent
  <2>2. CASE x # m
    <3>1. Deltas(x, l)' = Deltas(x, l) /\ book'[x] = book[x]
      BY <1>6, <1>8, <2>2 DEF Deltas
    <3> QED
      BY <2>1, <3>1 DEF LastDelta
  <2>3. CASE x = m /\ \E y \in e.levels : y[1] = l
    <3>1. e \in Deltas(x, l)'
      BY <1>4, <1>5, <1>6, <1>8, <2>3 DEF Deltas, DeltaAt
    <3>2. \A f \in Deltas(x, l)' : f.id <= e.id
      BY <1>8, <2>3 DEF Deltas
    <3>3. <<l, book'[x][l].quantity>> \in e.levels
      BY <1>10, <2>3
    <3> QED
      BY <3>1, <3>2, <3>3 DEF LastDelta
  <2>4. CASE x = m /\ ~\E y \in e.levels : y[1] = l
    <3>1. book'[x][l] = book[x][l]
      BY <1>10, <2>4
    <3>2. Deltas(x, l)' = Deltas(x, l)
      <4>1. ASSUME NEW f \in Deltas(x, l)' PROVE f \in Deltas(x, l)
        <5>1. PICK q, k : DeltaAt(q, k, m) /\ topic[q][k] = f
          BY <1>6, <2>4 DEF Deltas, DeltaAt
        <5>2. f.id <= e.id /\ \E y \in f.levels : y[1] = l
          BY <1>8, <2>4 DEF Deltas
        <5>3. f.id <= bookSeq[m] \/ f = e
          <6>1. topic[q][k].id <= RecordAt(t).id
            BY <1>2, <5>1, <5>2
          <6>2. topic[q][k].id <= bookSeq[m] \/ topic[q][k] = RecordAt(t)
            BY <1>4, <5>1, <6>1, NoDeltaBetween
          <6> QED
            BY <1>2, <5>1, <6>2
        <5> QED
          BY <5>1, <5>2, <5>3, <2>4 DEF Deltas, DeltaAt
      <4>2. ASSUME NEW f \in Deltas(x, l) PROVE f \in Deltas(x, l)'
        <5>1. PICK q, k : DeltaAt(q, k, m) /\ topic[q][k] = f
          BY <2>4 DEF Deltas, DeltaAt
        <5>2. f.id \in Nat /\ f.id <= bookSeq[m]
          BY <5>1, <2>4, DeltaFields DEF Deltas
        <5>3. f.id <= e.id
          BY <5>2, <1>5, <1>7
        <5> QED
          BY <5>3, <1>6, <1>8, <2>4 DEF Deltas
      <4> QED
        BY <4>1, <4>2
    <3> QED
      BY <2>1, <3>1, <3>2 DEF LastDelta
  <2> QED
    BY <2>2, <2>3, <2>4
<1> QED
  BY <1>11, <1>12

\* A delta that has been applied before.
LEMMA SkippedDeltaKeepsBook ==
  ASSUME ProgressInv, BookInv, NEW t \in Task, ProjectDelta(t), ~Applies(RecordAt(t))
  PROVE  BookInv'
<1> USE DEF ProgressInv, BookInv
<1>1. HasRecord(t) /\ Advance(t)
  BY DEF ProjectDelta, AtEvent, AtRecord
<1>2. PICK e \in Record : e = RecordAt(t)
  BY <1>1, RecordTyped
<1>3. e.type = "OrderBookDelta"
  BY <1>2 DEF ProjectDelta, AtEvent, AtRecord
<1>4. e.market \in Market /\ e.id \in Nat
  BY <1>3, RecordFields
<1>5. UNCHANGED <<topic, book, bookSeq>> /\ bookEvents' = bookEvents \cup {<<e.market, e.id>>}
  BY <1>1, <1>2 DEF ProjectDelta, Advance
<1>6. e.id <= bookSeq[e.market]
  <2>1. bookSeq[e.market] \in Nat
    BY <1>4 DEF BookOK
  <2> QED
    BY <1>2, <1>4, <2>1 DEF Applies, BookOK
<1>7. BookOK'
  BY <1>4, <1>5, <1>6 DEF BookOK
<1>8. LevelsCurrent'
  BY <1>5 DEF LevelsCurrent, LastDelta, Deltas, NoLevel
<1> QED
  BY <1>7, <1>8

\* A step that leaves the book alone.
LEMMA BookUnchanged ==
  ASSUME BookInv, UNCHANGED <<topic, book, bookSeq, bookEvents>>
  PROVE  BookInv'
<1>1. BookOK'
  BY DEF BookInv, BookOK
<1>2. LevelsCurrent'
  BY DEF BookInv, LevelsCurrent, LastDelta, Deltas, NoLevel
<1> QED
  BY <1>1, <1>2 DEF BookInv

\* There is no delta with number 0.
LEMMA BookInitInv == Init => BookInv
<1> SUFFICES ASSUME Init PROVE BookInv
  OBVIOUS
<1> USE DEF Init
<1>1. BookOK
  BY DEF BookOK, NoLevel
<1>2. ProgressOK
  BY ProgressInitInv DEF ProgressInv
<1>3. ASSUME NEW m \in Market, NEW l \in Level, NEW e \in Deltas(m, l) PROVE FALSE
  <2>1. PICK p, n : DeltaAt(p, n, m) /\ topic[p][n] = e
    BY DEF Deltas, DeltaAt
  <2>2. e.id \in Nat /\ e.id <= 0
    BY <1>2, <2>1, DeltaFields DEF Deltas
  <2>3. e.id > 0
    BY <2>1, DeltasInSequence DEF InSequence, DeltaAt
  <2> QED
    BY <2>2, <2>3
<1>4. LevelsCurrent
  BY <1>3 DEF LevelsCurrent
<1> QED
  BY <1>1, <1>4 DEF BookInv

\* Only ProjectDelta writes the book.
LEMMA BookStepInv == ProgressInv /\ BookInv /\ [Next]_vars => BookInv'
<1> SUFFICES ASSUME ProgressInv, BookInv, [Next]_vars PROVE BookInv'
  OBVIOUS
<1>1. ASSUME NEW t \in Task, TaskStep(t) PROVE BookInv'
  <2>1. CASE ProjectDelta(t)
    BY <2>1, AppliedDeltaKeepsBook, SkippedDeltaKeepsBook
  <2>2. CASE SaveContext(t) \/ MarkAccepted(t) \/ MarkRejected(t) \/ SkipRecord(t)
    BY <2>2, BookUnchanged
       DEF SaveContext, MarkAccepted, MarkRejected, SkipRecord, Advance, bookTables
  <2>3. CASE ProjectOpened(t) \/ ProjectCancelled(t) \/ ProjectTrade(t) \/ ProjectOther(t)
    BY <2>3, BookUnchanged
       DEF ProjectOpened, ProjectCancelled, ProjectTrade, ProjectOther, Advance, bookTables
  <2>4. CASE LogEvent(t) \/ WaitForContext(t) \/ Idle(t)
    BY <2>4, BookUnchanged DEF LogEvent, WaitForContext, Idle, bookTables, vars
  <2> QED
    BY <1>1, <2>1, <2>2, <2>3, <2>4 DEF TaskStep
<1>2. ASSUME NEW i \in Instance, Stop(i) \/ Start(i) PROVE BookInv'
  BY <1>2, BookUnchanged DEF Stop, Start, bookTables
<1>3. CASE UNCHANGED vars
  BY <1>3, BookUnchanged DEF vars, bookTables
<1> QED
  BY <1>1, <1>2, <1>3 DEF Next

\* The invariant, with the last delta of a level as BookMatchesDeltas chooses it.
LEMMA BookInvMatches ==
  ASSUME ProgressInv, BookInv
  PROVE  BookMatchesDeltas
<1> SUFFICES ASSUME NEW m \in Market, NEW l \in Level
             PROVE  IF Deltas(m, l) = {} THEN book[m][l] = NoLevel
                    ELSE LET last == CHOOSE e \in Deltas(m, l) : \A f \in Deltas(m, l) : f.id <= e.id
                         IN <<l, book[m][l].quantity>> \in last.levels
  BY DEF BookMatchesDeltas
<1>1. CASE Deltas(m, l) = {}
  BY <1>1 DEF BookInv, LevelsCurrent, LastDelta
<1>2. CASE Deltas(m, l) # {}
  <2>1. PICK e : LastDelta(m, l, e) /\ <<l, book[m][l].quantity>> \in e.levels
    BY <1>2 DEF BookInv, LevelsCurrent
  <2> DEFINE last == CHOOSE f \in Deltas(m, l) : \A g \in Deltas(m, l) : g.id <= f.id
  <2>2. LastDelta(m, l, last)
    BY <2>1 DEF LastDelta
  <2> HIDE DEF last
  <2>3. last = e
    BY <2>1, <2>2, LastDeltaUnique DEF BookInv, ProgressInv
  <2> QED
    BY <1>2, <2>1, <2>3 DEF last
<1> QED
  BY <1>1, <1>2

(***************************************************************************)
(* The stored book is what the engine's deltas up to the stored sequence    *)
(* make, although deltas come again, processes on the same partition lag    *)
(* behind each other and start again from a stored offset: Applies lets no  *)
(* old delta through and leaves no delta out.                               *)
(***************************************************************************)
THEOREM ProjectorBookMatchesDeltas == Spec => []BookMatchesDeltas
<1>1. Spec => []BookInv
  BY ProgressInvariant, BookInitInv, BookStepInv, PTL DEF Spec
<1>2. ProgressInv /\ BookInv => BookMatchesDeltas
  BY BookInvMatches
<1> QED
  BY <1>1, <1>2, ProgressInvariant, PTL

-----------------------------------------------------------------------------
(***************************************************************************)
(* Positions.  A position has its fields, whatever a trade makes of it.     *)
(***************************************************************************)
Position ==
  [side: Side, quantity: Nat, margin: Int, average: Int, pnl: Int,
   openOrder: Order \cup {NoPosition.openOrder}, fills: SUBSET Nat]

PositionsOK ==
  /\ positions \in [Account -> Position]
  /\ lastPrice \in [Market -> Nat]

PnlInv == PositionsOK /\ PnlAtLastPrice

\* proportional_margin and the other amounts are integers.
LEMMA AmountsTyped ==
  ASSUME NEW margin \in Int, NEW of \in Int, NEW quantity \in Int
  PROVE  ProportionalMargin(margin, of, quantity) \in Int
<1>1. of > 0 => (margin * quantity) \div of \in Int
  OBVIOUS
<1> QED
  BY <1>1 DEF ProportionalMargin, AtLeastOne

LEMMA PnlTyped ==
  ASSUME NEW side, NEW entry \in Int, NEW exit \in Int, NEW quantity \in Int
  PROVE  Pnl(side, entry, exit, quantity) \in Int
BY DEF Pnl

\* A position that a leg opens, increases, reduces or reverses.
LEMMA OpenedTyped ==
  ASSUME NEW c \in LegInfo, c.side \in Side, NEW o \in Order, NEW e, e.price \in Nat,
         e.id \in Nat, NEW quantity \in Nat
  PROVE  OpenPosition(c, o, e, quantity) \in Position
<1>1. c.margin \in Int /\ c.quantity \in Int /\ quantity \in Int
  BY DEF LegInfo
<1>2. ProportionalMargin(c.margin, c.quantity, quantity) \in Int
  BY <1>1, AmountsTyped
<1> QED
  BY <1>2 DEF OpenPosition, Position

LEMMA IncreasedTyped ==
  ASSUME NEW p \in Position, NEW c \in LegInfo, NEW e, e.price \in Nat, e.id \in Nat,
         e.quantity \in Nat \ {0}
  PROVE  Increase(p, c, e) \in Position
<1>1. /\ c.margin \in Int /\ c.quantity \in Int /\ e.quantity \in Int /\ e.price \in Int
      /\ p.quantity \in Nat /\ p.average \in Int /\ p.margin \in Int /\ p.fills \subseteq Nat
  BY DEF LegInfo, Position
<1>2. ProportionalMargin(c.margin, c.quantity, e.quantity) \in Int
  BY <1>1, AmountsTyped
<1>3. WeightedAverage(p.average, p.quantity, e.price, e.quantity) \in Int
  <2>1. p.average * p.quantity + e.price * e.quantity \in Int /\ p.quantity + e.quantity > 0
        /\ p.quantity + e.quantity \in Int
    BY <1>1
  <2> QED
    BY <2>1 DEF WeightedAverage
<1>4. PICK p1 : p1 = [p EXCEPT !.quantity = p.quantity + e.quantity]
  OBVIOUS
<1>5. PICK p2 : p2 = [p1 EXCEPT !.margin =
                        p.margin + ProportionalMargin(c.margin, c.quantity, e.quantity)]
  OBVIOUS
<1>6. PICK p3 : p3 = [p2 EXCEPT !.average =
                        WeightedAverage(p.average, p.quantity, e.price, e.quantity)]
  OBVIOUS
<1>7. p1 \in Position
  BY <1>1, <1>4 DEF Position
<1>8. p2 \in Position
  BY <1>1, <1>2, <1>5, <1>7 DEF Position
<1>9. p3 \in Position
  BY <1>3, <1>6, <1>8 DEF Position
<1>10. Increase(p, c, e) = [p3 EXCEPT !.fills = p.fills \cup {e.id}]
  BY <1>4, <1>5, <1>6 DEF Increase
<1>11. p.fills \cup {e.id} \subseteq Nat
  BY <1>1
<1> QED
  BY <1>9, <1>10, <1>11 DEF Position

LEMMA ReducedTyped ==
  ASSUME NEW p \in Position, NEW c \in LegInfo, c.side \in Side, NEW o \in Order, NEW e,
         e.price \in Nat, e.id \in Nat, e.quantity \in Nat \ {0}
  PROVE  Reduced(p, c, o, e) \in Position
<1>1. p.quantity \in Nat /\ p.margin \in Int
  BY DEF Position
<1>2. PICK n \in Nat : n = ClosedQuantity(p, e) /\ n <= p.quantity /\ n <= e.quantity
  BY <1>1 DEF ClosedQuantity
<1>3. ClosedMargin(p, e) \in Int
  <2>1. ClosedMargin(p, e) = ProportionalMargin(p.margin, p.quantity, n)
    BY <1>2 DEF ClosedMargin
  <2>2. p.quantity \in Int /\ n \in Int
    BY <1>1
  <2> QED
    BY <1>1, <2>1, <2>2, AmountsTyped
<1>4. PICK rest \in Int : rest = p.margin - ClosedMargin(p, e)
  BY <1>1, <1>3
<1>5. CASE n < p.quantity
  <2>1. Reduced(p, c, o, e) =
          [p EXCEPT !.quantity = p.quantity - n, !.margin = IF rest < 0 THEN 0 ELSE rest]
    BY <1>2, <1>4, <1>5 DEF Reduced
  <2>2. p.quantity - n \in Nat /\ (IF rest < 0 THEN 0 ELSE rest) \in Int
    BY <1>1, <1>5
  <2> QED
    BY <2>1, <2>2 DEF Position
<1>6. CASE ~(n < p.quantity) /\ e.quantity > n
  <2>1. Reduced(p, c, o, e) = OpenPosition(c, o, e, e.quantity - n) /\ e.quantity - n \in Nat
    BY <1>2, <1>6 DEF Reduced
  <2> QED
    BY <2>1, OpenedTyped
<1>7. CASE ~(n < p.quantity) /\ ~(e.quantity > n)
  <2>1. Reduced(p, c, o, e) = NoPosition
    BY <1>2, <1>7 DEF Reduced
  <2> QED
    BY <2>1 DEF NoPosition, Position, Side
<1> QED
  BY <1>5, <1>6, <1>7

\* Positions of other markets than the trade's are as before.
OthersKept(s, ps, e) ==
  \E qs, ds :
    /\ qs \in [Account -> Position]
    /\ s = [positions |-> qs, closed |-> ds]
    /\ \A a \in Account : a[2] # e.market => qs[a] = ps[a]

\* project_position_for_fill_in_tx changes accounts of the trade's market only.
LEMMA LegKeepsOthers ==
  ASSUME OrdersOK, NEW e \in Record, e.type = "TradeExecuted", NEW role \in Role,
         LegContext(e, role).found, NEW ps \in [Account -> Position], NEW cs
  PROVE  OthersKept(ApplyLeg([positions |-> ps, closed |-> cs], e, role), ps, e)
<1>1. /\ e.order[role] \in Order /\ e.market \in Market
      /\ e.price \in Nat /\ e.quantity \in Nat \ {0} /\ e.id \in Nat
  <2>1. e.order \in [Role -> Order] /\ e.market \in Market /\ e.price \in Price
        /\ e.quantity \in Nat \ {0}
    BY RecordFields
  <2>2. e.id \in Nat
    BY DEF Record
  <2> QED
    BY <2>1, <2>2, ProjectorAssumption
<1>2. PICK o \in Order : o = e.order[role]
  BY <1>1
<1>3. PICK c \in LegInfo : c.side \in Side /\ c = LegContext(e, role)
  BY LegContextTyped
<1>4. PICK account \in Account : account = <<InfoOf[o].user, e.market>>
  <2>1. InfoOf[o] \in OrderInfo
    BY ProjectorAssumption
  <2> QED
    BY <1>1, <2>1 DEF OrderInfo, Account
<1>5. PICK p \in Position : p = ps[account]
  OBVIOUS
<1> DEFINE s == [positions |-> ps, closed |-> cs]
           Put(q) == [s EXCEPT !.positions[account] = q]
<1>6. \A q \in Position :
        /\ Put(q) = [positions |-> [ps EXCEPT ![account] = q], closed |-> cs]
        /\ [ps EXCEPT ![account] = q] \in [Account -> Position]
        /\ \A a \in Account : a[2] # e.market => [ps EXCEPT ![account] = q][a] = ps[a]
  BY <1>4
<1>7. /\ OpenPosition(c, o, e, e.quantity) \in Position
      /\ Increase(p, c, e) \in Position
      /\ Reduced(p, c, o, e) \in Position
  BY <1>1, <1>3, OpenedTyped, IncreasedTyped, ReducedTyped
<1>8. ApplyLeg(s, e, role) =
        IF p.quantity = 0
          THEN IF c.reduceOnly THEN s ELSE Put(OpenPosition(c, o, e, e.quantity))
        ELSE IF p.side = c.side
          THEN IF c.reduceOnly THEN s ELSE Put(Increase(p, c, e))
        ELSE [Put(Reduced(p, c, o, e)) EXCEPT !.closed = @ \cup {CloseRow(p, account, o, e)}]
  BY <1>2, <1>3, <1>4, <1>5 DEF ApplyLeg
<1>9. OthersKept(s, ps, e)
  BY DEF OthersKept
<1>10. ASSUME NEW q \in Position, NEW ds
       PROVE  OthersKept([positions |-> [ps EXCEPT ![account] = q], closed |-> ds], ps, e)
  <2>1. PICK qs : qs = [ps EXCEPT ![account] = q]
    OBVIOUS
  <2>2. qs \in [Account -> Position] /\ \A a \in Account : a[2] # e.market => qs[a] = ps[a]
    BY <1>6, <2>1
  <2> QED
    BY <2>1, <2>2 DEF OthersKept
<1>11. [Put(Reduced(p, c, o, e)) EXCEPT !.closed = @ \cup {CloseRow(p, account, o, e)}] =
         [positions |-> [ps EXCEPT ![account] = Reduced(p, c, o, e)],
          closed |-> cs \cup {CloseRow(p, account, o, e)}]
  <2>1. PICK r, ds : r = [ps EXCEPT ![account] = Reduced(p, c, o, e)]
                     /\ ds = cs \cup {CloseRow(p, account, o, e)}
    OBVIOUS
  <2>2. Put(Reduced(p, c, o, e)) = [positions |-> r, closed |-> cs]
    BY <1>6, <1>7, <2>1
  <2> HIDE DEF Put
  <2>3. PICK x : x = Put(Reduced(p, c, o, e))
    OBVIOUS
  <2>4. [x EXCEPT !.closed = ds] = [positions |-> r, closed |-> ds] /\ x.closed = cs
    BY <2>2, <2>3
  <2> QED
    BY <2>1, <2>3, <2>4
<1> HIDE DEF s, Put
<1>12. \A q \in Position : OthersKept(Put(q), ps, e)
  BY <1>6, <1>10
<1>13. OthersKept([Put(Reduced(p, c, o, e)) EXCEPT !.closed = @ \cup {CloseRow(p, account, o, e)}],
                  ps, e)
  BY <1>7, <1>10, <1>11
<1>14. OthersKept(ApplyLeg(s, e, role), ps, e)
  BY <1>7, <1>8, <1>9, <1>12, <1>13
<1> QED
  BY <1>14 DEF s

\* refresh_market_pnl_in_tx after both legs: every position of the market is
\* marked at the price of the trade, those of other markets stay.
LEMMA TradeKeepsPnl ==
  ASSUME ProgressInv, PnlInv, NEW t \in Task, ProjectTrade(t)
  PROVE  PnlInv'
<1> USE DEF ProgressInv, PnlInv
<1>1. PICK e \in Record : e = RecordAt(t) /\ e.type = "TradeExecuted"
  BY RecordTyped DEF ProjectTrade, AtEvent, AtRecord
<1> DEFINE maker == ApplyLeg([positions |-> positions, closed |-> closed], e, "maker")
           both == ApplyLeg(maker, e, "taker")
<1>2. /\ \A r \in Role : LegContext(e, r).found
      /\ IF Inserted(e)
           THEN /\ lastPrice' = [lastPrice EXCEPT ![e.market] = e.price]
                /\ positions' = RefreshPnl(both.positions, e)
           ELSE UNCHANGED <<lastPrice, positions>>
  BY <1>1 DEF ProjectTrade
<1>3. CASE ~Inserted(e)
  BY <1>2, <1>3 DEF PositionsOK, PnlAtLastPrice
<1>4. CASE Inserted(e)
  <2>1. e.market \in Market /\ e.price \in Nat
    BY <1>1, RecordFields, ProjectorAssumption
  <2>2. positions \in [Account -> Position] /\ "maker" \in Role /\ "taker" \in Role
    BY DEF PositionsOK, Role
  <2>3. PICK qs, ds :
          /\ qs \in [Account -> Position]
          /\ maker = [positions |-> qs, closed |-> ds]
          /\ \A a \in Account : a[2] # e.market => qs[a] = positions[a]
    <3>1. LegContext(e, "maker").found
      BY <1>2, <2>2
    <3>2. OthersKept(maker, positions, e)
      BY <1>1, <2>2, <3>1, LegKeepsOthers
    <3> QED
      BY <3>2 DEF OthersKept
  <2>4. PICK rs, zs :
          /\ rs \in [Account -> Position]
          /\ both = [positions |-> rs, closed |-> zs]
          /\ \A a \in Account : a[2] # e.market => rs[a] = qs[a]
    <3>1. LegContext(e, "taker").found
      BY <1>2, <2>2
    <3>2. both = ApplyLeg([positions |-> qs, closed |-> ds], e, "taker")
      BY <2>3
    <3>3. OthersKept(both, qs, e)
      BY <1>1, <2>2, <2>3, <3>1, <3>2, LegKeepsOthers
    <3> QED
      BY <3>3 DEF OthersKept
  <2>5. positions' = [a \in Account |->
                        IF a[2] = e.market THEN Mark(rs[a], e.price) ELSE rs[a]]
    BY <1>2, <1>4, <2>4 DEF RefreshPnl
  <2>6. ASSUME NEW p \in Position
        PROVE  /\ Mark(p, e.price) \in Position
               /\ Mark(p, e.price).pnl = Pnl(p.side, p.average, e.price, p.quantity)
               /\ Mark(p, e.price).side = p.side /\ Mark(p, e.price).average = p.average
               /\ Mark(p, e.price).quantity = p.quantity
    <3>1. PICK n \in Int : n = Pnl(p.side, p.average, e.price, p.quantity)
      BY <2>1, PnlTyped DEF Position
    <3>2. Mark(p, e.price) = [p EXCEPT !.pnl = n]
      BY <3>1 DEF Mark
    <3> QED
      BY <3>1, <3>2 DEF Position
  <2>7. lastPrice' = [lastPrice EXCEPT ![e.market] = e.price] /\ lastPrice \in [Market -> Nat]
    BY <1>2, <1>4 DEF PositionsOK
  <2>8. PositionsOK'
    BY <2>1, <2>4, <2>5, <2>6, <2>7 DEF PositionsOK
  <2>9. PnlAtLastPrice'
    <3> SUFFICES ASSUME NEW a \in Account, positions'[a].quantity > 0
                 PROVE  positions'[a].pnl = Pnl(positions'[a].side, positions'[a].average,
                                                lastPrice'[a[2]], positions'[a].quantity)
      BY DEF PnlAtLastPrice, Pnl
    <3>1. CASE a[2] = e.market
      <4>1. PICK p \in Position : p = rs[a]
        BY <2>4
      <4>2. positions'[a] = Mark(p, e.price) /\ lastPrice'[a[2]] = e.price
        BY <3>1, <4>1, <2>1, <2>5, <2>7
      <4> QED
        BY <4>2, <2>6
    <3>2. CASE a[2] # e.market
      <4>1. positions'[a] = positions[a] /\ a[2] \in Market
        BY <3>2, <2>3, <2>4, <2>5 DEF Account
      <4>2. lastPrice'[a[2]] = lastPrice[a[2]]
        BY <3>2, <4>1, <2>7
      <4> QED
        BY <4>1, <4>2 DEF PnlAtLastPrice
    <3> QED
      BY <3>1, <3>2
  <2> QED
    BY <2>8, <2>9
<1> QED
  BY <1>3, <1>4

\* Only ProjectTrade writes positions and prices.
LEMMA PnlStepInv == ProgressInv /\ PnlInv /\ [Next]_vars => PnlInv'
<1> SUFFICES ASSUME ProgressInv, PnlInv, [Next]_vars PROVE PnlInv'
  OBVIOUS
<1>1. ASSUME UNCHANGED <<positions, lastPrice>> PROVE PnlInv'
  BY <1>1 DEF PnlInv, PositionsOK, PnlAtLastPrice, Pnl
<1>2. ASSUME NEW t \in Task, TaskStep(t) PROVE PnlInv'
  <2>1. CASE SaveContext(t) \/ MarkAccepted(t) \/ MarkRejected(t) \/ SkipRecord(t)
    BY <2>1, <1>1 DEF SaveContext, MarkAccepted, MarkRejected, SkipRecord, tradeTables
  <2>2. CASE ProjectOpened(t) \/ ProjectCancelled(t) \/ ProjectDelta(t) \/ ProjectOther(t)
    BY <2>2, <1>1 DEF ProjectOpened, ProjectCancelled, ProjectDelta, ProjectOther, tradeTables
  <2>3. CASE LogEvent(t) \/ WaitForContext(t) \/ Idle(t)
    BY <2>3, <1>1 DEF LogEvent, WaitForContext, Idle, tradeTables, vars
  <2> QED
    BY <1>2, <2>1, <2>2, <2>3, TradeKeepsPnl DEF TaskStep
<1>3. ASSUME NEW i \in Instance, Stop(i) \/ Start(i) PROVE PnlInv'
  BY <1>1, <1>3 DEF Stop, Start, tradeTables
<1>4. CASE UNCHANGED vars
  BY <1>1, <1>4 DEF vars, tradeTables
<1> QED
  BY <1>2, <1>3, <1>4 DEF Next

(***************************************************************************)
(* Every open position is marked at its market's last traded price, also    *)
(* where a leg opened, increased, reduced or reversed it, and a trade that  *)
(* comes again changes neither.                                             *)
(***************************************************************************)
THEOREM ProjectorPnlAtLastPrice == Spec => []PnlAtLastPrice
<1>1. Init => PnlInv
  BY DEF Init, PnlInv, PositionsOK, PnlAtLastPrice, NoPosition, Position, Side
<1>2. PnlInv => PnlAtLastPrice
  BY DEF PnlInv
<1> QED
  BY <1>1, <1>2, ProgressInvariant, PnlStepInv, PTL DEF Spec

-----------------------------------------------------------------------------
(***************************************************************************)
(* The part of FinalStatusStays that needs no sum over fills, and that      *)
(* holds of orders with made-up contexts as well: a cancelled order stays   *)
(* cancelled in its row and in its context, whatever replies, OrderOpened   *)
(* events and trades come after it.                                         *)
(***************************************************************************)
CancelledStays ==
  \A o \in Order :
    /\ orders[o].status = "CANCELLED" => orders'[o].status = "CANCELLED"
    /\ contexts[o].status = "CANCELLED" => contexts'[o].status = "CANCELLED"

\* Of the actions that write contexts or orders, none takes a cancel back.
LEMMA CancelledStep == ProgressInv /\ [Next]_vars => CancelledStays
<1> SUFFICES ASSUME ProgressInv, [Next]_vars PROVE CancelledStays
  OBVIOUS
<1> USE DEF ProgressInv
<1>1. /\ contexts \in [Order -> [status: Status, known: BOOLEAN]]
      /\ orders \in [Order -> OrderRow]
  BY DEF OrdersOK
<1>2. ASSUME UNCHANGED <<contexts, orders>> PROVE CancelledStays
  BY <1>2 DEF CancelledStays
<1>3. ASSUME NEW o, NEW status, NEW known, SetContext(o, status, known),
             o \in Order /\ contexts[o].status = "CANCELLED" => status = "CANCELLED"
      PROVE  \A x \in Order : contexts[x].status = "CANCELLED" => contexts'[x].status = "CANCELLED"
  BY <1>1, <1>3 DEF SetContext
<1>4. ASSUME NEW o, NEW c, NEW status, UpsertOrder(o, c, status),
             o \in Order /\ orders[o].status = "CANCELLED" => status = "CANCELLED"
      PROVE  \A x \in Order : orders[x].status = "CANCELLED" => orders'[x].status = "CANCELLED"
  <2> SUFFICES ASSUME NEW x \in Order, orders[x].status = "CANCELLED"
               PROVE  orders'[x].status = "CANCELLED"
    OBVIOUS
  <2>1. CASE x # o
    BY <1>1, <1>4, <2>1 DEF UpsertOrder
  <2>2. CASE x = o
    <3>1. orders'[x] = [orders[x] EXCEPT !.status = status, !.reduceOnly = c.reduceOnly]
      BY <1>1, <1>4, <2>2 DEF UpsertOrder, HasOrder
    <3>2. PICK row : row = [orders[x] EXCEPT !.status = status]
      OBVIOUS
    <3>3. orders[x] \in OrderRow /\ status = "CANCELLED"
      BY <1>1, <1>4, <2>2
    <3>4. row.status = "CANCELLED" /\ orders'[x] = [row EXCEPT !.reduceOnly = c.reduceOnly]
      BY <3>1, <3>2, <3>3 DEF OrderRow
    <3>5. row \in [status: {status}, side: Side, quantity: Nat, margin: Nat, reduceOnly: BOOLEAN]
      BY <3>2, <3>3 DEF OrderRow
    <3> QED
      BY <3>4, <3>5
  <2> QED
    BY <2>1, <2>2
<1>5. ASSUME NEW t \in Task, SaveContext(t) \/ MarkAccepted(t) \/ MarkRejected(t)
      PROVE  CancelledStays
  <2>1. UNCHANGED orders
    BY <1>5 DEF SaveContext, MarkAccepted, MarkRejected
  <2>2. PICK o : o = RecordAt(t).order
    OBVIOUS
  <2>3. \/ UNCHANGED contexts
        \/ ~HasContext(o) /\ SetContext(o, "PENDING", FALSE)
        \/ SetContext(o, AcceptedStatus(contexts[o].status), TRUE)
        \/ SetContext(o, RejectedStatus(contexts[o].status), contexts[o].known)
    BY <1>5, <2>2 DEF SaveContext, MarkAccepted, MarkRejected
  <2>4. \A x \in Order : contexts[x].status = "CANCELLED" => contexts'[x].status = "CANCELLED"
    BY <1>3, <2>3 DEF HasContext, AcceptedStatus, RejectedStatus
  <2> QED
    BY <2>1, <2>4 DEF CancelledStays
<1>6. ASSUME NEW t \in Task, ProjectOpened(t) \/ ProjectCancelled(t) PROVE CancelledStays
  <2>1. PICK o : o = RecordAt(t).order
    OBVIOUS
  <2>2. \/ UNCHANGED contexts
        \/ SetContext(o, OpenedStatus(contexts[o].status), TRUE)
        \/ SetContext(o, "CANCELLED", TRUE)
    BY <1>6, <2>1 DEF ProjectOpened, ProjectCancelled
  <2>3. \/ UpsertOrder(o, ContextOf(o), OpenedRowStatus(orders[o].status))
        \/ UpsertOrder(o, Lookup(o, TRUE), "CANCELLED")
    BY <1>6, <2>1 DEF ProjectOpened, ProjectCancelled
  <2>4. \A x \in Order : contexts[x].status = "CANCELLED" => contexts'[x].status = "CANCELLED"
    BY <1>3, <2>2 DEF OpenedStatus
  <2>5. \A x \in Order : orders[x].status = "CANCELLED" => orders'[x].status = "CANCELLED"
    BY <1>4, <2>3 DEF OpenedRowStatus
  <2> QED
    BY <2>4, <2>5 DEF CancelledStays
<1>7. ASSUME NEW t \in Task, ProjectTrade(t) PROVE CancelledStays
  <2> SUFFICES ASSUME NEW o \in Order
               PROVE  /\ orders[o].status = "CANCELLED" => orders'[o].status = "CANCELLED"
                      /\ contexts[o].status = "CANCELLED" => contexts'[o].status = "CANCELLED"
    BY DEF CancelledStays
  <2>1. PICK c, rows :
          /\ orders'[o] \in {orders[o], OrderAfterFill(o, c, rows)}
          /\ contexts'[o] \in {contexts[o], ContextAfterFill(o, c, rows)}
    <3> DEFINE e == RecordAt(t)
               RoleOf(x) == CHOOSE r \in Role : e.order[r] = x
               all == IF Inserted(e) THEN fills \cup {FillRow(e)} ELSE fills
    <3>1. /\ orders'[o] \in {orders[o], OrderAfterFill(o, LegContext(e, RoleOf(o)), all)}
          /\ contexts'[o] \in {contexts[o], ContextAfterFill(o, LegContext(e, RoleOf(o)), all)}
      BY <1>7 DEF ProjectTrade
    <3> QED
      BY <3>1
  <2>2. orders[o].status = "CANCELLED" => OrderAfterFill(o, c, rows) = orders[o]
    BY DEF OrderAfterFill, HasOrder
  <2>3. contexts[o].status = "CANCELLED" => ContextAfterFill(o, c, rows).status = "CANCELLED"
    BY DEF ContextAfterFill
  <2> QED
    BY <2>1, <2>2, <2>3
<1>8. ASSUME NEW t \in Task, TaskStep(t) PROVE CancelledStays
  BY <1>2, <1>5, <1>6, <1>7, <1>8
     DEF TaskStep, SkipRecord, LogEvent, ProjectDelta, ProjectOther, WaitForContext, Idle,
         orderTables, vars
<1>9. ASSUME NEW i \in Instance, Stop(i) \/ Start(i) PROVE CancelledStays
  BY <1>2, <1>9 DEF Stop, Start, orderTables
<1> QED
  BY <1>2, <1>8, <1>9 DEF Next, vars, orderTables

(***************************************************************************)
(* mark_order_accepted, mark_order_rejected, project_order_opened and       *)
(* project_trade_executed all spare a cancelled order.                      *)
(***************************************************************************)
THEOREM ProjectorCancelledStays == Spec => [][CancelledStays]_vars
  BY ProgressInvariant, CancelledStep, PTL DEF Spec

-----------------------------------------------------------------------------
(***************************************************************************)
(* What an order has filled, as a sum.                                      *)
(***************************************************************************)
FillsOf(o, rows) == {f \in rows : \E role \in Role : f.order[role] = o}

SummableFills(rows) == IsFiniteSet(rows) /\ \A f \in rows : f.quantity \in Nat

LEMMA QuantitiesAreSum ==
  ASSUME NEW S, SummableFills(S)
  PROVE  MapThenSumSet(QuantityOf, S) = SumOver([f \in S |-> f.quantity], S)
<1>1. PICK q : q = [f \in S |-> f.quantity]
  OBVIOUS
<1> DEFINE Step(g, s) ==
             IF s = {} THEN 0
             ELSE QuantityOf(CHOOSE x \in s : TRUE) + g[s \ {CHOOSE x \in s : TRUE}]
           fold == CHOOSE g : g = [s \in SUBSET S |-> Step(g, s)]
<1>2. MapThenSumSet(QuantityOf, S) = fold[S]
  BY DEF MapThenSumSet, MapThenFoldSet
<1>3. \A g : Folds(g, q, S) <=> g = [s \in SUBSET S |-> Step(g, s)]
  <2>1. ASSUME NEW g, NEW s \in SUBSET S PROVE FoldStep(g, q, s) = Step(g, s)
    <3>1. s # {} => q[CHOOSE x \in s : TRUE] = QuantityOf(CHOOSE x \in s : TRUE)
      BY <1>1 DEF QuantityOf
    <3> QED
      BY <3>1 DEF FoldStep
  <2> HIDE DEF Step
  <2>2. ASSUME NEW g
        PROVE  [s \in SUBSET S |-> FoldStep(g, q, s)] = [s \in SUBSET S |-> Step(g, s)]
    BY <2>1
  <2> QED
    BY <2>2 DEF Folds
<1>4. IsFiniteSet(S) /\ \A x \in S : q[x] \in Int
  BY <1>1 DEF SummableFills
<1>5. \E g : Folds(g, q, S)
  BY <1>4, FoldExists
<1>6. Folds(fold, q, S)
  <2> HIDE DEF Step
  <2> QED
    BY <1>3, <1>5
<1> HIDE DEF fold
<1>7. fold[S] = SumOver(q, S)
  BY <1>4, <1>6, FoldIsSum
<1> QED
  BY <1>1, <1>2, <1>7

LEMMA NothingFilled ==
  ASSUME NEW o, NEW rows, FillsOf(o, rows) = {}
  PROVE  Filled(o, rows) = 0
<1>1. SummableFills({})
  BY FS_EmptySet DEF SummableFills
<1>2. MapThenSumSet(QuantityOf, {}) = SumOver([f \in {} |-> f.quantity], {})
  BY <1>1, QuantitiesAreSum
<1>3. MapThenSumSet(QuantityOf, {}) = 0
  BY <1>2, SumOverEmpty
<1> QED
  BY <1>3 DEF Filled, FillsOf

\* A fill more never makes it less.
LEMMA FilledGrows ==
  ASSUME NEW o, NEW rows, SummableFills(rows), NEW f, f \notin rows, f.quantity \in Nat
  PROVE  /\ SummableFills(rows \cup {f})
         /\ Filled(o, rows) \in Int /\ Filled(o, rows \cup {f}) \in Int
         /\ Filled(o, rows) <= Filled(o, rows \cup {f})
<1>1. SummableFills(rows \cup {f})
  BY FS_AddElement DEF SummableFills
<1>2. PICK S, U : S = FillsOf(o, rows) /\ U = FillsOf(o, rows \cup {f})
  OBVIOUS
<1>3. SummableFills(S) /\ SummableFills(U) /\ f \notin S /\ (U = S \/ U = S \cup {f})
  <2>1. S \subseteq rows /\ U \subseteq rows \cup {f} /\ (U = S \/ U = S \cup {f})
    BY <1>2 DEF FillsOf
  <2> QED
    BY <1>1, <2>1, FS_Subset DEF SummableFills
<1>4. Filled(o, rows) = MapThenSumSet(QuantityOf, S)
      /\ Filled(o, rows \cup {f}) = MapThenSumSet(QuantityOf, U)
  BY <1>2 DEF Filled, FillsOf
<1>5. PICK q, h : q = [x \in U |-> x.quantity] /\ h = [x \in S |-> x.quantity]
  OBVIOUS
<1>6. MapThenSumSet(QuantityOf, S) = SumOver(h, S) /\ MapThenSumSet(QuantityOf, U) = SumOver(q, U)
  BY <1>3, <1>5, QuantitiesAreSum
<1>7. IsFiniteSet(S) /\ \A x \in S : h[x] \in Int
  BY <1>3, <1>5 DEF SummableFills
<1>8. SumOver(h, S) \in Int
  BY <1>7, SumOverType
<1>9. CASE U = S
  BY <1>1, <1>4, <1>8, <1>5, <1>6, <1>9
<1>10. CASE U = S \cup {f}
  <2>1. /\ \A x \in S \cup {f} : q[x] \in Int
        /\ \A x \in S : h[x] \in Int /\ q[x] = h[x]
        /\ q[f] \in Nat
    BY <1>3, <1>5, <1>10 DEF SummableFills
  <2>2. SumOver(q, S \cup {f}) = q[f] + SumOver(q, S)
    BY <1>3, <1>7, <2>1, SumOverAdd
  <2>3. SumOver(q, S) = SumOver(h, S)
    BY <1>7, <2>1, SumOverSame
  <2> QED
    BY <1>1, <1>4, <1>6, <1>8, <1>10, <2>1, <2>2, <2>3
<1> QED
  BY <1>3, <1>9, <1>10

(***************************************************************************)
(* Of an order whose context is certain: a row has a context with an order  *)
(* id, so that later fills update both; row and context are cancelled and   *)
(* filled together; and without a row there are no fills.                   *)
(***************************************************************************)
OrderFollowsFills(o) ==
  /\ orders[o].status = "CANCELLED" <=> contexts[o].status = "CANCELLED"
  /\ orders[o].status = "FILLED" <=> contexts[o].status = "FILLED"
  /\ HasOrder(o) => contexts[o].known
  /\ HasOrder(o) /\ orders[o].status # "CANCELLED" =>
       (orders[o].status = "FILLED" <=> Filled(o, fills) >= InfoOf[o].quantity)
  /\ ~HasOrder(o) => FillsOf(o, fills) = {}

FilledInv ==
  /\ SummableFills(fills)
  /\ \A o \in Order : ContextCertain(o) => OrderFollowsFills(o)

\* Steps that leave the fills alone, one order at a time.
LEMMA OrderSame ==
  ASSUME NEW o \in Order, OrderFollowsFills(o), fills' = fills,
         orders'[o] = orders[o], contexts'[o] = contexts[o]
  PROVE  OrderFollowsFills(o)'
BY DEF OrderFollowsFills, HasOrder

LEMMA ContextMoves ==
  ASSUME NEW o \in Order, OrderFollowsFills(o), fills' = fills, orders'[o] = orders[o],
         contexts[o].known => contexts'[o].known,
         contexts'[o].status = "FILLED" <=> contexts[o].status = "FILLED",
         contexts'[o].status = "CANCELLED" <=> contexts[o].status = "CANCELLED"
  PROVE  OrderFollowsFills(o)'
BY DEF OrderFollowsFills, HasOrder

\* A step of an order event that leaves the fills alone.
LEMMA KeepsFilled ==
  ASSUME FilledInv, UNCHANGED <<fills, topic>>,
         \A o \in Order : OrderFollowsFills(o) => OrderFollowsFills(o)'
  PROVE  FilledInv'
<1>1. \A o : ContextCertain(o)' <=> ContextCertain(o)
  BY DEF ContextCertain, Trades, IsSynthetic
<1> QED
  BY <1>1 DEF FilledInv

LEMMA RepliesKeepFilled ==
  ASSUME ProgressInv, FilledInv, NEW t \in Task,
         SaveContext(t) \/ MarkAccepted(t) \/ MarkRejected(t)
  PROVE  FilledInv'
<1>1. UNCHANGED <<fills, topic, orders>>
  BY DEF SaveContext, MarkAccepted, MarkRejected, Advance, tradeTables
<1>2. PICK o : o = RecordAt(t).order
  OBVIOUS
<1>3. \/ UNCHANGED contexts
      \/ ~HasContext(o) /\ SetContext(o, "PENDING", FALSE)
      \/ SetContext(o, AcceptedStatus(contexts[o].status), TRUE)
      \/ SetContext(o, RejectedStatus(contexts[o].status), contexts[o].known)
  BY <1>2 DEF SaveContext, MarkAccepted, MarkRejected
<1>4. ASSUME NEW x \in Order, OrderFollowsFills(x) PROVE OrderFollowsFills(x)'
  <2>1. contexts \in [Order -> [status: Status, known: BOOLEAN]]
        /\ (contexts[x].known => HasContext(x))
    BY DEF ProgressInv, OrdersOK, KnownAreStored
  <2>2. CASE contexts'[x] = contexts[x]
    BY <1>1, <1>4, <2>2, OrderSame
  <2>3. CASE contexts'[x] # contexts[x]
    <3>1. x = o
      BY <1>3, <2>1, <2>3 DEF SetContext
    <3>2. PICK st, known :
            /\ contexts'[x] = [status |-> st, known |-> known]
            /\ \/ ~HasContext(x) /\ st = "PENDING" /\ known = FALSE
               \/ st = AcceptedStatus(contexts[x].status) /\ known = TRUE
               \/ st = RejectedStatus(contexts[x].status) /\ known = contexts[x].known
      BY <1>3, <2>1, <2>3, <3>1 DEF SetContext
    <3>3. /\ contexts[x].known => known
          /\ st = "FILLED" <=> contexts[x].status = "FILLED"
          /\ st = "CANCELLED" <=> contexts[x].status = "CANCELLED"
      BY <2>1, <3>2 DEF HasContext, AcceptedStatus, RejectedStatus
    <3> QED
      BY <1>1, <1>4, <3>2, <3>3, ContextMoves
  <2> QED
    BY <2>2, <2>3
<1> QED
  BY <1>1, <1>4, KeepsFilled

\* The status of the row that upsert_order_in_tx writes.
LEMMA UpsertStatus ==
  ASSUME OrdersOK, NEW o \in Order, NEW c, NEW status, UpsertOrder(o, c, status)
  PROVE  /\ orders'[o].status = status
         /\ \A x \in Order : x # o => orders'[x] = orders[x]
<1>1. orders \in [Order -> OrderRow] /\ orders[o] \in OrderRow
  BY DEF OrdersOK
<1>2. PICK row : /\ orders' = [orders EXCEPT ![o] = row]
                 /\ row = IF HasOrder(o)
                            THEN [orders[o] EXCEPT !.status = status, !.reduceOnly = c.reduceOnly]
                            ELSE Row(c, status)
  BY <1>1 DEF UpsertOrder
<1>3. row.status = status
  <2>1. CASE HasOrder(o)
    <3>1. PICK mid : mid = [orders[o] EXCEPT !.status = status]
      OBVIOUS
    <3>2. mid \in [status: {status}, side: Side, quantity: Nat, margin: Nat, reduceOnly: BOOLEAN]
      BY <1>1, <3>1 DEF OrderRow
    <3>3. row = [mid EXCEPT !.reduceOnly = c.reduceOnly]
      BY <1>2, <2>1, <3>1
    <3> QED
      BY <3>2, <3>3
  <2>2. CASE ~HasOrder(o)
    BY <1>2, <2>2 DEF Row
  <2> QED
    BY <2>1, <2>2
<1> QED
  BY <1>1, <1>2, <1>3

LEMMA OrderEventsKeepFilled ==
  ASSUME ProgressInv, FilledInv, NEW t \in Task, ProjectOpened(t) \/ ProjectCancelled(t)
  PROVE  FilledInv'
<1>1. UNCHANGED <<fills, topic>>
  BY DEF ProjectOpened, ProjectCancelled, Advance, tradeTables
<1>2. HasRecord(t)
  BY DEF ProjectOpened, ProjectCancelled, AtEvent, AtRecord
<1>3. PICK e \in Record : e = RecordAt(t)
  BY <1>2, RecordTyped DEF ProgressInv
<1>4. e.type \in {"OrderOpened", "OrderCancelled"}
  BY <1>3 DEF ProjectOpened, ProjectCancelled, AtEvent, AtRecord
<1>5. PICK o \in Order : o = e.order
  BY <1>4, RecordFields
<1>6. /\ OrdersOK /\ contexts \in [Order -> [status: Status, known: BOOLEAN]]
      /\ \A x \in Order : contexts[x].known => HasContext(x)
  BY DEF ProgressInv, OrdersOK, KnownAreStored
<1>7. ASSUME NEW x \in Order, OrderFollowsFills(x) PROVE OrderFollowsFills(x)'
  <2>1. CASE x # o
    <3>1. contexts'[x] = contexts[x]
      BY <1>3, <1>5, <1>6, <2>1 DEF ProjectOpened, ProjectCancelled, SetContext
    <3>2. \E c, status : UpsertOrder(o, c, status)
      BY <1>3, <1>5 DEF ProjectOpened, ProjectCancelled
    <3>3. orders'[x] = orders[x]
      BY <1>6, <2>1, <3>2, UpsertStatus
    <3> QED
      BY <1>1, <1>7, <3>1, <3>3, OrderSame
  <2>2. CASE x = o /\ ProjectOpened(t)
    <3>1. /\ HasContext(o) /\ SetContext(o, OpenedStatus(contexts[o].status), TRUE)
          /\ UpsertOrder(o, ContextOf(o), OpenedRowStatus(orders[o].status))
      BY <1>3, <1>5, <2>2 DEF ProjectOpened
    <3>2. orders'[o].status = OpenedRowStatus(orders[o].status)
      BY <1>6, <3>1, UpsertStatus
    <3>3. contexts'[o].status = OpenedStatus(contexts[o].status) /\ contexts'[o].known = TRUE
      BY <1>6, <3>1 DEF SetContext
    <3>4. /\ orders'[o].status = "CANCELLED" <=> orders[o].status = "CANCELLED"
          /\ orders'[o].status = "FILLED" <=> orders[o].status = "FILLED"
          /\ contexts'[o].status = "CANCELLED" <=> contexts[o].status = "CANCELLED"
          /\ contexts'[o].status = "FILLED" <=> contexts[o].status = "FILLED"
          /\ orders'[o].status # "NONE"
      BY <3>2, <3>3 DEF OpenedRowStatus, OpenedStatus
    <3>5. ~HasOrder(o) => ~(Filled(o, fills) >= InfoOf[o].quantity) /\ orders[o].status # "FILLED"
      <4>1. InfoOf[o].quantity \in Nat \ {0}
        BY ProjectorAssumption DEF OrderInfo
      <4>2. ~HasOrder(o) => Filled(o, fills) = 0
        BY <1>7, <2>2, NothingFilled DEF OrderFollowsFills
      <4> QED
        BY <4>1, <4>2 DEF HasOrder
    <3> QED
      BY <1>1, <1>7, <2>2, <3>3, <3>4, <3>5 DEF OrderFollowsFills, HasOrder
  <2>3. CASE x = o /\ ProjectCancelled(t)
    <3>1. /\ Lookup(o, TRUE).found
          /\ IF HasContext(o) THEN SetContext(o, "CANCELLED", TRUE) ELSE UNCHANGED contexts
          /\ UpsertOrder(o, Lookup(o, TRUE), "CANCELLED")
      BY <1>3, <1>5, <2>3 DEF ProjectCancelled
    <3>2. HasContext(o)
      <4>1. HasContext(o) \/ HasOrder(o)
        BY <3>1 DEF Lookup, Missing
      <4> QED
        BY <1>6, <1>7, <2>3, <4>1 DEF OrderFollowsFills
    <3>3. orders'[o].status = "CANCELLED"
      BY <1>6, <3>1, UpsertStatus
    <3>4. contexts'[o].status = "CANCELLED" /\ contexts'[o].known = TRUE
      BY <1>6, <3>1, <3>2 DEF SetContext
    <3> QED
      BY <2>3, <3>3, <3>4 DEF OrderFollowsFills, HasOrder
  <2> QED
    BY <2>1, <2>2, <2>3
<1> QED
  BY <1>1, <1>7, KeepsFilled

\* A trade finds the context of an order that is certain: none is made up, for
\* the task has been past the OrderOpened that a liquidation's trade follows.
LEMMA CertainLeg ==
  ASSUME ProgressInv, FilledInv, NEW t \in Task, HasRecord(t), NEW e \in Record, e = RecordAt(t),
         e.type = "TradeExecuted", NEW r \in Role, LegContext(e, r).found,
         NEW o \in Order, o = e.order[r], ContextCertain(o)
  PROVE  LegContext(e, r) = ContextOf(o) /\ HasContext(o)
<1>1. PICK c : c = Lookup(o, e.reservation[r])
  OBVIOUS
<1>2. OrderFollowsFills(o) /\ (contexts[o].known => HasContext(o))
  BY DEF FilledInv, ProgressInv, KnownAreStored
<1>3. c.found
  <2> SUFFICES ASSUME ~c.found PROVE FALSE
    OBVIOUS
  <2>1. IsSynthetic(e)
    BY <1>1 DEF LegContext
  <2>2. /\ t[2] \in Partition /\ at[t] \in 1 .. Len(topic[t[2]]) /\ at[t] \in Nat
        /\ topic[t[2]] \in Seq(Record)
    BY RecordTyped DEF ProgressInv, ProgressOK
  <2>3. PICK p \in Partition, n \in Nat : p = t[2] /\ n = at[t]
    BY <2>2
  <2>4. n \in Trades(p) /\ topic[p][n] = e
    BY <2>2, <2>3 DEF Trades, RecordAt
  <2>5. PICK k \in 1 .. n - 1 : topic[p][k].type = "OrderOpened" /\ topic[p][k].order = o
    BY <2>1, <2>4 DEF ContextCertain
  <2>6. n <= offsets[p] /\ offsets[p] \in Nat
    BY <2>3 DEF ProgressInv, ProgressOK, TasksBehindOffsets
  <2>7. k \in 1 .. (offsets[p] - 1)
    BY <2>3, <2>5, <2>6
  <2>8. HasOrder(o)
    BY <2>5, <2>7 DEF ProgressInv, NothingUnprojected, Projected
  <2> QED
    BY <1>1, <2>8 DEF Lookup, ContextOf
<1>4. LegContext(e, r) = c
  BY <1>1, <1>3 DEF LegContext
<1>5. HasContext(o) /\ (e.reservation[r] \/ contexts[o].known)
  BY <1>1, <1>2, <1>3 DEF Lookup, Missing, OrderFollowsFills
<1> QED
  BY <1>1, <1>4, <1>5 DEF Lookup

\* An order that takes part in a trade.
LEMMA OrderFilled ==
  ASSUME OrdersOK, NEW o \in Order, OrderFollowsFills(o), HasContext(o),
         orders'[o] = OrderAfterFill(o, ContextOf(o), fills'),
         contexts'[o] = ContextAfterFill(o, ContextOf(o), fills')
  PROVE  OrderFollowsFills(o)'
<1>1. orders[o] \in OrderRow /\ ContextOf(o).reserved /\ ContextOf(o).quantity = InfoOf[o].quantity
  BY DEF OrdersOK, ContextOf
<1>2. PICK c : c = ContextOf(o)
  OBVIOUS
<1>3. PICK st \in {"FILLED", "PARTIAL"} :
        /\ st = FillStatus(o, c, fills')
        /\ st = "FILLED" <=> Filled(o, fills') >= InfoOf[o].quantity
  BY <1>1, <1>2 DEF FillStatus
<1>4. contexts'[o] = [known |-> TRUE,
        status |-> IF contexts[o].status = "CANCELLED" THEN contexts[o].status ELSE st]
  BY <1>1, <1>2, <1>3 DEF ContextAfterFill
<1>5. orders'[o].status = IF orders[o].status = "CANCELLED" THEN "CANCELLED" ELSE st
  <2>1. PICK row : row = IF HasOrder(o) THEN orders[o] ELSE Row(c, "PENDING")
    OBVIOUS
  <2>2. orders'[o] = IF row.status = "CANCELLED" THEN row ELSE [row EXCEPT !.status = st]
    BY <1>2, <1>3, <2>1 DEF OrderAfterFill
  <2>3. CASE HasOrder(o)
    BY <1>1, <2>1, <2>2, <2>3 DEF OrderRow
  <2>4. CASE ~HasOrder(o)
    BY <2>1, <2>2, <2>4 DEF Row, HasOrder
  <2> QED
    BY <2>3, <2>4
<1> QED
  BY <1>3, <1>4, <1>5 DEF OrderFollowsFills, HasOrder

\* An order that does not.
LEMMA OrderNotFilled ==
  ASSUME NEW o \in Order, OrderFollowsFills(o), NEW f, \A r \in Role : f.order[r] # o,
         fills' \in {fills, fills \cup {f}}, orders'[o] = orders[o], contexts'[o] = contexts[o]
  PROVE  OrderFollowsFills(o)'
<1>1. FillsOf(o, fills') = FillsOf(o, fills)
  BY DEF FillsOf
<1>2. Filled(o, fills') = Filled(o, fills)
  BY <1>1 DEF Filled, FillsOf
<1> QED
  BY <1>1, <1>2 DEF OrderFollowsFills, HasOrder

LEMMA TradeKeepsFilled ==
  ASSUME ProgressInv, FilledInv, NEW t \in Task, ProjectTrade(t)
  PROVE  /\ FilledInv'
         /\ \A o \in Order : /\ Filled(o, fills) \in Int /\ Filled(o, fills') \in Int
                             /\ Filled(o, fills) <= Filled(o, fills')
<1>1. HasRecord(t)
  BY DEF ProjectTrade, AtEvent, AtRecord
<1>2. PICK e \in Record : e = RecordAt(t)
  BY <1>1, RecordTyped DEF ProgressInv
<1>3. e.type = "TradeExecuted" /\ topic' = topic
  BY <1>2 DEF ProjectTrade, AtEvent, AtRecord, Advance
<1>4. e.order \in [Role -> Order] /\ e.quantity \in Nat \ {0}
  BY <1>3, RecordFields
<1> DEFINE traded == {e.order[r] : r \in Role}
           RoleOf(o) == CHOOSE r \in Role : e.order[r] = o
           rows == IF Inserted(e) THEN fills \cup {FillRow(e)} ELSE fills
<1>5. /\ \A r \in Role : LegContext(e, r).found
      /\ fills' = rows
      /\ orders' = [o \in Order |->
           IF o \in traded THEN OrderAfterFill(o, LegContext(e, RoleOf(o)), rows) ELSE orders[o]]
      /\ contexts' = [o \in Order |->
           IF o \in traded THEN ContextAfterFill(o, LegContext(e, RoleOf(o)), rows)
           ELSE contexts[o]]
  BY <1>2 DEF ProjectTrade
<1>6. PICK f : f = FillRow(e)
  OBVIOUS
<1>7. f.id = e.id /\ f.order = e.order /\ f.quantity \in Nat
  BY <1>4, <1>6 DEF FillRow
<1>8. fills' \in {fills, fills \cup {f}} /\ (fills' = fills \/ f \notin fills)
  BY <1>5, <1>6, <1>7 DEF Inserted
<1> HIDE DEF traded, RoleOf, rows
<1>9. /\ SummableFills(fills')
      /\ \A o \in Order : /\ Filled(o, fills) \in Int /\ Filled(o, fills') \in Int
                          /\ Filled(o, fills) <= Filled(o, fills')
  <2>1. SummableFills(fills)
    BY DEF FilledInv
  <2>2. CASE f \notin fills
    <3>1. /\ SummableFills(fills \cup {f})
          /\ \A o : /\ Filled(o, fills) \in Int /\ Filled(o, fills \cup {f}) \in Int
                    /\ Filled(o, fills) <= Filled(o, fills \cup {f})
      BY <1>7, <2>1, <2>2, FilledGrows
    <3> QED
      BY <1>8, <2>1, <3>1
  <2>3. CASE f \in fills
    <3>1. fills' = fills
      BY <1>8, <2>3
    <3>2. ASSUME NEW o PROVE Filled(o, fills) \in Int
      <4>1. PICK S : S = FillsOf(o, fills)
        OBVIOUS
      <4>2. SummableFills(S)
        BY <2>1, <4>1, FS_Subset DEF SummableFills, FillsOf
      <4>3. PICK q : q = [x \in S |-> x.quantity]
        OBVIOUS
      <4>4. IsFiniteSet(S) /\ \A x \in S : q[x] \in Int
        BY <4>2, <4>3 DEF SummableFills
      <4>5. SumOver(q, S) \in Int
        BY <4>4, SumOverType
      <4>6. MapThenSumSet(QuantityOf, S) = SumOver(q, S)
        BY <4>2, <4>3, QuantitiesAreSum
      <4> QED
        BY <4>1, <4>5, <4>6 DEF Filled, FillsOf
    <3>3. \A o \in Order : Filled(o, fills) \in Int /\ Filled(o, fills) <= Filled(o, fills)
      BY <3>2
    <3> QED
      BY <2>1, <3>1, <3>3
  <2> QED
    BY <2>2, <2>3
<1>10. ASSUME NEW o \in Order, ContextCertain(o) PROVE OrderFollowsFills(o)'
  <2>1. OrderFollowsFills(o) /\ OrdersOK
    BY <1>10 DEF FilledInv, ProgressInv
  <2>2. CASE o \in traded
    <3>1. PICK r \in Role : r = RoleOf(o) /\ o = e.order[r]
      BY <2>2 DEF traded, RoleOf
    <3>2. LegContext(e, r) = ContextOf(o) /\ HasContext(o)
      BY <1>1, <1>2, <1>3, <1>5, <1>10, <3>1, CertainLeg
    <3>3. /\ orders'[o] = OrderAfterFill(o, ContextOf(o), fills')
          /\ contexts'[o] = ContextAfterFill(o, ContextOf(o), fills')
      BY <1>5, <2>2, <3>1, <3>2
    <3> QED
      BY <2>1, <3>2, <3>3, OrderFilled
  <2>3. CASE o \notin traded
    <3>1. orders'[o] = orders[o] /\ contexts'[o] = contexts[o]
      BY <1>5, <2>3
    <3>2. \A r \in Role : f.order[r] # o
      BY <1>7, <2>3 DEF traded
    <3> QED
      BY <1>8, <2>1, <3>1, <3>2, OrderNotFilled
  <2> QED
    BY <2>2, <2>3
<1>11. \A o : ContextCertain(o)' <=> ContextCertain(o)
  BY <1>3 DEF ContextCertain, Trades, IsSynthetic
<1> QED
  BY <1>9, <1>10, <1>11 DEF FilledInv

LEMMA FilledStepInv == ProgressInv /\ FilledInv /\ [Next]_vars => FilledInv'
<1> SUFFICES ASSUME ProgressInv, FilledInv, [Next]_vars PROVE FilledInv'
  OBVIOUS
<1>1. ASSUME UNCHANGED <<topic, fills, contexts, orders>> PROVE FilledInv'
  BY <1>1, KeepsFilled, OrderSame
<1>2. ASSUME NEW t \in Task, TaskStep(t) PROVE FilledInv'
  BY <1>1, <1>2, RepliesKeepFilled, OrderEventsKeepFilled, TradeKeepsFilled
     DEF TaskStep, SkipRecord, LogEvent, ProjectDelta, ProjectOther, WaitForContext, Idle,
         Advance, orderTables, tradeTables, vars
<1>3. ASSUME NEW i \in Instance, Stop(i) \/ Start(i) PROVE FilledInv'
  BY <1>1, <1>3 DEF Stop, Start, orderTables, tradeTables
<1> QED
  BY <1>1, <1>2, <1>3 DEF Next, vars, orderTables, tradeTables

LEMMA FilledInvariant == Spec => [](ProgressInv /\ FilledInv)
<1>1. Init => FilledInv
  <2> SUFFICES ASSUME Init PROVE FilledInv
    OBVIOUS
  <2>1. SummableFills(fills)
    BY FS_EmptySet DEF Init, SummableFills
  <2>2. ASSUME NEW o \in Order PROVE OrderFollowsFills(o)
    BY DEF Init, OrderFollowsFills, HasOrder, FillsOf, NoOrder, NoContext
  <2> QED
    BY <2>1, <2>2 DEF FilledInv
<1> QED
  BY <1>1, ProgressInvariant, FilledStepInv, PTL DEF Spec

(***************************************************************************)
(* An order that was not cancelled is FILLED exactly when its stored fills  *)
(* reach its quantity, in its row and in its context, whatever process      *)
(* projects the fills, how often they come and which reply, OrderOpened or  *)
(* partial fill comes late.                                                 *)
(***************************************************************************)
THEOREM ProjectorFilledMatchesFills == Spec => []FilledMatchesFills
<1>1. FilledInv => FilledMatchesFills
  BY DEF FilledInv, FilledMatchesFills, OrderFollowsFills, HasOrder
<1> QED
  BY <1>1, FilledInvariant, PTL

(***************************************************************************)
(* The engine cancels what is open: it sends no OrderCancelled about an     *)
(* order whose fills reach its quantity.  project_order_cancelled relies on *)
(* it; it cancels whatever the row says.                                    *)
(***************************************************************************)
CancelsAreOfOpenOrders ==
  \A o \in Order : ContextCertain(o) /\ Filled(o, fills) >= InfoOf[o].quantity =>
    \A p \in Partition : \A n \in DOMAIN topic[p] :
      ~(topic[p][n].type = "OrderCancelled" /\ topic[p][n].order = o)

\* Fills never go, so what is filled stays filled.
FilledStays ==
  \A o \in Order : ContextCertain(o) =>
    /\ orders[o].status = "FILLED" => orders'[o].status = "FILLED"
    /\ contexts[o].status = "FILLED" => contexts'[o].status = "FILLED"

LEMMA FilledStep ==
  ProgressInv /\ FilledInv /\ FilledInv' /\ CancelsAreOfOpenOrders /\ [Next]_vars => FilledStays
<1> SUFFICES ASSUME ProgressInv, FilledInv, FilledInv', CancelsAreOfOpenOrders, [Next]_vars,
                    NEW o \in Order, ContextCertain(o), orders[o].status = "FILLED"
             PROVE  orders'[o].status = "FILLED" /\ contexts'[o].status = "FILLED"
  BY DEF FilledInv, OrderFollowsFills, FilledStays
<1>1. topic' = topic
  BY DEF Next, TaskStep, SaveContext, MarkAccepted, MarkRejected, SkipRecord, LogEvent,
         ProjectOpened, ProjectCancelled, ProjectTrade, ProjectDelta, ProjectOther,
         WaitForContext, Idle, Stop, Start, Advance, vars
<1>2. OrderFollowsFills(o) /\ OrderFollowsFills(o)'
  <2>1. ContextCertain(o)'
    BY <1>1 DEF ContextCertain, Trades, IsSynthetic
  <2> QED
    BY <2>1 DEF FilledInv
<1>3. Filled(o, fills) >= InfoOf[o].quantity /\ InfoOf[o].quantity \in Nat
  BY <1>2, ProjectorAssumption DEF OrderFollowsFills, HasOrder, OrderInfo
<1>4. ASSUME UNCHANGED orders PROVE orders'[o].status = "FILLED"
  BY <1>4
<1>5. ASSUME NEW t \in Task, ProjectOpened(t) \/ ProjectCancelled(t)
      PROVE  orders'[o].status = "FILLED"
  <2>1. HasRecord(t)
    BY <1>5 DEF ProjectOpened, ProjectCancelled, AtEvent, AtRecord
  <2>2. PICK e \in Record : e = RecordAt(t)
    BY <2>1, RecordTyped DEF ProgressInv
  <2>3. e.type \in {"OrderOpened", "OrderCancelled"}
    BY <1>5, <2>2 DEF ProjectOpened, ProjectCancelled, AtEvent, AtRecord
  <2>4. PICK x \in Order : x = e.order
    BY <2>3, RecordFields
  <2>5. CASE x # o
    <3>1. \E c, status : UpsertOrder(x, c, status)
      BY <1>5, <2>2, <2>4 DEF ProjectOpened, ProjectCancelled
    <3> QED
      BY <2>5, <3>1, UpsertStatus DEF ProgressInv
  <2>6. CASE x = o /\ ProjectOpened(t)
    <3>1. UpsertOrder(o, ContextOf(o), OpenedRowStatus(orders[o].status))
      BY <2>2, <2>4, <2>6 DEF ProjectOpened
    <3>2. orders'[o].status = OpenedRowStatus(orders[o].status)
      BY <3>1, UpsertStatus DEF ProgressInv
    <3> QED
      BY <3>2 DEF OpenedRowStatus
  <2>7. CASE x = o /\ ProjectCancelled(t)
    <3>1. e.type = "OrderCancelled"
      BY <2>2, <2>7 DEF ProjectCancelled, AtEvent, AtRecord
    <3>2. t[2] \in Partition /\ at[t] \in DOMAIN topic[t[2]] /\ topic[t[2]][at[t]] = e
      BY <2>1, <2>2, RecordTyped DEF ProgressInv, HasRecord, RecordAt
    <3> QED
      BY <1>3, <2>4, <2>7, <3>1, <3>2 DEF CancelsAreOfOpenOrders
  <2> QED
    BY <1>5, <2>5, <2>6, <2>7
<1>6. ASSUME NEW t \in Task, ProjectTrade(t) PROVE orders'[o].status = "FILLED"
  <2>1. Filled(o, fills') >= InfoOf[o].quantity
    <3>1. PICK a \in Int, b \in Int : a = Filled(o, fills) /\ b = Filled(o, fills') /\ a <= b
      BY <1>6, TradeKeepsFilled
    <3> QED
      BY <1>3, <3>1
  <2>2. HasOrder(o)' /\ orders'[o].status # "CANCELLED"
    <3> DEFINE e == RecordAt(t)
               RoleOf(x) == CHOOSE r \in Role : e.order[r] = x
               all == IF Inserted(e) THEN fills \cup {FillRow(e)} ELSE fills
    <3>1. orders'[o] \in {orders[o], OrderAfterFill(o, LegContext(e, RoleOf(o)), all)}
      BY <1>6 DEF ProjectTrade
    <3>2. PICK c, rows : orders'[o] \in {orders[o], OrderAfterFill(o, c, rows)}
      BY <3>1
    <3>3. orders[o] \in OrderRow /\ FillStatus(o, c, rows) \in {"FILLED", "PARTIAL"}
      BY DEF ProgressInv, OrdersOK, FillStatus
    <3>4. OrderAfterFill(o, c, rows) = [orders[o] EXCEPT !.status = FillStatus(o, c, rows)]
      BY DEF OrderAfterFill, HasOrder
    <3>5. OrderAfterFill(o, c, rows).status = FillStatus(o, c, rows)
      BY <3>3, <3>4 DEF OrderRow
    <3> QED
      BY <3>2, <3>3, <3>5 DEF HasOrder
  <2> QED
    BY <1>2, <2>1, <2>2 DEF OrderFollowsFills
<1>7. ASSUME NEW t \in Task, TaskStep(t) PROVE orders'[o].status = "FILLED"
  BY <1>4, <1>5, <1>6, <1>7
     DEF TaskStep, SaveContext, MarkAccepted, MarkRejected, SkipRecord, LogEvent, ProjectDelta,
         ProjectOther, WaitForContext, Idle, orderTables, vars
<1>8. ASSUME NEW i \in Instance, Stop(i) \/ Start(i) PROVE orders'[o].status = "FILLED"
  BY <1>4, <1>8 DEF Stop, Start, orderTables
<1>9. orders'[o].status = "FILLED"
  BY <1>4, <1>7, <1>8 DEF Next, vars, orderTables
<1> QED
  BY <1>2, <1>9 DEF OrderFollowsFills

(***************************************************************************)
(* Filled and cancelled are final in every history in which the engine      *)
(* cancels open orders only: no late reply, no event that comes again and   *)
(* no lagging process takes them back.                                      *)
(***************************************************************************)
THEOREM ProjectorFinalStatusStays == Spec /\ []CancelsAreOfOpenOrders => FinalStatusStays
<1>1. CancelledStays /\ FilledStays =>
        \A o \in Order : ContextCertain(o) =>
          /\ orders[o].status \in {"FILLED", "CANCELLED"} => orders'[o].status = orders[o].status
          /\ contexts[o].status \in {"FILLED", "CANCELLED"} =>
               contexts'[o].status = contexts[o].status
  BY DEF CancelledStays, FilledStays
<1> QED
  BY <1>1, FilledInvariant, CancelledStep, FilledStep, PTL DEF Spec, FinalStatusStays

-----------------------------------------------------------------------------
(***************************************************************************)
(* What a leg makes of the position p of its account, and of the links of   *)
(* the account's fills.  A reduce-only leg that has nothing to reduce is    *)
(* ignored.                                                                 *)
(***************************************************************************)
Net(p) == Signed(p.side, p.quantity)

Ignored(p, c) == c.reduceOnly /\ (p.quantity = 0 \/ p.side = c.side)

Linked(p, rows, a, id) == id \in p.fills \/ \E row \in rows : row.account = a /\ id \in row.fills

EmptyHasNoFills(p) == p.quantity = 0 => p.fills = {}

Moves(p, rows, q, more, a, c, e) ==
  /\ rows \subseteq more
  /\ EmptyHasNoFills(p) => EmptyHasNoFills(q)
  /\ EmptyHasNoFills(p) => \A id : Linked(p, rows, a, id) => Linked(q, more, a, id)
  /\ ~Ignored(p, c) => Net(q) = Net(p) + Signed(c.side, e.quantity) /\ Linked(q, more, a, e.id)

LEMMA OpenedMoves ==
  ASSUME NEW p \in Position, NEW c \in LegInfo, c.side \in Side, NEW o, NEW rows, NEW a,
         NEW e, e.quantity \in Nat \ {0}, p.quantity = 0
  PROVE  Moves(p, rows, OpenPosition(c, o, e, e.quantity), rows, a, c, e)
<1>1. PICK q : q = OpenPosition(c, o, e, e.quantity)
  OBVIOUS
<1>2. q.side = c.side /\ q.quantity = e.quantity /\ q.fills = {e.id}
  BY <1>1 DEF OpenPosition
<1>3. PICK n \in Nat, m \in Nat : n = 0 /\ n = p.quantity /\ m = e.quantity
  OBVIOUS
<1>4. Net(q) = Net(p) + Signed(c.side, e.quantity)
  BY <1>2, <1>3 DEF Net, Signed
<1>5. Linked(q, rows, a, e.id) /\ EmptyHasNoFills(q)
  BY <1>2 DEF Linked, EmptyHasNoFills
<1>6. EmptyHasNoFills(p) => \A id : Linked(p, rows, a, id) => Linked(q, rows, a, id)
  BY DEF Linked, EmptyHasNoFills
<1> QED
  BY <1>1, <1>4, <1>5, <1>6 DEF Moves

LEMMA IncreaseMoves ==
  ASSUME NEW p \in Position, NEW c \in LegInfo, c.side \in Side, NEW rows, NEW a,
         NEW e, e.quantity \in Nat \ {0}, p.side = c.side
  PROVE  Moves(p, rows, Increase(p, c, e), rows, a, c, e)
<1>1. PICK q : q = Increase(p, c, e)
  OBVIOUS
<1>2. PICK margin, average : q = [p EXCEPT !.quantity = p.quantity + e.quantity, !.margin = margin,
                                           !.average = average, !.fills = p.fills \cup {e.id}]
  BY <1>1 DEF Increase
<1>3. q.side = p.side /\ q.quantity = p.quantity + e.quantity /\ q.fills = p.fills \cup {e.id}
  <2>1. PICK p1 : p1 = [p EXCEPT !.quantity = p.quantity + e.quantity]
    OBVIOUS
  <2>2. PICK p2 : p2 = [p1 EXCEPT !.margin = margin]
    OBVIOUS
  <2>3. PICK p3 : p3 = [p2 EXCEPT !.average = average]
    OBVIOUS
  <2>4. DOMAIN p = {"side", "quantity", "margin", "average", "pnl", "openOrder", "fills"}
    BY DEF Position
  <2>5. DOMAIN p1 = DOMAIN p /\ p1.side = p.side /\ p1.quantity = p.quantity + e.quantity
    BY <2>1, <2>4
  <2>6. DOMAIN p2 = DOMAIN p /\ p2.side = p.side /\ p2.quantity = p.quantity + e.quantity
    BY <2>2, <2>4, <2>5
  <2>7. DOMAIN p3 = DOMAIN p /\ p3.side = p.side /\ p3.quantity = p.quantity + e.quantity
    BY <2>3, <2>4, <2>6
  <2>8. q = [p3 EXCEPT !.fills = p.fills \cup {e.id}]
    BY <1>2, <2>1, <2>2, <2>3
  <2> QED
    BY <2>4, <2>7, <2>8
<1>4. PICK n \in Nat, m \in Nat : n = p.quantity /\ m = e.quantity
  BY DEF Position
<1>5. Net(q) = Net(p) + Signed(c.side, e.quantity)
  BY <1>3, <1>4 DEF Net, Signed
<1>6. Linked(q, rows, a, e.id) /\ EmptyHasNoFills(q)
  BY <1>3, <1>4 DEF Linked, EmptyHasNoFills
<1>7. \A id : Linked(p, rows, a, id) => Linked(q, rows, a, id)
  BY <1>3 DEF Linked
<1> QED
  BY <1>1, <1>5, <1>6, <1>7 DEF Moves

LEMMA ReducedMoves ==
  ASSUME NEW p \in Position, NEW c \in LegInfo, c.side \in Side, NEW o, NEW rows, NEW a,
         NEW e, e.quantity \in Nat \ {0}, p.side # c.side, p.quantity # 0
  PROVE  Moves(p, rows, Reduced(p, c, o, e), rows \cup {CloseRow(p, a, o, e)}, a, c, e)
<1>1. PICK q, more, row : /\ q = Reduced(p, c, o, e) /\ more = rows \cup {row}
                          /\ row = CloseRow(p, a, o, e)
  OBVIOUS
<1>2. PICK n \in Nat, m \in Nat : n = p.quantity /\ m = e.quantity /\ n # 0 /\ m # 0
  BY DEF Position
<1>3. PICK k \in Nat : k = ClosedQuantity(p, e) /\ k = (IF n < m THEN n ELSE m)
  BY <1>2 DEF ClosedQuantity
<1>4. row.account = a /\ row.fills = ClosedFills(p, e)
  BY <1>1 DEF CloseRow
<1>5. Linked(q, more, a, e.id)
  BY <1>1, <1>4 DEF Linked, ClosedFills
<1>6. p.side \in Side
  BY DEF Position
<1>7. CASE k < n
  <2>1. PICK margin : q = [p EXCEPT !.quantity = n - k, !.margin = margin]
    BY <1>1, <1>2, <1>3, <1>7 DEF Reduced
  <2>2. q.side = p.side /\ q.quantity = n - k /\ q.fills = p.fills
    <3>1. PICK p1 : p1 = [p EXCEPT !.quantity = n - k]
      OBVIOUS
    <3>2. DOMAIN p = {"side", "quantity", "margin", "average", "pnl", "openOrder", "fills"}
      BY DEF Position
    <3>3. DOMAIN p1 = DOMAIN p /\ p1.side = p.side /\ p1.quantity = n - k /\ p1.fills = p.fills
      BY <3>1, <3>2
    <3>4. q = [p1 EXCEPT !.margin = margin]
      BY <2>1, <3>1
    <3> QED
      BY <3>2, <3>3, <3>4
  <2>3. Net(q) = Net(p) + Signed(c.side, m)
    BY <1>2, <1>3, <1>6, <1>7, <2>2 DEF Net, Signed, Side
  <2>4. EmptyHasNoFills(q) /\ \A id : Linked(p, rows, a, id) => Linked(q, more, a, id)
    BY <1>1, <1>2, <1>3, <1>7, <2>2 DEF EmptyHasNoFills, Linked
  <2> QED
    BY <1>1, <1>2, <1>5, <2>3, <2>4 DEF Moves
<1>8. CASE ~(k < n)
  <2>1. row.fills = p.fills \cup {e.id}
    BY <1>2, <1>3, <1>4, <1>8 DEF ClosedFills
  <2>2. \A id : Linked(p, rows, a, id) => Linked(q, more, a, id)
    BY <1>1, <1>4, <2>1 DEF Linked
  <2>3. CASE m > k
    <3>1. q = OpenPosition(c, o, e, m - k)
      BY <1>1, <1>2, <1>3, <1>8, <2>3 DEF Reduced
    <3>2. q.side = c.side /\ q.quantity = m - k
      BY <3>1 DEF OpenPosition
    <3>3. Net(q) = Net(p) + Signed(c.side, m)
      BY <1>2, <1>3, <1>6, <1>8, <2>3, <3>2 DEF Net, Signed, Side
    <3>4. EmptyHasNoFills(q)
      BY <1>3, <2>3, <3>2 DEF EmptyHasNoFills
    <3> QED
      BY <1>1, <1>2, <1>5, <2>2, <3>3, <3>4 DEF Moves
  <2>4. CASE ~(m > k)
    <3>1. q = NoPosition
      BY <1>1, <1>2, <1>3, <1>8, <2>4 DEF Reduced
    <3>2. q.side = "LONG" /\ q.quantity = 0 /\ q.fills = {}
      BY <3>1 DEF NoPosition
    <3>3. Net(q) = Net(p) + Signed(c.side, m)
      BY <1>2, <1>3, <1>6, <1>8, <2>4, <3>2 DEF Net, Signed, Side
    <3>4. EmptyHasNoFills(q)
      BY <3>2 DEF EmptyHasNoFills
    <3> QED
      BY <1>1, <1>2, <1>5, <2>2, <3>3, <3>4 DEF Moves
  <2> QED
    BY <2>3, <2>4
<1> QED
  BY <1>7, <1>8

\* project_position_for_fill_in_tx: s holds the positions ps and the closed
\* positions cs.
LegMoves(s, ps, cs, a, c, e) ==
  \E qs, ds :
    /\ qs \in [Account -> Position]
    /\ s = [positions |-> qs, closed |-> ds]
    /\ \A b \in Account : b # a => qs[b] = ps[b]
    /\ Moves(ps[a], cs, qs[a], ds, a, c, e)

LEMMA ApplyLegMoves ==
  ASSUME OrdersOK, NEW e \in Record, e.type = "TradeExecuted", NEW role \in Role,
         LegContext(e, role).found, NEW ps \in [Account -> Position], NEW cs,
         NEW a \in Account, a = <<InfoOf[e.order[role]].user, e.market>>
  PROVE  LegMoves(ApplyLeg([positions |-> ps, closed |-> cs], e, role),
                  ps, cs, a, LegContext(e, role), e)
<1>1. e.order[role] \in Order /\ e.price \in Nat /\ e.quantity \in Nat \ {0} /\ e.id \in Nat
  <2>1. e.order \in [Role -> Order] /\ e.price \in Price /\ e.quantity \in Nat \ {0}
    BY RecordFields
  <2>2. e.id \in Nat
    BY DEF Record
  <2> QED
    BY <2>1, <2>2, ProjectorAssumption
<1>2. PICK o \in Order : o = e.order[role]
  BY <1>1
<1>3. PICK c \in LegInfo : c.side \in Side /\ c = LegContext(e, role)
  BY LegContextTyped
<1>4. PICK p \in Position : p = ps[a]
  OBVIOUS
<1> DEFINE s == [positions |-> ps, closed |-> cs]
           Put(q) == [s EXCEPT !.positions[a] = q]
<1>5. ApplyLeg(s, e, role) =
        IF p.quantity = 0
          THEN IF c.reduceOnly THEN s ELSE Put(OpenPosition(c, o, e, e.quantity))
        ELSE IF p.side = c.side
          THEN IF c.reduceOnly THEN s ELSE Put(Increase(p, c, e))
        ELSE [Put(Reduced(p, c, o, e)) EXCEPT !.closed = @ \cup {CloseRow(p, a, o, e)}]
  BY <1>2, <1>3, <1>4 DEF ApplyLeg
<1>6. ASSUME NEW q \in Position, NEW ds, Moves(p, cs, q, ds, a, c, e)
      PROVE  LegMoves([positions |-> [ps EXCEPT ![a] = q], closed |-> ds], ps, cs, a, c, e)
  <2>1. PICK qs : qs = [ps EXCEPT ![a] = q]
    OBVIOUS
  <2>2. qs \in [Account -> Position] /\ qs[a] = q /\ \A b \in Account : b # a => qs[b] = ps[b]
    BY <2>1
  <2>3. LegMoves([positions |-> qs, closed |-> ds], ps, cs, a, c, e)
    BY <1>4, <1>6, <2>2 DEF LegMoves
  <2> QED
    BY <2>1, <2>3
<1>7. \A q \in Position : Put(q) = [positions |-> [ps EXCEPT ![a] = q], closed |-> cs]
  OBVIOUS
<1>8. ASSUME NEW q \in Position, NEW row
      PROVE  [Put(q) EXCEPT !.closed = @ \cup {row}] =
               [positions |-> [ps EXCEPT ![a] = q], closed |-> cs \cup {row}]
  <2>1. PICK qs, ds : qs = [ps EXCEPT ![a] = q] /\ ds = cs \cup {row}
    OBVIOUS
  <2>2. Put(q) = [positions |-> qs, closed |-> cs]
    BY <1>7, <2>1
  <2> HIDE DEF Put
  <2>3. PICK x : x = Put(q)
    OBVIOUS
  <2>4. [x EXCEPT !.closed = ds] = [positions |-> qs, closed |-> ds] /\ x.closed = cs
    BY <2>2, <2>3
  <2> QED
    BY <2>1, <2>3, <2>4
<1>9. Ignored(p, c) => LegMoves(s, ps, cs, a, c, e)
  <2>1. Ignored(p, c) => Moves(p, cs, p, cs, a, c, e)
    BY DEF Moves
  <2> QED
    BY <1>4, <2>1 DEF LegMoves
<1> HIDE DEF s, Put
<1>10. CASE Ignored(p, c)
  BY <1>3, <1>5, <1>9, <1>10 DEF Ignored, s
<1>11. CASE ~Ignored(p, c) /\ p.quantity = 0
  <2>1. PICK q \in Position : q = OpenPosition(c, o, e, e.quantity)
    BY <1>1, <1>3, OpenedTyped
  <2>2. Moves(p, cs, q, cs, a, c, e)
    BY <1>1, <1>3, <1>11, <2>1, OpenedMoves
  <2>3. ApplyLeg(s, e, role) = Put(q)
    BY <1>5, <1>11, <2>1 DEF Ignored
  <2>4. LegMoves(Put(q), ps, cs, a, c, e)
    <3>1. LegMoves([positions |-> [ps EXCEPT ![a] = q], closed |-> cs], ps, cs, a, c, e)
      BY <1>6, <2>2
    <3> QED
      BY <1>7, <3>1
  <2> QED
    BY <1>3, <2>3, <2>4 DEF s
<1>12. CASE ~Ignored(p, c) /\ p.quantity # 0 /\ p.side = c.side
  <2>1. PICK q \in Position : q = Increase(p, c, e)
    BY <1>1, <1>3, IncreasedTyped
  <2>2. Moves(p, cs, q, cs, a, c, e)
    BY <1>1, <1>3, <1>12, <2>1, IncreaseMoves
  <2>3. ApplyLeg(s, e, role) = Put(q)
    BY <1>5, <1>12, <2>1 DEF Ignored
  <2>4. LegMoves(Put(q), ps, cs, a, c, e)
    <3>1. LegMoves([positions |-> [ps EXCEPT ![a] = q], closed |-> cs], ps, cs, a, c, e)
      BY <1>6, <2>2
    <3> QED
      BY <1>7, <3>1
  <2> QED
    BY <1>3, <2>3, <2>4 DEF s
<1>13. CASE p.quantity # 0 /\ p.side # c.side
  <2>1. PICK q \in Position : q = Reduced(p, c, o, e)
    BY <1>1, <1>3, ReducedTyped
  <2>2. PICK row : row = CloseRow(p, a, o, e)
    OBVIOUS
  <2>3. Moves(p, cs, q, cs \cup {row}, a, c, e)
    BY <1>1, <1>3, <1>13, <2>1, <2>2, ReducedMoves
  <2>4. ApplyLeg(s, e, role) = [Put(q) EXCEPT !.closed = @ \cup {row}]
    BY <1>5, <1>13, <2>1, <2>2
  <2>5. LegMoves([Put(q) EXCEPT !.closed = @ \cup {row}], ps, cs, a, c, e)
    <3>1. PICK ds : ds = cs \cup {row}
      OBVIOUS
    <3>2. LegMoves([positions |-> [ps EXCEPT ![a] = q], closed |-> ds], ps, cs, a, c, e)
      BY <1>6, <2>3, <3>1
    <3> QED
      BY <1>8, <3>1, <3>2
  <2> QED
    BY <1>3, <2>4, <2>5 DEF s
<1> QED
  BY <1>10, <1>11, <1>12, <1>13

-----------------------------------------------------------------------------
(***************************************************************************)
(* The legs of an account as a sum.                                         *)
(***************************************************************************)
NetOf(S) == MapThenSumSet(SignedLeg, S)

SummableLegs(S) == IsFiniteSet(S) /\ \A x \in S : SignedLeg(x) \in Int

LEMMA LegsAreSum ==
  ASSUME NEW S, SummableLegs(S)
  PROVE  NetOf(S) = SumOver([x \in S |-> SignedLeg(x)], S)
<1>1. PICK q : q = [x \in S |-> SignedLeg(x)]
  OBVIOUS
<1> DEFINE Step(g, s) ==
             IF s = {} THEN 0
             ELSE SignedLeg(CHOOSE x \in s : TRUE) + g[s \ {CHOOSE x \in s : TRUE}]
           fold == CHOOSE g : g = [s \in SUBSET S |-> Step(g, s)]
<1>2. NetOf(S) = fold[S]
  BY DEF NetOf, MapThenSumSet, MapThenFoldSet
<1>3. \A g : Folds(g, q, S) <=> g = [s \in SUBSET S |-> Step(g, s)]
  <2>1. ASSUME NEW g, NEW s \in SUBSET S PROVE FoldStep(g, q, s) = Step(g, s)
    <3>1. s # {} => q[CHOOSE x \in s : TRUE] = SignedLeg(CHOOSE x \in s : TRUE)
      BY <1>1
    <3> QED
      BY <3>1 DEF FoldStep
  <2> HIDE DEF Step
  <2>2. ASSUME NEW g
        PROVE  [s \in SUBSET S |-> FoldStep(g, q, s)] = [s \in SUBSET S |-> Step(g, s)]
    BY <2>1
  <2> QED
    BY <2>2 DEF Folds
<1>4. IsFiniteSet(S) /\ \A x \in S : q[x] \in Int
  BY <1>1 DEF SummableLegs
<1>5. \E g : Folds(g, q, S)
  BY <1>4, FoldExists
<1>6. Folds(fold, q, S)
  <2> HIDE DEF Step
  <2> QED
    BY <1>3, <1>5
<1> HIDE DEF fold
<1>7. fold[S] = SumOver(q, S)
  BY <1>4, <1>6, FoldIsSum
<1> QED
  BY <1>1, <1>2, <1>7

LEMMA NoLegs == SummableLegs({}) /\ NetOf({}) = 0
<1>1. SummableLegs({})
  BY FS_EmptySet DEF SummableLegs
<1>2. NetOf({}) = SumOver([x \in {} |-> SignedLeg(x)], {})
  BY <1>1, LegsAreSum
<1> QED
  BY <1>1, <1>2, SumOverEmpty

LEMMA LegsAdd ==
  ASSUME NEW S, SummableLegs(S), NEW x, x \notin S, SignedLeg(x) \in Int
  PROVE  /\ SummableLegs(S \cup {x})
         /\ NetOf(S) \in Int /\ NetOf(S \cup {x}) = NetOf(S) + SignedLeg(x)
<1>1. PICK U : U = S \cup {x}
  OBVIOUS
<1>2. SummableLegs(U)
  BY <1>1, FS_AddElement DEF SummableLegs
<1>3. PICK q, h : q = [y \in U |-> SignedLeg(y)] /\ h = [y \in S |-> SignedLeg(y)]
  OBVIOUS
<1>4. NetOf(S) = SumOver(h, S) /\ NetOf(U) = SumOver(q, U)
  BY <1>2, <1>3, LegsAreSum
<1>5. IsFiniteSet(S) /\ \A y \in S : h[y] \in Int
  BY <1>3 DEF SummableLegs
<1>6. PICK n \in Int : n = SumOver(h, S)
  BY <1>5, SumOverType
<1>7. /\ \A y \in S \cup {x} : q[y] \in Int
      /\ \A y \in S : h[y] \in Int /\ q[y] = h[y]
      /\ q[x] = SignedLeg(x)
  BY <1>1, <1>2, <1>3, <1>5 DEF SummableLegs
<1>8. SumOver(q, S \cup {x}) = q[x] + SumOver(q, S)
  BY <1>5, <1>7, SumOverAdd
<1>9. SumOver(q, S) = SumOver(h, S)
  BY <1>5, <1>7, SumOverSame
<1>10. PICK m \in Int : m = SignedLeg(x)
  OBVIOUS
<1>11. NetOf(U) = m + n /\ NetOf(S) = n
  BY <1>1, <1>4, <1>6, <1>7, <1>8, <1>9, <1>10
<1> QED
  BY <1>1, <1>2, <1>10, <1>11

(***************************************************************************)
(* The position p and the closed positions account for the legs S of the    *)
(* account a.                                                               *)
(***************************************************************************)
Accounted(p, rows, a, S) ==
  /\ SummableLegs(S)
  /\ Net(p) = NetOf(S)
  /\ \A x \in S : Linked(p, rows, a, x[1].id)

Against(side, net) == IF side = "LONG" THEN net < 0 ELSE net > 0

\* A reduce-only leg against what is open is not ignored.
LEMMA NotIgnored ==
  ASSUME NEW p \in Position, NEW c, c.side \in Side, c.reduceOnly => Against(c.side, Net(p))
  PROVE  ~Ignored(p, c)
<1>1. PICK n \in Nat : n = p.quantity
  BY DEF Position
<1>2. p.side \in Side
  BY DEF Position
<1> QED
  BY <1>1, <1>2 DEF Ignored, Against, Net, Signed, Side

LEMMA LegAccounted ==
  ASSUME NEW ps, NEW cs, NEW a, NEW c, NEW e, NEW q, NEW ds,
         Moves(ps, cs, q, ds, a, c, e), EmptyHasNoFills(ps), ~Ignored(ps, c),
         NEW S, Accounted(ps, cs, a, S),
         NEW x, x \notin S, SignedLeg(x) \in Int, x[1].id = e.id,
         SignedLeg(x) = Signed(c.side, e.quantity)
  PROVE  EmptyHasNoFills(q) /\ Accounted(q, ds, a, S \cup {x})
<1>1. SummableLegs(S) /\ Net(ps) = NetOf(S) /\ \A y \in S : Linked(ps, cs, a, y[1].id)
  BY DEF Accounted
<1>2. SummableLegs(S \cup {x}) /\ NetOf(S \cup {x}) = NetOf(S) + SignedLeg(x)
  BY <1>1, LegsAdd
<1>3. /\ EmptyHasNoFills(q)
      /\ \A id : Linked(ps, cs, a, id) => Linked(q, ds, a, id)
      /\ Net(q) = Net(ps) + Signed(c.side, e.quantity) /\ Linked(q, ds, a, e.id)
  BY DEF Moves
<1>4. Net(q) = NetOf(S \cup {x})
  BY <1>1, <1>2, <1>3
<1>5. \A y \in S \cup {x} : Linked(q, ds, a, y[1].id)
  BY <1>1, <1>3
<1> QED
  BY <1>2, <1>3, <1>4, <1>5 DEF Accounted

LEMMA OthersAccounted ==
  ASSUME NEW p, NEW q, NEW cs, NEW ds, cs \subseteq ds, NEW a, NEW S, Accounted(p, cs, a, S),
         q.side = p.side, q.quantity = p.quantity, q.fills = p.fills
  PROVE  Accounted(q, ds, a, S)
BY DEF Accounted, Net, Linked

(***************************************************************************)
(* The engine lets a reduce-only order, and the orders of liquidations and  *)
(* of auto-deleveraging, trade only against what its account has open.      *)
(* project_position_for_fill_in_tx relies on it: it ignores a reduce-only   *)
(* leg that has nothing to reduce, although its fill is stored.             *)
(***************************************************************************)
AccountOf(e, role) == <<InfoOf[e.order[role]].user, e.market>>

\* The maker's leg is applied before the taker's.
LegsBefore(e, role) ==
  IF role = "taker" /\ AccountOf(e, "maker") = AccountOf(e, "taker")
    THEN Legs(AccountOf(e, role)) \cup {<<FillRow(e), "maker">>}
    ELSE Legs(AccountOf(e, role))

ReducesOnly(e) ==
  \A r \in Role : LegContext(e, r).reduceOnly /\ ~MayBeMadeUp(AccountOf(e, r)) =>
    Against(LegContext(e, r).side, NetOf(LegsBefore(e, r)))

ReduceOnlyReduces ==
  \A t \in Task :
    /\ AtEvent(t, "TradeExecuted") /\ Inserted(RecordAt(t))
    /\ \A r \in Role : LegContext(RecordAt(t), r).found
    => ReducesOnly(RecordAt(t))

PositionsInv ==
  /\ \A a \in Account : EmptyHasNoFills(positions[a])
  /\ \A a \in Account : ~MayBeMadeUp(a) => Accounted(positions[a], closed, a, Legs(a))

\* One leg of the trade e: qs and ds are what it makes of ps and cs.
LegStep(ps, cs, qs, ds, e, role) ==
  /\ cs \subseteq ds
  /\ \A a \in Account : a # AccountOf(e, role) => qs[a] = ps[a]
  /\ \A a \in Account : EmptyHasNoFills(ps[a]) => EmptyHasNoFills(qs[a])
  /\ \A S : LET a == AccountOf(e, role)
                x == <<FillRow(e), role>>
            IN /\ EmptyHasNoFills(ps[a]) /\ Accounted(ps[a], cs, a, S) /\ x \notin S
               /\ LegContext(e, role).reduceOnly => Against(LegContext(e, role).side, NetOf(S))
               => Accounted(qs[a], ds, a, S \cup {x})

LEMMA LegSteps ==
  ASSUME OrdersOK, NEW e \in Record, e.type = "TradeExecuted", NEW role \in Role,
         LegContext(e, role).found, NEW ps \in [Account -> Position], NEW cs
  PROVE  \E qs, ds :
           /\ qs \in [Account -> Position]
           /\ ApplyLeg([positions |-> ps, closed |-> cs], e, role) = [positions |-> qs, closed |-> ds]
           /\ LegStep(ps, cs, qs, ds, e, role)
<1>1. e.order[role] \in Order /\ e.quantity \in Nat \ {0} /\ e.market \in Market
  BY RecordFields
<1>2. PICK a \in Account : a = AccountOf(e, role)
  BY <1>1, ProjectorAssumption DEF AccountOf, Account, OrderInfo
<1>3. PICK c \in LegInfo : c.side \in Side /\ c = LegContext(e, role)
  BY LegContextTyped
<1>4. LegMoves(ApplyLeg([positions |-> ps, closed |-> cs], e, role), ps, cs, a, c, e)
  BY <1>2, <1>3, ApplyLegMoves DEF AccountOf
<1>5. PICK qs, ds :
        /\ qs \in [Account -> Position]
        /\ ApplyLeg([positions |-> ps, closed |-> cs], e, role) = [positions |-> qs, closed |-> ds]
        /\ \A b \in Account : b # a => qs[b] = ps[b]
        /\ Moves(ps[a], cs, qs[a], ds, a, c, e)
  BY <1>4 DEF LegMoves
<1>6. cs \subseteq ds /\ (EmptyHasNoFills(ps[a]) => EmptyHasNoFills(qs[a]))
  BY <1>5 DEF Moves
<1>7. PICK x : x = <<FillRow(e), role>>
  OBVIOUS
<1>8. x[1].id = e.id /\ SignedLeg(x) = Signed(c.side, e.quantity) /\ SignedLeg(x) \in Int
  <2>1. PICK f : f = FillRow(e)
    OBVIOUS
  <2>2. f.id = e.id /\ f.quantity = e.quantity /\ f.side[role] = c.side
    BY <1>3, <2>1 DEF FillRow
  <2>3. x[1] = f /\ x[2] = role
    BY <1>7, <2>1
  <2>4. SignedLeg(x) = Signed(c.side, e.quantity)
    BY <2>2, <2>3 DEF SignedLeg
  <2>5. PICK n \in Nat : n = e.quantity
    BY <1>1
  <2>6. Signed(c.side, n) \in Int
    BY DEF Signed
  <2> QED
    BY <2>2, <2>3, <2>4, <2>5, <2>6
<1>9. ASSUME NEW S, EmptyHasNoFills(ps[a]), Accounted(ps[a], cs, a, S), x \notin S,
             c.reduceOnly => Against(c.side, NetOf(S))
      PROVE  Accounted(qs[a], ds, a, S \cup {x})
  <2>1. ps[a] \in Position /\ Net(ps[a]) = NetOf(S)
    BY <1>9 DEF Accounted
  <2>2. ~Ignored(ps[a], c)
    BY <1>3, <1>9, <2>1, NotIgnored
  <2> QED
    BY <1>5, <1>8, <1>9, <2>2, LegAccounted
<1>10. LegStep(ps, cs, qs, ds, e, role)
  BY <1>2, <1>3, <1>5, <1>6, <1>7, <1>9 DEF LegStep
<1> QED
  BY <1>5, <1>10

\* A stored trade is a leg more for the account of each of its roles.
LEMMA LegsWithFill ==
  ASSUME NEW e, NEW f, f = FillRow(e), e.order \in [Role -> Order], e.market \in Market,
         fills' = fills \cup {f}, NEW a \in Account
  PROVE  Legs(a)' = Legs(a) \cup {x \in {f} \X Role : AccountOf(e, x[2]) = a}
<1>1. f.market = e.market /\ f.order = e.order
  BY DEF FillRow
<1>2. a = <<a[1], a[2]>>
  BY DEF Account
<1>3. \A r \in Role : AccountOf(e, r) = a <=> f.market = a[2] /\ InfoOf[f.order[r]].user = a[1]
  BY <1>1, <1>2 DEF AccountOf
<1>4. Legs(a)' = {x \in fills' \X Role : x[1].market = a[2] /\ InfoOf[x[1].order[x[2]]].user = a[1]}
  BY DEF Legs
<1> QED
  BY <1>3, <1>4 DEF Legs

LEMMA MarkKeeps ==
  ASSUME NEW p \in Position, NEW price
  PROVE  /\ Mark(p, price).side = p.side /\ Mark(p, price).quantity = p.quantity
         /\ Mark(p, price).fills = p.fills
<1>1. PICK n : Mark(p, price) = [p EXCEPT !.pnl = n]
  BY DEF Mark
<1> QED
  BY <1>1 DEF Position

\* project_trade_executed: the maker's leg, the taker's, then the marks.
LEMMA TradeKeepsPositions ==
  ASSUME ProgressInv, PnlInv, PositionsInv, ReduceOnlyReduces, NEW t \in Task, ProjectTrade(t)
  PROVE  PositionsInv'
<1>1. PICK e \in Record : e = RecordAt(t) /\ e.type = "TradeExecuted"
  BY RecordTyped DEF ProjectTrade, AtEvent, AtRecord, ProgressInv
<1> DEFINE maker == ApplyLeg([positions |-> positions, closed |-> closed], e, "maker")
           both == ApplyLeg(maker, e, "taker")
<1>2. /\ \A r \in Role : LegContext(e, r).found
      /\ topic' = topic
      /\ fills' = IF Inserted(e) THEN fills \cup {FillRow(e)} ELSE fills
      /\ IF Inserted(e) THEN positions' = RefreshPnl(both.positions, e) /\ closed' = both.closed
         ELSE UNCHANGED <<positions, closed>>
  BY <1>1 DEF ProjectTrade, Advance
<1>3. \A a : MayBeMadeUp(a)' <=> MayBeMadeUp(a)
  BY <1>2 DEF MayBeMadeUp, ContextCertain, Trades, IsSynthetic
<1>4. CASE ~Inserted(e)
  <2>1. \A a : Legs(a)' = Legs(a)
    BY <1>2, <1>4 DEF Legs
  <2> QED
    BY <1>2, <1>3, <1>4, <2>1 DEF PositionsInv
<1>5. CASE Inserted(e)
  <2>1. e.order \in [Role -> Order] /\ e.market \in Market
    BY <1>1, RecordFields
  <2>2. /\ positions \in [Account -> Position] /\ "maker" \in Role /\ "taker" \in Role
        /\ OrdersOK
    BY DEF PnlInv, PositionsOK, Role, ProgressInv
  <2>3. PICK qs, ds :
          /\ qs \in [Account -> Position]
          /\ maker = [positions |-> qs, closed |-> ds]
          /\ LegStep(positions, closed, qs, ds, e, "maker")
    BY <1>1, <1>2, <2>2, LegSteps
  <2>4. PICK rs, zs :
          /\ rs \in [Account -> Position]
          /\ both = [positions |-> rs, closed |-> zs]
          /\ LegStep(qs, ds, rs, zs, e, "taker")
    <3>1. both = ApplyLeg([positions |-> qs, closed |-> ds], e, "taker")
      BY <2>3
    <3> HIDE DEF both
    <3> QED
      BY <1>1, <1>2, <2>2, <2>3, <3>1, LegSteps
  <2>5. closed' = zs /\ positions' = [a \in Account |->
                        IF a[2] = e.market THEN Mark(rs[a], e.price) ELSE rs[a]]
    BY <1>2, <1>5, <2>4 DEF RefreshPnl
  <2> HIDE DEF maker, both
  <2>6. ASSUME NEW a \in Account
        PROVE  /\ positions'[a].side = rs[a].side /\ positions'[a].quantity = rs[a].quantity
               /\ positions'[a].fills = rs[a].fills
    <3>1. rs[a] \in Position
      BY <2>4
    <3> QED
      BY <2>5, <3>1, MarkKeeps
  <2>7. PICK f, x, y : f = FillRow(e) /\ x = <<f, "maker">> /\ y = <<f, "taker">>
    OBVIOUS
  <2>8. f \notin fills /\ fills' = fills \cup {f} /\ f.id = e.id
    BY <1>2, <1>5, <2>7 DEF Inserted, FillRow
  <2>9. ReducesOnly(e)
    BY <1>1, <1>2, <1>5 DEF ReduceOnlyReduces, ProjectTrade
  <2>10. ASSUME NEW a \in Account, ~MayBeMadeUp(a)
         PROVE  Accounted(rs[a], zs, a, Legs(a)')
    <3>1. EmptyHasNoFills(positions[a]) /\ Accounted(positions[a], closed, a, Legs(a))
      BY <2>10 DEF PositionsInv
    <3>2. x \notin Legs(a) /\ y \notin Legs(a) /\ x # y
      BY <2>7, <2>8 DEF Legs
    <3>3. PICK S : S = IF a = AccountOf(e, "maker") THEN Legs(a) \cup {x} ELSE Legs(a)
      OBVIOUS
    <3>4. PICK T : T = IF a = AccountOf(e, "taker") THEN S \cup {y} ELSE S
      OBVIOUS
    <3>5. Legs(a)' = T
      <4>1. Legs(a)' = Legs(a) \cup {z \in {f} \X Role : AccountOf(e, z[2]) = a}
        BY <2>1, <2>7, <2>8, LegsWithFill
      <4>2. {f} \X Role = {x, y} /\ x[2] = "maker" /\ y[2] = "taker"
        BY <2>7 DEF Role
      <4> QED
        BY <3>3, <3>4, <4>1, <4>2
    <3>6. EmptyHasNoFills(qs[a]) /\ Accounted(qs[a], ds, a, S)
      <4>1. CASE a = AccountOf(e, "maker")
        <5>1. LegContext(e, "maker").reduceOnly =>
                Against(LegContext(e, "maker").side, NetOf(Legs(a)))
          BY <2>2, <2>9, <2>10, <4>1 DEF ReducesOnly, LegsBefore
        <5> QED
          BY <2>3, <2>7, <3>1, <3>2, <3>3, <4>1, <5>1 DEF LegStep
      <4>2. CASE a # AccountOf(e, "maker")
        <5>1. qs[a] = positions[a] /\ closed \subseteq ds /\ S = Legs(a)
          BY <2>3, <3>3, <4>2 DEF LegStep
        <5> QED
          BY <3>1, <5>1, OthersAccounted
      <4> QED
        BY <4>1, <4>2
    <3>7. CASE a = AccountOf(e, "taker")
      <4>1. S = LegsBefore(e, "taker")
        BY <2>7, <3>3, <3>7 DEF LegsBefore
      <4>2. LegContext(e, "taker").reduceOnly =>
              Against(LegContext(e, "taker").side, NetOf(S))
        BY <2>2, <2>9, <2>10, <3>7, <4>1 DEF ReducesOnly
      <4>3. y \notin S
        BY <3>2, <3>3
      <4> QED
        BY <2>4, <2>7, <3>4, <3>5, <3>6, <3>7, <4>2, <4>3 DEF LegStep
    <3>8. CASE a # AccountOf(e, "taker")
      <4>1. rs[a] = qs[a] /\ ds \subseteq zs /\ T = S
        BY <2>4, <3>4, <3>8 DEF LegStep
      <4> QED
        BY <3>5, <3>6, <4>1, OthersAccounted
    <3> QED
      BY <3>7, <3>8
  <2>11. ASSUME NEW a \in Account, ~MayBeMadeUp(a)
         PROVE  Accounted(positions[a], closed, a, Legs(a))'
    <3>1. Accounted(positions'[a], zs, a, Legs(a)')
      BY <2>6, <2>10, <2>11, OthersAccounted
    <3> QED
      BY <2>5, <3>1
  <2>12. ASSUME NEW a \in Account PROVE EmptyHasNoFills(positions[a])'
    <3>1. EmptyHasNoFills(rs[a])
      BY <2>3, <2>4 DEF PositionsInv, LegStep
    <3> QED
      BY <2>6, <3>1 DEF EmptyHasNoFills
  <2> QED
    BY <1>3, <2>11, <2>12 DEF PositionsInv
<1> QED
  BY <1>4, <1>5

LEMMA PositionsStepInv ==
  ProgressInv /\ PnlInv /\ PositionsInv /\ ReduceOnlyReduces /\ [Next]_vars => PositionsInv'
<1> SUFFICES ASSUME ProgressInv, PnlInv, PositionsInv, ReduceOnlyReduces, [Next]_vars
             PROVE  PositionsInv'
  OBVIOUS
<1>1. ASSUME UNCHANGED <<topic, fills, positions, closed>> PROVE PositionsInv'
  <2>1. \A a : MayBeMadeUp(a)' <=> MayBeMadeUp(a)
    BY <1>1 DEF MayBeMadeUp, ContextCertain, Trades, IsSynthetic
  <2>2. \A a : Legs(a)' = Legs(a)
    BY <1>1 DEF Legs
  <2> QED
    BY <1>1, <2>1, <2>2 DEF PositionsInv
<1>2. ASSUME NEW t \in Task, TaskStep(t) PROVE PositionsInv'
  BY <1>1, <1>2, TradeKeepsPositions
     DEF TaskStep, SaveContext, MarkAccepted, MarkRejected, SkipRecord, LogEvent, ProjectOpened,
         ProjectCancelled, ProjectDelta, ProjectOther, WaitForContext, Idle, Advance,
         tradeTables, vars
<1>3. ASSUME NEW i \in Instance, Stop(i) \/ Start(i) PROVE PositionsInv'
  BY <1>1, <1>3 DEF Stop, Start, tradeTables
<1> QED
  BY <1>1, <1>2, <1>3 DEF Next, vars, tradeTables

LEMMA PositionsInvariant == Spec /\ []ReduceOnlyReduces => []PositionsInv
<1>1. Init => PnlInv
  BY DEF Init, PnlInv, PositionsOK, PnlAtLastPrice, NoPosition, Position, Side
<1>2. Init => PositionsInv
  <2> SUFFICES ASSUME Init, NEW a \in Account
               PROVE  EmptyHasNoFills(positions[a]) /\ Accounted(positions[a], closed, a, Legs(a))
    BY DEF PositionsInv
  <2>1. Legs(a) = {}
    BY DEF Init, Legs
  <2>2. positions[a].side = "LONG" /\ positions[a].quantity = 0 /\ positions[a].fills = {}
    BY DEF Init, NoPosition
  <2>3. EmptyHasNoFills(positions[a]) /\ Net(positions[a]) = 0
    BY <2>2 DEF EmptyHasNoFills, Net, Signed
  <2> QED
    BY <2>1, <2>3, NoLegs DEF Accounted
<1> QED
  BY <1>1, <1>2, ProgressInvariant, PnlStepInv, PositionsStepInv, PTL DEF Spec

(***************************************************************************)
(* The position of an account is the sum of its stored fills, each counted  *)
(* once, in every history in which reduce-only orders trade against what    *)
(* is open: increases, partial closes and reversals add up, also when both  *)
(* legs of a trade are of the same account, when trades come again and when *)
(* several processes project them.                                          *)
(***************************************************************************)
THEOREM ProjectorPositionsAreNetOfFills ==
  Spec /\ []ReduceOnlyReduces => []PositionsAreNetOfFills
<1>1. PositionsInv => PositionsAreNetOfFills
  BY DEF PositionsInv, PositionsAreNetOfFills, Accounted, Net, NetOf
<1> QED
  BY <1>1, PositionsInvariant, PTL

(***************************************************************************)
(* Under the same hypothesis every stored fill stays linked to its          *)
(* account's open position or to a position that it closed, although a      *)
(* close deletes the position with its links.                               *)
(***************************************************************************)
THEOREM ProjectorFillsStayLinked == Spec /\ []ReduceOnlyReduces => []FillsStayLinked
<1>1. PositionsInv => FillsStayLinked
  BY DEF PositionsInv, FillsStayLinked, Accounted, Linked
<1> QED
  BY <1>1, PositionsInvariant, PTL

-----------------------------------------------------------------------------
(***************************************************************************)
(* Waiting.  The tasks of a process start and end together, and read what   *)
(* the behaviour started with.                                              *)
(***************************************************************************)
Together ==
  /\ topic \in History
  /\ \A i \in Instance : \/ \A p \in Partition : at[<<i, p>>] = 0
                         \/ \A p \in Partition : at[<<i, p>>] # 0

LEMMA TogetherInit == Init => Together
<1> SUFFICES ASSUME Init PROVE Together
  OBVIOUS
<1>1. \A i \in Instance, p \in Partition : at[<<i, p>>] = 1
  BY DEF Init, Task
<1> QED
  BY <1>1 DEF Init, Together

LEMMA TogetherStep == ProgressInv /\ Together /\ [Next]_vars => Together'
<1> SUFFICES ASSUME ProgressInv, Together, [Next]_vars PROVE Together'
  OBVIOUS
<1>1. ASSUME UNCHANGED <<topic, at>> PROVE Together'
  BY <1>1 DEF Together
<1>2. ASSUME NEW t \in Task, HasRecord(t), Advance(t) PROVE Together'
  <2>1. topic' = topic /\ at' = [at EXCEPT ![t] = @ + 1]
    BY <1>2 DEF Advance
  <2>2. at \in [Task -> Nat] /\ at[t] # 0
    BY <1>2, RecordTyped DEF ProgressInv, ProgressOK
  <2>3. ASSUME NEW u \in Task PROVE at'[u] = 0 <=> at[u] = 0
    BY <2>1, <2>2
  <2>4. \A i \in Instance, p \in Partition : <<i, p>> \in Task
    BY DEF Task
  <2> QED
    BY <2>1, <2>3, <2>4 DEF Together
<1>3. ASSUME NEW t \in Task, TaskStep(t) PROVE Together'
  <2>1. CASE Idle(t) \/ LogEvent(t) \/ WaitForContext(t)
    BY <1>1, <2>1 DEF Idle, LogEvent, WaitForContext, vars, progress
  <2>2. CASE ~(Idle(t) \/ LogEvent(t) \/ WaitForContext(t))
    <3>1. HasRecord(t) /\ Advance(t)
      BY <1>3, <2>2 DEF TaskStep, SaveContext, MarkAccepted, MarkRejected, SkipRecord,
           ProjectOpened, ProjectCancelled, ProjectTrade, ProjectDelta, ProjectOther,
           AtEvent, AtRecord
    <3> QED
      BY <1>2, <3>1
  <2> QED
    BY <2>1, <2>2
<1>4. ASSUME NEW i \in Instance, Stop(i) \/ Start(i) PROVE Together'
  <2>1. topic' = topic
    BY <1>4 DEF Stop, Start
  <2>2. \A j \in Instance, p \in Partition :
          <<j, p>> \in Task /\ <<j, p>>[1] = j /\ <<j, p>>[2] = p
    BY DEF Task
  <2>3. ASSUME NEW j \in Instance, j # i, NEW p \in Partition PROVE at'[<<j, p>>] = at[<<j, p>>]
    BY <1>4, <2>2, <2>3 DEF Stop, Start
  <2>4. \/ \A p \in Partition : at'[<<i, p>>] = 0
        \/ \A p \in Partition : at'[<<i, p>>] # 0
    <3>1. CASE Stop(i)
      BY <2>2, <3>1 DEF Stop
    <3>2. CASE Start(i)
      <4>1. \A p \in Partition : at'[<<i, p>>] = offsets[p]
        BY <2>2, <3>2 DEF Start
      <4> QED
        BY <4>1 DEF ProgressInv, ProgressOK
    <3> QED
      BY <1>4, <3>1, <3>2
  <2> QED
    BY <2>1, <2>3, <2>4 DEF Together
<1>5. CASE UNCHANGED vars
  BY <1>1, <1>5 DEF vars, progress
<1> QED
  BY <1>3, <1>4, <1>5 DEF Next

\* Where a process is in the topics.
Cut(i) == [p \in Partition |-> at[<<i, p>>]]

\* What is further up has been projected, by whatever process.
LEMMA FurtherUpIsProjected ==
  ASSUME ProgressInv, NEW i \in Instance, NEW o \in Order, NEW types,
         FurtherUp(topic, Cut(i), o, types)
  PROVE  /\ types = Placed => HasContext(o)
         /\ types = {"Accepted", "OrderOpened"} => contexts[o].known \/ HasOrder(o)
<1>1. PICK p \in Partition : \E n \in 1 .. at[<<i, p>>] - 1 :
        topic[p][n].type \in types /\ topic[p][n].order = o
  BY DEF FurtherUp, Cut
<1>0. PICK n \in 1 .. at[<<i, p>>] - 1 : topic[p][n].type \in types /\ topic[p][n].order = o
  BY <1>1
<1>2. PICK t \in Task : t = <<i, p>> /\ t[2] = p
  BY DEF Task
<1>3. at[t] \in Nat /\ offsets[p] \in Nat /\ at[t] <= offsets[p]
  BY <1>2 DEF ProgressInv, ProgressOK, TasksBehindOffsets
<1>4. n \in 1 .. offsets[p] - 1
  BY <1>2, <1>3
<1>5. Projected(topic[p][n])
  BY <1>4 DEF ProgressInv, NothingUnprojected
<1> QED
  BY <1>0, <1>5 DEF Projected, Placed

LEMMA ExplainedIsFound ==
  ASSUME ProgressInv, NEW i \in Instance, NEW t \in Task, t[1] = i, HasRecord(t),
         Explained(topic, Cut(i), RecordAt(t))
  PROVE  ~ContextMissing(t)
<1>1. PICK e \in Record : e = RecordAt(t)
  BY RecordTyped DEF ProgressInv
<1>2. ASSUME e.type \in {"Accepted", "Rejected", "OrderOpened", "OrderCancelled"}
      PROVE  HasContext(e.order)
  <2>1. e.order \in Order
    BY <1>2, RecordFields
  <2>2. FurtherUp(topic, Cut(i), e.order, Placed)
    BY <1>1, <1>2 DEF Explained
  <2> QED
    BY <2>1, <2>2, FurtherUpIsProjected
<1>3. ASSUME e.type = "TradeExecuted", NEW r \in Role PROVE LegContext(e, r).found
  <2>1. CASE IsSynthetic(e)
    BY <2>1 DEF LegContext
  <2>2. CASE ~IsSynthetic(e)
    <3>1. PICK o \in Order : o = e.order[r]
      BY <1>3, RecordFields
    <3>2. CASE e.reservation[r]
      <4>1. FurtherUp(topic, Cut(i), o, Placed)
        BY <1>1, <1>3, <2>2, <3>1, <3>2 DEF Explained
      <4>2. HasContext(o)
        BY <4>1, FurtherUpIsProjected
      <4> QED
        BY <2>2, <3>1, <3>2, <4>2 DEF LegContext, Lookup, ContextOf
    <3>3. CASE ~e.reservation[r]
      <4>1. FurtherUp(topic, Cut(i), o, {"Accepted", "OrderOpened"})
        BY <1>1, <1>3, <2>2, <3>1, <3>3 DEF Explained
      <4>2. contexts[o].known \/ HasOrder(o)
        BY <4>1, FurtherUpIsProjected
      <4>3. contexts[o].known => HasContext(o)
        BY DEF ProgressInv, KnownAreStored
      <4> QED
        BY <2>2, <3>1, <4>2, <4>3 DEF LegContext, Lookup, ContextOf
    <3> QED
      BY <3>2, <3>3
  <2> QED
    BY <2>1, <2>2
<1>4. HasContext(e.order) => Lookup(e.order, TRUE).found
  BY DEF Lookup, ContextOf
<1> QED
  BY <1>1, <1>2, <1>3, <1>4 DEF ContextMissing, AtRecord

LEMMA SomeTaskGoesOn == ProgressInv /\ Together => TasksNeverAllWait
<1> SUFFICES ASSUME ProgressInv, Together, NEW i \in Instance, NEW q \in Partition, HasRecord(<<i, q>>)
             PROVE  \E p \in Partition : HasRecord(<<i, p>>) /\ ~ContextMissing(<<i, p>>)
  BY DEF TasksNeverAllWait
<1>1. \A p \in Partition : <<i, p>> \in Task /\ <<i, p>>[1] = i /\ <<i, p>>[2] = p
  BY DEF Task
<1>2. ASSUME NEW p \in Partition
      PROVE  /\ topic[p] \in Seq(Record) /\ Len(topic[p]) \in Nat
             /\ at[<<i, p>>] \in 1 .. Len(topic[p]) + 1
  <2>1. at[<<i, q>>] # 0
    BY <1>1, RecordTyped DEF ProgressInv
  <2>2. PICK t \in Task : t = <<i, p>> /\ t[2] = p
    BY <1>1
  <2>3. at[t] \in Nat /\ at[t] # 0
    BY <2>1, <2>2 DEF ProgressInv, ProgressOK, Together
  <2>4. topic[p] \in Seq(Record) /\ offsets[p] \in Nat /\ offsets[p] <= Len(topic[p]) + 1
    BY DEF ProgressInv, ProgressOK
  <2>5. at[t] <= offsets[p]
    BY <2>2 DEF ProgressInv, TasksBehindOffsets
  <2>6. Len(topic[p]) \in Nat
    BY <2>4
  <2> QED
    BY <2>2, <2>3, <2>4, <2>5, <2>6
<1>3. PICK cut : cut = Cut(i)
  OBVIOUS
<1>4. \A p \in Partition : cut[p] = at[<<i, p>>]
  BY <1>3 DEF Cut
<1>5. cut \in [Partition -> UNION {1 .. Len(topic[p]) + 1 : p \in Partition}]
  BY <1>2, <1>3 DEF Cut
<1>6. ASSUME NEW p \in Partition PROVE cut[p] <= Len(topic[p]) + 1
  <2>1. PICK n \in Nat : n = Len(topic[p]) /\ at[<<i, p>>] \in 1 .. n + 1
    BY <1>2
  <2> QED
    BY <1>4, <2>1
<1>7. cut[q] \in DOMAIN topic[q]
  BY <1>1, <1>4 DEF HasRecord
<1>8. Caused(topic)
  BY RecordsAreCaused DEF Together
<1>9. PICK p \in Partition : cut[p] \in DOMAIN topic[p] /\ Explained(topic, cut, topic[p][cut[p]])
  BY <1>5, <1>6, <1>7, <1>8 DEF Caused
<1>10. PICK t \in Task : t = <<i, p>> /\ t[1] = i /\ t[2] = p
  BY <1>1
<1>11. HasRecord(t) /\ Explained(topic, Cut(i), RecordAt(t))
  BY <1>3, <1>4, <1>9, <1>10 DEF HasRecord, RecordAt
<1>12. ~ContextMissing(t)
  BY <1>10, <1>11, ExplainedIsFound
<1> QED
  BY <1>10, <1>11, <1>12

(***************************************************************************)
(* The tasks of a process never all wait for contexts, in whatever order    *)
(* its partitions are read, if the engine answers only what it was sent:    *)
(* what a process has read, or another one has stored for it, is enough for *)
(* the next record of one of its partitions, also after a restart and when  *)
(* one process lags behind another.                                         *)
(***************************************************************************)
THEOREM ProjectorTasksNeverAllWait == Spec => []TasksNeverAllWait
<1> QED
  BY ProgressInvariant, TogetherInit, TogetherStep, SomeTaskGoesOn, PTL DEF Spec
=============================================================================
