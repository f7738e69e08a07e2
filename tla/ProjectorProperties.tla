------------------------- MODULE ProjectorProperties -------------------------
(***************************************************************************)
(* What the projector promises about its read models, in whatever order its *)
(* tasks go on, with events published again, processes that end and start   *)
(* again, and several processes on the same partitions.                     *)
(***************************************************************************)
EXTENDS Projector

Trades(p) == {n \in DOMAIN topic[p] : topic[p][n].type = "TradeExecuted"}

\* The order's context is not made up: a trade of a liquidation that the order
\* takes part in comes after the order's OrderOpened, which waits for it.
ContextCertain(o) ==
  \A p \in Partition : \A n \in Trades(p) :
    (\E r \in Role : topic[p][n].order[r] = o) /\ IsSynthetic(topic[p][n]) =>
      \E k \in 1 .. n - 1 : topic[p][k].type = "OrderOpened" /\ topic[p][k].order = o

(***************************************************************************)
(* Filled and cancelled are final, in the order's row and in its context:   *)
(* no late reply, no event that comes again and no lagging process takes    *)
(* them back.                                                               *)
(***************************************************************************)
FinalStatusStays ==
  [][\A o \in Order : ContextCertain(o) =>
       /\ orders[o].status \in {"FILLED", "CANCELLED"} => orders'[o].status = orders[o].status
       /\ contexts[o].status \in {"FILLED", "CANCELLED"} =>
            contexts'[o].status = contexts[o].status]_vars

(***************************************************************************)
(* Unless it was cancelled, an order is FILLED exactly when its stored      *)
(* fills reach its quantity, and its context says the same.                 *)
(***************************************************************************)
FilledMatchesFills ==
  \A o \in Order :
    ContextCertain(o) /\ orders[o].status \notin {"NONE", "CANCELLED"} =>
      /\ orders[o].status = "FILLED" <=> Filled(o, fills) >= InfoOf[o].quantity
      /\ orders[o].status = "FILLED" <=> contexts[o].status = "FILLED"

(***************************************************************************)
(* The legs of the stored fills of an account.                              *)
(***************************************************************************)
Legs(a) ==
  {x \in fills \X Role : x[1].market = a[2] /\ InfoOf[x[1].order[x[2]]].user = a[1]}

Signed(side, quantity) == IF side = "LONG" THEN quantity ELSE -quantity
SignedLeg(x) == Signed(x[1].side[x[2]], x[1].quantity)

\* A fill of the account may be projected with a made-up reduce-only context
\* although the order is neither a liquidation nor reduce-only.
MayBeMadeUp(a) ==
  \E o \in Order :
    /\ InfoOf[o].user = a[1] /\ ~ContextCertain(o)
    /\ ~InfoOf[o].liquidation /\ ~InfoOf[o].reduceOnly

(***************************************************************************)
(* The position of an account is the sum of its fills, each counted once,   *)
(* through increases, partial closes, reversals, liquidations and           *)
(* auto-deleveraging, whichever of their contexts the code makes up.        *)
(***************************************************************************)
PositionsAreNetOfFills ==
  \A a \in Account : ~MayBeMadeUp(a) =>
    Signed(positions[a].side, positions[a].quantity) = MapThenSumSet(SignedLeg, Legs(a))

(***************************************************************************)
(* No fill is lost to its account when a position is closed and deleted:    *)
(* every fill is linked to its open position or to one that it closed.      *)
(***************************************************************************)
FillsStayLinked ==
  \A a \in Account : ~MayBeMadeUp(a) =>
    \A x \in Legs(a) :
      \/ x[1].id \in positions[a].fills
      \/ \E row \in closed : row.account = a /\ x[1].id \in row.fills

(***************************************************************************)
(* Every open position is marked at its market's last traded price, also    *)
(* the positions of users that did not take part in the last trade.         *)
(***************************************************************************)
PnlAtLastPrice ==
  \A a \in Account :
    LET p == positions[a]
    IN p.quantity > 0 => p.pnl = Pnl(p.side, p.average, lastPrice[a[2]], p.quantity)

\* How the engine publishes the deltas of a market: to one partition, numbered
\* from 1, and each for the first time in the order of their numbers.  A delta
\* may come again at any time.
InSequence(topics) ==
  \A p, q \in Partition : \A n \in DOMAIN topics[p] : \A k \in DOMAIN topics[q] :
    LET e == topics[p][n]
        f == topics[q][k]
    IN /\ e.type = "OrderBookDelta" /\ f.type = "OrderBookDelta"
       /\ e.market = f.market
       => /\ p = q /\ e.id > 0
          /\ e.id = f.id => e = f
          /\ n < k /\ f.id < e.id => \E j \in 1 .. n - 1 : topics[p][j] = f

ASSUME DeltasInSequence == \A topics \in History : InSequence(topics)

(***************************************************************************)
(* The stored order book is what its deltas up to the stored sequence make: *)
(* a level has the quantity of the last delta that names it.                *)
(***************************************************************************)
Deltas(m, l) ==
  {e \in UNION {{topic[p][n] : n \in DOMAIN topic[p]} : p \in Partition} :
     /\ e.type = "OrderBookDelta" /\ e.market = m /\ e.id <= bookSeq[m]
     /\ \E x \in e.levels : x[1] = l}

BookMatchesDeltas ==
  \A m \in Market : \A l \in Level :
    IF Deltas(m, l) = {} THEN book[m][l] = NoLevel
    ELSE LET last == CHOOSE e \in Deltas(m, l) : \A f \in Deltas(m, l) : f.id <= e.id
         IN <<l, book[m][l].quantity>> \in last.levels

(***************************************************************************)
(* Nothing below a stored offset was skipped, although events overtake the  *)
(* contexts they need: contexts, fills, book events and log rows are there. *)
(***************************************************************************)
Projected(e) ==
  /\ e.type \in EventType => EventLogId(e) \in eventLog
  /\ e.type \in {"PlaceOrder", "LiquidatePosition"} => HasContext(e.order)
  /\ e.type = "Accepted" => contexts[e.order].known
  /\ e.type \in {"OrderOpened", "OrderCancelled"} => HasOrder(e.order)
  /\ e.type = "TradeExecuted" => \E f \in fills : f.id = e.id
  /\ e.type = "OrderBookDelta" => <<e.market, e.id>> \in bookEvents

NothingUnprojected ==
  \A p \in Partition : \A n \in 1 .. (offsets[p] - 1) : Projected(topic[p][n])

\* The engine answers what it was sent: however far the partitions have been read,
\* the next record of one of them is about orders that were placed and, where it
\* names them by their order id only, accepted or opened further up.
FurtherUp(topics, cut, o, types) ==
  \E p \in Partition : \E n \in 1 .. cut[p] - 1 :
    topics[p][n].type \in types /\ topics[p][n].order = o

Placed == {"PlaceOrder", "LiquidatePosition"}

Explained(topics, cut, e) ==
  /\ e.type \in {"Accepted", "Rejected", "OrderOpened", "OrderCancelled"} =>
       FurtherUp(topics, cut, e.order, Placed)
  /\ e.type = "TradeExecuted" /\ ~IsSynthetic(e) =>
       \A r \in Role :
         FurtherUp(topics, cut, e.order[r],
                   IF e.reservation[r] THEN Placed ELSE {"Accepted", "OrderOpened"})

Caused(topics) ==
  \A cut \in [Partition -> UNION {1 .. Len(topics[p]) + 1 : p \in Partition}] :
    /\ \A p \in Partition : cut[p] <= Len(topics[p]) + 1
    /\ \E p \in Partition : cut[p] \in DOMAIN topics[p]
    => \E p \in Partition :
         cut[p] \in DOMAIN topics[p] /\ Explained(topics, cut, topics[p][cut[p]])

ASSUME RecordsAreCaused == \A topics \in History : Caused(topics)

(***************************************************************************)
(* The tasks of a process never all wait: as long as it has records to read *)
(* one of its tasks finds every context its record needs, so that the       *)
(* others' contexts come in the end.                                        *)
(***************************************************************************)
TasksNeverAllWait ==
  \A i \in Instance :
    (\E p \in Partition : HasRecord(<<i, p>>)) =>
      \E p \in Partition : HasRecord(<<i, p>>) /\ ~ContextMissing(<<i, p>>)
=============================================================================
