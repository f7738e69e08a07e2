----------------------------- MODULE MCProjector -----------------------------
(***************************************************************************)
(* Small histories of engine and wallet for TLC.                            *)
(***************************************************************************)
EXTENDS ProjectorProperties, TLC

CONSTANTS u1, u2, u3, m1, oa, ob, oc, od, ol, ox, inputs, replies, events, i1, i2

info(user, side, quantity, margin) ==
  [user |-> user, market |-> m1, side |-> side, quantity |-> quantity, margin |-> margin,
   reduceOnly |-> FALSE, liquidation |-> FALSE]

\* oa and ob trade 2; oc and od reverse the positions of their users; ol
\* liquidates u1's position, ox is the order that auto-deleveraging makes up for u2.
Infos ==
  oa :> info(u1, "LONG", 2, 5) @@ ob :> info(u2, "SHORT", 2, 4) @@
  oc :> info(u1, "SHORT", 3, 6) @@ od :> info(u3, "LONG", 3, 6) @@
  ol :> [info(u1, "LONG", 2, 0) EXCEPT !.liquidation = TRUE] @@
  ox :> [info(u2, "LONG", 1, 0) EXCEPT !.reduceOnly = TRUE]

place(o) == [type |-> "PlaceOrder", order |-> o]
accepted(o) == [type |-> "Accepted", order |-> o]
rejected(o) == [type |-> "Rejected", order |-> o]
opened(n, o) == [type |-> "OrderOpened", order |-> o, id |-> n]
cancelled(n, o) == [type |-> "OrderCancelled", order |-> o, id |-> n]
trade(n, maker, taker, price, quantity) ==
  [type |-> "TradeExecuted", id |-> n, market |-> m1, price |-> price,
   quantity |-> quantity, order |-> [maker |-> maker, taker |-> taker],
   reservation |-> [maker |-> FALSE, taker |-> TRUE], reason |-> "TRADE",
   liquidation |-> FALSE, liquidated |-> NoUser, positionSide |-> "NONE"]
liquidates(n, maker, taker, price, quantity) ==
  [trade(n, maker, taker, price, quantity) EXCEPT
     !.reason = "LIQUIDATION", !.liquidation = TRUE, !.liquidated = u1,
     !.positionSide = "LONG"]
bid(price, quantity) == << [side |-> "BID", price |-> price], quantity>>
delta(n, levels) ==
  [type |-> "OrderBookDelta", id |-> n, market |-> m1, levels |-> levels]
other(n) == [type |-> "OtherEvent", id |-> n]
skipped == [type |-> "Other"]

topics(in, out, ev) == inputs :> in @@ replies :> out @@ events :> ev

\* Two partial fills, the first of them published again after both.
Partial ==
  topics(<<place(oa), place(ob)>>, <<accepted(oa), accepted(ob)>>,
         <<opened(1, oa), trade(2, oa, ob, 5, 1), trade(3, oa, ob, 8, 1),
           opened(1, oa), trade(2, oa, ob, 5, 1)>>)

\* A fill beyond what is open reverses a position.
Reversal ==
  topics(<<place(oa), place(ob), place(oc), place(od)>>, <<skipped>>,
         <<opened(1, oa), trade(2, oa, ob, 5, 2), opened(3, od), trade(4, od, oc, 7, 3)>>)

\* A cancel after a partial fill, the fill published again, and a rejection.
Cancel ==
  topics(<<place(oa), skipped, place(ob), place(oc)>>,
         <<accepted(oa), accepted(ob), rejected(oc)>>,
         <<opened(1, oa), trade(2, oa, ob, 5, 1), cancelled(3, oa), trade(2, oa, ob, 5, 1),
           other(4)>>)

\* u1 is liquidated against od and, for the rest, against u2's position.
Liquidation ==
  topics(<<place(oa), place(ob), place(od), [type |-> "LiquidatePosition", order |-> ol]>>,
         <<accepted(ol)>>,
         <<opened(1, oa), trade(2, oa, ob, 5, 2), opened(3, od), liquidates(4, od, ol, 3, 1),
           liquidates(5, ox, ol, 3, 1)>>)

\* A level that is set, deleted and, by a repeated delta, set again.
Book ==
  topics(<<skipped>>, <<>>,
         <<delta(1, {bid(3, 2), bid(5, 1)}), delta(2, {bid(5, 4)}), delta(3, {bid(3, 0)}),
           delta(1, {bid(3, 2), bid(5, 1)}), skipped>>)

Histories == {Partial, Reversal, Cancel, Liquidation, Book}
=============================================================================
