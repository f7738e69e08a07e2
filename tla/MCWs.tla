--------------------------------- MODULE MCWs ---------------------------------
(***************************************************************************)
(* A small instance of the WebSocket gateway and of a client that follows   *)
(* an order book for TLC.                                                   *)
(***************************************************************************)
EXTENDS BookFeed, TLC

CONSTANTS s1, s2, m1, e1, e2, engine, wallet

Users == s1 :> 1 @@ s2 :> 2

bid(p, q) == << [side |-> "BID", price |-> p], q>>
ask(p, q) == << [side |-> "ASK", price |-> p], q>>
delta(n, levels) == [type |-> "OrderBookDelta", id |-> n, levels |-> levels]
other == [type |-> "Other"]

\* A bid and an ask; a better bid, and the end of the ask.
First == delta(1, {bid(1, 1), ask(2, 2)})
Second == delta(2, {bid(2, 1), ask(2, 0)})
Payloads == {First, Second, other}

event(us, m, what) == [source |-> "engine", users |-> us, market |-> m, payload |-> what]
walletEvent(u, id) == [source |-> "wallet", user |-> u, id |-> id]

\* A trade of both users, an event of the market and a record of no meaning;
\* four wallet events of a user, the second a copy and the last without an id;
\* the deltas, of which the first is published again.
Trades ==
  engine :> <<event({1, 2}, m1, other), event({}, m1, other)>> @@
  wallet :> <<[source |-> "invalid"]>>
Copies ==
  engine :> <<>> @@
  wallet :> <<walletEvent(1, e1), walletEvent(1, e1), walletEvent(1, e2), walletEvent(1, NoId)>>
Deltas ==
  engine :> <<event({}, m1, First), event({}, m1, Second), event({}, m1, First)>> @@
  wallet :> <<>>
Histories == {Trades, Copies, Deltas}
=============================================================================
