---------------------------- MODULE MCTimeseries ----------------------------
(***************************************************************************)
(* A small instance of the timeseries service for TLC.                      *)
(***************************************************************************)
EXTENDS TimeseriesProperties, TLC

CONSTANTS m1, m2, p1, p2, i1, i2

trade(m, s, time, price, quantity) ==
  [market |-> m, seq |-> s, time |-> time, price |-> price, quantity |-> quantity]

\* Three trades of one market, the last at the last moment of its short bucket
\* and of the long one, and a trade of another market in the same buckets.
Trades ==
  {trade(m1, 1, 2, 5, 1), trade(m1, 2, 2, 7, 2), trade(m1, 3, 3, 4, 1),
   trade(m2, 1, 2, 9, 3)}

Markets == m1 :> p1 @@ m2 :> p2
=============================================================================
