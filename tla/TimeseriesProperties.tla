------------------------ MODULE TimeseriesProperties ------------------------
(***************************************************************************)
(* What the timeseries service promises about its candles.                  *)
(***************************************************************************)
EXTENDS Timeseries, FiniteSetsExt

\* The stored trades that belong in a candle.
TradesOf(k) ==
  {t \in trades : t.market = k.market /\ BucketStart(t.time, k.interval) = k.start}

(***************************************************************************)
(* open, high, low and close of a candle are those of the stored trades of  *)
(* its bucket in engine sequence order, in whatever order and however often *)
(* the trades were delivered, over crashes, replays and several instances.  *)
(***************************************************************************)
Ohlc(c, T) ==
  /\ \E t \in T : t.seq = c.first /\ t.price = c.open
  /\ \E t \in T : t.seq = c.last /\ t.price = c.close
  /\ \E t \in T : t.price = c.high
  /\ \E t \in T : t.price = c.low
  /\ \A t \in T : c.first <= t.seq /\ t.seq <= c.last
  /\ \A t \in T : c.low <= t.price /\ t.price <= c.high

CandlesMatchTrades ==
  \A k \in Keys :
    IF TradesOf(k) = {} THEN candles[k] = NoCandle
    ELSE candles[k].count > 0 /\ Ohlc(candles[k], TradesOf(k))

(***************************************************************************)
(* volume and trade_count add up to the stored trades of the bucket.        *)
(***************************************************************************)
QuantityOf(t) == t.quantity

VolumesAddUp ==
  \A k \in Keys :
    /\ candles[k].volume = MapThenSumSet(QuantityOf, TradesOf(k))
    /\ candles[k].count = Cardinality(TradesOf(k))

(***************************************************************************)
(* Nothing is lost: the trades below a stored offset are stored.            *)
(***************************************************************************)
TradesKept ==
  \A p \in Partition : \A n \in 1 .. (offsets[p] - 1) :
    /\ n \in DOMAIN topic[p]
    /\ topic[p][n] = OtherEvent \/ topic[p][n] \in trades
=============================================================================
