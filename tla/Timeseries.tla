------------------------------ MODULE Timeseries ------------------------------
(***************************************************************************)
(* The timeseries service: one consumer task per partition of engine.events *)
(* (run_engine_event_partition in apps/timeseries/src/redpanda.rs) and the  *)
(* transaction record_trade of apps/timeseries/src/repository.rs, which     *)
(* writes the trade, one candle per interval and the consumed offset.       *)
(*                                                                          *)
(* A record of the topic is a trade or OtherEvent, which stands for every   *)
(* other engine event and for a record that is none.  The engine may        *)
(* publish a trade again and out of order; (market, seq) identifies it.     *)
(***************************************************************************)
EXTENDS Integers, Sequences

CONSTANTS
  Market, Trade, OtherEvent, Interval, Partition, PartitionOf, Instance,
  MaxRecords,  \* bound: records of a partition
  MaxStops     \* bound: ends of a timeseries process

ASSUME TradeAssumption ==
  /\ Trade \subseteq [market: Market, seq: Nat, time: Nat, price: Nat, quantity: Nat \ {0}]
  /\ \A t, u \in Trade : t.market = u.market /\ t.seq = u.seq => t = u
  /\ OtherEvent \notin Trade
  /\ Interval \subseteq Nat \ {0}
  /\ PartitionOf \in [Market -> Partition]
  /\ MaxRecords \in Nat /\ MaxStops \in Nat

VARIABLES
  topic,     \* partition of engine.events -> its records
  trades,    \* timeseries_trades
  candles,   \* candles: market, interval and bucket -> row or NoCandle
  offsets,   \* timeseries_offsets
  at,        \* <<instance, partition>> -> the offset the task is at, 0 when down
  stops

vars == <<topic, trades, candles, offsets, at, stops>>

Task == Instance \X Partition

BucketStart(time, interval) == time - (time % interval)

Key(t, i) == [market |-> t.market, interval |-> i, start |-> BucketStart(t.time, i)]

\* The rows that the trades of this model can touch.
Keys == {Key(t, i) : t \in Trade, i \in Interval}

Candle ==
  [open: Nat, high: Nat, low: Nat, close: Nat, volume: Nat, count: Nat, first: Nat, last: Nat]

\* No row: no trade was counted.
NoCandle ==
  [open |-> 0, high |-> 0, low |-> 0, close |-> 0, volume |-> 0, count |-> 0,
   first |-> 0, last |-> 0]

Init ==
  /\ topic = [p \in Partition |-> <<>>]
  /\ trades = {}
  /\ candles = [k \in Keys |-> NoCandle]
  /\ offsets = [p \in Partition |-> 1]
  /\ at = [t \in Task |-> 1]
  /\ stops = 0

HasRecord(t) == at[t] \in DOMAIN topic[t[2]]
Record(t) == topic[t[2]][at[t]]

Greatest(x, y) == IF x > y THEN x ELSE y
Least(x, y) == IF x < y THEN x ELSE y

\* upsert_candle_in_tx.
NewCandle(t) ==
  [open |-> t.price, high |-> t.price, low |-> t.price, close |-> t.price,
   volume |-> t.quantity, count |-> 1, first |-> t.seq, last |-> t.seq]

\* Mutant: the last trade to arrive closes the candle.
MergeCandleMutant(c, t) ==
  [open |-> IF t.seq < c.first THEN t.price ELSE c.open,
   high |-> Greatest(c.high, t.price), low |-> Least(c.low, t.price), close |-> t.price,
   volume |-> c.volume + t.quantity, count |-> c.count + 1,
   first |-> Least(c.first, t.seq), last |-> Greatest(c.last, t.seq)]

MergeCandle(c, t) ==
  [open |-> IF t.seq < c.first THEN t.price ELSE c.open,
   high |-> Greatest(c.high, t.price),
   low |-> Least(c.low, t.price),
   close |-> IF t.seq > c.last THEN t.price ELSE c.close,
   volume |-> c.volume + t.quantity,
   count |-> c.count + 1,
   first |-> Least(c.first, t.seq),
   last |-> Greatest(c.last, t.seq)]

UpsertCandle(c, t) == IF c.count = 0 THEN NewCandle(t) ELSE MergeCandle(c, t)

\* Mutant: every delivery of a trade counts.
RecordedMutant(t) == FALSE

\* The conflict of INSERT ... ON CONFLICT(market_id, engine_sequence) DO NOTHING.
Recorded(t) == \E u \in trades : u.market = t.market /\ u.seq = t.seq

SaveQueueOffset(p, n) ==
  offsets' = [offsets EXCEPT ![p] = IF @ < n THEN n ELSE @]

Advance(t) ==
  /\ SaveQueueOffset(t[2], at[t] + 1)
  /\ at' = [at EXCEPT ![t] = @ + 1]
  /\ UNCHANGED <<topic, stops>>

\* record_trade: a trade that is stored already only advances the offset.
RecordTrade(t) ==
  /\ HasRecord(t) /\ Record(t) # OtherEvent
  /\ LET trade == Record(t)
         touched == {Key(trade, i) : i \in Interval}
     IN IF Recorded(trade)
          THEN UNCHANGED <<trades, candles>>
          ELSE /\ trades' = trades \cup {trade}
               /\ candles' = [k \in Keys |->
                    IF k \in touched THEN UpsertCandle(candles[k], trade) ELSE candles[k]]
  /\ Advance(t)

SkipRecord(t) ==
  /\ HasRecord(t) /\ Record(t) = OtherEvent
  /\ Advance(t)
  /\ UNCHANGED <<trades, candles>>

\* fetch_records returns nothing: sleep and ask again.
Idle(t) ==
  /\ at[t] # 0 /\ ~HasRecord(t)
  /\ UNCHANGED vars

\* A process ends with all its tasks and starts again at the stored offsets.
Stop(i) ==
  /\ \A p \in Partition : at[<<i, p>>] # 0
  /\ stops < MaxStops
  /\ stops' = stops + 1
  /\ at' = [t \in Task |-> IF t[1] = i THEN 0 ELSE at[t]]
  /\ UNCHANGED <<topic, trades, candles, offsets>>

Start(i) ==
  /\ \A p \in Partition : at[<<i, p>>] = 0
  /\ at' = [t \in Task |-> IF t[1] = i THEN offsets[t[2]] ELSE at[t]]
  /\ UNCHANGED <<topic, trades, candles, offsets, stops>>

\* The engine publishes a record.
Publish(p, record) ==
  /\ Len(topic[p]) < MaxRecords
  /\ record # OtherEvent => PartitionOf[record.market] = p
  /\ topic' = [topic EXCEPT ![p] = Append(@, record)]
  /\ UNCHANGED <<trades, candles, offsets, at, stops>>

Next ==
  \/ \E t \in Task : RecordTrade(t) \/ SkipRecord(t) \/ Idle(t)
  \/ \E i \in Instance : Stop(i) \/ Start(i)
  \/ \E p \in Partition : \E record \in Trade \cup {OtherEvent} : Publish(p, record)

Spec == Init /\ [][Next]_vars
=============================================================================
