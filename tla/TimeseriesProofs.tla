--------------------------- MODULE TimeseriesProofs ---------------------------
(***************************************************************************)
(* Candles are those of the stored trades, their volumes and counts add up, *)
(* and no trade is lost, for any number of trades, markets, intervals,      *)
(* partitions and instances.                                                *)
(***************************************************************************)
EXTENDS TimeseriesProperties, SumTheorems

Event == Trade \cup {OtherEvent}

(***************************************************************************)
(* Types, with the domains of the functions.                                *)
(***************************************************************************)
Types ==
  /\ topic \in [Partition -> Seq(Event)]
  /\ trades \subseteq Trade
  /\ candles \in [Keys -> Candle]
  /\ offsets \in [Partition -> Nat \ {0}]
  /\ at \in [Task -> Nat]
  /\ stops \in Nat

(***************************************************************************)
(* No task is ahead of the stored offset of its partition.                  *)
(***************************************************************************)
TasksBehindOffsets == \A t \in Task : at[t] <= offsets[t[2]]

TimeseriesInv == Types /\ TasksBehindOffsets /\ TradesKept /\ CandlesMatchTrades

-----------------------------------------------------------------------------
\* A trade that starts a candle.
LEMMA NewCandleMatches ==
  ASSUME NEW t \in Trade
  PROVE  NewCandle(t) \in Candle /\ NewCandle(t).count > 0 /\ Ohlc(NewCandle(t), {t})
<1>1. t.seq \in Nat /\ t.price \in Nat /\ t.quantity \in Nat
  BY TradeAssumption
<1> QED
  BY <1>1 DEF NewCandle, Candle, Ohlc

\* A trade that joins a candle, whether it is earlier or later than the others.
LEMMA MergeCandleMatches ==
  ASSUME NEW candle \in Candle, NEW T \in SUBSET Trade, NEW t \in Trade, Ohlc(candle, T)
  PROVE  /\ MergeCandle(candle, t) \in Candle /\ MergeCandle(candle, t).count > 0
         /\ Ohlc(MergeCandle(candle, t), T \cup {t})
<1> DEFINE merged == MergeCandle(candle, t)
<1>1. \A u \in T \cup {t} : u.seq \in Nat /\ u.price \in Nat /\ u.quantity \in Nat
  BY TradeAssumption
<1>2. /\ candle.open \in Nat /\ candle.high \in Nat /\ candle.low \in Nat
      /\ candle.close \in Nat /\ candle.volume \in Nat /\ candle.count \in Nat
      /\ candle.first \in Nat /\ candle.last \in Nat
  BY DEF Candle
<1>3. /\ merged.open = IF t.seq < candle.first THEN t.price ELSE candle.open
      /\ merged.high = IF candle.high > t.price THEN candle.high ELSE t.price
      /\ merged.low = IF candle.low < t.price THEN candle.low ELSE t.price
      /\ merged.close = IF t.seq > candle.last THEN t.price ELSE candle.close
      /\ merged.first = IF candle.first < t.seq THEN candle.first ELSE t.seq
      /\ merged.last = IF candle.last > t.seq THEN candle.last ELSE t.seq
      /\ merged.count = candle.count + 1
  BY DEF MergeCandle, Greatest, Least
<1>4. merged \in Candle
  BY <1>1, <1>2 DEF MergeCandle, Candle, Greatest, Least
<1> HIDE DEF merged
<1>5. \E u \in T \cup {t} : u.seq = merged.first /\ u.price = merged.open
  <2>1. PICK u \in T : u.seq = candle.first /\ u.price = candle.open
    BY DEF Ohlc
  <2> QED
    BY <1>1, <1>2, <1>3, <2>1
<1>6. \E u \in T \cup {t} : u.seq = merged.last /\ u.price = merged.close
  <2>1. PICK u \in T : u.seq = candle.last /\ u.price = candle.close
    BY DEF Ohlc
  <2> QED
    BY <1>1, <1>2, <1>3, <2>1
<1>7. \E u \in T \cup {t} : u.price = merged.high
  BY <1>1, <1>2, <1>3 DEF Ohlc
<1>8. \E u \in T \cup {t} : u.price = merged.low
  BY <1>1, <1>2, <1>3 DEF Ohlc
<1>9. \A u \in T \cup {t} : merged.first <= u.seq /\ u.seq <= merged.last
  BY <1>1, <1>2, <1>3 DEF Ohlc
<1>10. \A u \in T \cup {t} : merged.low <= u.price /\ u.price <= merged.high
  BY <1>1, <1>2, <1>3 DEF Ohlc
<1>11. Ohlc(merged, T \cup {t})
  BY <1>5, <1>6, <1>7, <1>8, <1>9, <1>10 DEF Ohlc
<1> QED
  BY <1>2, <1>3, <1>4, <1>11 DEF merged

\* A key is touched by the trades that belong in its candle.
LEMMA TouchedKeys ==
  ASSUME NEW k \in Keys, NEW t \in Trade
  PROVE  k \in {Key(t, i) : i \in Interval} <=>
           t.market = k.market /\ BucketStart(t.time, k.interval) = k.start
<1>1. PICK u \in Trade, i \in Interval :
        k = [market |-> u.market, interval |-> i, start |-> BucketStart(u.time, i)]
  BY DEF Keys, Key
<1> QED
  BY <1>1 DEF Key

-----------------------------------------------------------------------------
\* What a task does to offsets when it goes on to the next record.
LEMMA AdvanceKeepsOrder ==
  ASSUME Types, TasksBehindOffsets, NEW t \in Task, HasRecord(t), Advance(t)
  PROVE  /\ t[2] \in Partition /\ at[t] \in DOMAIN topic[t[2]] /\ Record(t) \in Event
         /\ topic' = topic /\ stops' = stops
         /\ offsets' \in [Partition -> Nat \ {0}] /\ at' \in [Task -> Nat]
         /\ TasksBehindOffsets'
         /\ \A p \in Partition : \A n \in 1 .. (offsets'[p] - 1) :
              n \in 1 .. (offsets[p] - 1) \/ (p = t[2] /\ n = at[t])
<1>1. t[2] \in Partition
  BY DEF Task
<1>2. topic[t[2]] \in Seq(Event) /\ at[t] \in Nat /\ offsets[t[2]] \in Nat \ {0}
  BY <1>1 DEF Types
<1>3. at[t] \in DOMAIN topic[t[2]] /\ Record(t) \in Event
  BY <1>2 DEF HasRecord, Record
<1>4. /\ topic' = topic /\ stops' = stops
      /\ at' = [at EXCEPT ![t] = @ + 1]
      /\ offsets' = [offsets EXCEPT ![t[2]] = IF @ < at[t] + 1 THEN at[t] + 1 ELSE @]
  BY DEF Advance, SaveQueueOffset
<1>5. offsets' \in [Partition -> Nat \ {0}] /\ at' \in [Task -> Nat]
  BY <1>1, <1>2, <1>4 DEF Types
<1>6. TasksBehindOffsets'
  <2> SUFFICES ASSUME NEW u \in Task PROVE at'[u] <= offsets'[u[2]]
    BY DEF TasksBehindOffsets
  <2>1. /\ u[2] \in Partition /\ at[u] \in Nat /\ offsets[u[2]] \in Nat \ {0}
        /\ at[u] <= offsets[u[2]]
    BY DEF Task, Types, TasksBehindOffsets
  <2> QED
    BY <1>1, <1>2, <1>4, <2>1 DEF Types
<1>7. ASSUME NEW p \in Partition, NEW n \in 1 .. (offsets'[p] - 1)
      PROVE  n \in 1 .. (offsets[p] - 1) \/ (p = t[2] /\ n = at[t])
  <2>1. at[t] <= offsets[t[2]] /\ offsets[p] \in Nat \ {0}
    BY DEF TasksBehindOffsets, Types
  <2> QED
    BY <1>1, <1>2, <1>4, <2>1 DEF Types
<1> QED
  BY <1>1, <1>3, <1>4, <1>5, <1>6, <1>7

\* Trades below an offset stay stored when only the record at hand is passed.
LEMMA TradesStayKept ==
  ASSUME TimeseriesInv, NEW t \in Task, HasRecord(t), Advance(t),
         trades \subseteq trades', Record(t) = OtherEvent \/ Record(t) \in trades'
  PROVE  TradesKept'
<1>1. /\ topic' = topic /\ at[t] \in DOMAIN topic[t[2]]
      /\ \A p \in Partition : \A n \in 1 .. (offsets'[p] - 1) :
           n \in 1 .. (offsets[p] - 1) \/ (p = t[2] /\ n = at[t])
  BY AdvanceKeepsOrder DEF TimeseriesInv
<1> SUFFICES ASSUME NEW p \in Partition, NEW n \in 1 .. (offsets'[p] - 1)
             PROVE  /\ n \in DOMAIN topic[p]
                    /\ topic[p][n] = OtherEvent \/ topic[p][n] \in trades'
  BY <1>1 DEF TradesKept
<1>2. CASE n \in 1 .. (offsets[p] - 1)
  BY <1>2 DEF TimeseriesInv, TradesKept
<1>3. CASE p = t[2] /\ n = at[t]
  BY <1>1, <1>3 DEF Record
<1> QED
  BY <1>1, <1>2, <1>3

\* What record_trade does to the candles when the trade is new.
LEMMA CandlesStayMatched ==
  ASSUME TimeseriesInv, NEW trade \in Trade,
         trades' = trades \cup {trade},
         candles' = [k \in Keys |-> IF k \in {Key(trade, i) : i \in Interval}
                                    THEN UpsertCandle(candles[k], trade) ELSE candles[k]]
  PROVE  candles' \in [Keys -> Candle] /\ CandlesMatchTrades'
<1> SUFFICES ASSUME NEW k \in Keys
             PROVE  /\ candles'[k] \in Candle
                    /\ IF TradesOf(k)' = {} THEN candles'[k] = NoCandle
                       ELSE candles'[k].count > 0 /\ Ohlc(candles'[k], TradesOf(k)')
  BY DEF CandlesMatchTrades
<1>1. /\ candles[k] \in Candle /\ TradesOf(k) \in SUBSET Trade
      /\ IF TradesOf(k) = {} THEN candles[k] = NoCandle
         ELSE candles[k].count > 0 /\ Ohlc(candles[k], TradesOf(k))
  BY DEF TimeseriesInv, Types, CandlesMatchTrades, TradesOf
<1>2. CASE k \in {Key(trade, i) : i \in Interval}
  <2>1. TradesOf(k)' = TradesOf(k) \cup {trade}
    BY <1>2, TouchedKeys DEF TradesOf
  <2>2. candles'[k] = UpsertCandle(candles[k], trade)
    BY <1>2
  <2>3. CASE TradesOf(k) = {}
    <3>1. candles'[k] = NewCandle(trade)
      BY <1>1, <2>2, <2>3 DEF UpsertCandle, NoCandle
    <3>2. TradesOf(k)' = {trade}
      BY <2>1, <2>3
    <3> QED
      BY <3>1, <3>2, NewCandleMatches
  <2>4. CASE TradesOf(k) # {}
    <3>1. candles[k].count > 0 /\ candles[k].count \in Nat /\ Ohlc(candles[k], TradesOf(k))
      BY <1>1, <2>4 DEF Candle
    <3>2. candles'[k] = MergeCandle(candles[k], trade)
      BY <2>2, <3>1 DEF UpsertCandle
    <3>3. /\ candles'[k] \in Candle /\ candles'[k].count > 0
          /\ Ohlc(candles'[k], TradesOf(k) \cup {trade})
      BY <1>1, <3>1, <3>2, MergeCandleMatches
    <3> QED
      BY <2>1, <3>3
  <2> QED
    BY <2>3, <2>4
<1>3. CASE k \notin {Key(trade, i) : i \in Interval}
  <2>1. TradesOf(k)' = TradesOf(k)
    BY <1>3, TouchedKeys DEF TradesOf
  <2>2. candles'[k] = candles[k]
    BY <1>3
  <2> QED
    BY <1>1, <2>1, <2>2
<1> QED
  BY <1>2, <1>3

-----------------------------------------------------------------------------
\* In the beginning there is no trade.
LEMMA TimeseriesInitInv == Init => TimeseriesInv
<1> SUFFICES ASSUME Init PROVE TimeseriesInv
  OBVIOUS
<1>1. Types
  BY DEF Init, Types, NoCandle, Candle
<1>2. TasksBehindOffsets
  BY DEF Init, TasksBehindOffsets, Task
<1>3. TradesKept /\ CandlesMatchTrades
  BY DEF Init, TradesKept, CandlesMatchTrades, TradesOf
<1> QED
  BY <1>1, <1>2, <1>3 DEF TimeseriesInv

\* One step per action.
LEMMA TimeseriesStepInv == TimeseriesInv /\ [Next]_vars => TimeseriesInv'
<1> SUFFICES ASSUME TimeseriesInv, [Next]_vars PROVE TimeseriesInv'
  OBVIOUS
<1>1. ASSUME NEW t \in Task, RecordTrade(t) PROVE TimeseriesInv'
  <2>1. HasRecord(t) /\ Advance(t) /\ Record(t) # OtherEvent
    BY <1>1 DEF RecordTrade
  <2>2. /\ Record(t) \in Event /\ topic' = topic /\ stops' = stops
        /\ offsets' \in [Partition -> Nat \ {0}] /\ at' \in [Task -> Nat]
        /\ TasksBehindOffsets'
    BY <2>1, AdvanceKeepsOrder DEF TimeseriesInv
  <2>3. Record(t) \in Trade
    BY <2>1, <2>2 DEF Event
  <2>4. CASE Recorded(Record(t))
    <3>1. trades' = trades /\ candles' = candles
      BY <1>1, <2>4 DEF RecordTrade
    <3>2. Record(t) \in trades
      BY <2>3, <2>4, TradeAssumption DEF Recorded, TimeseriesInv, Types
    <3>3. TradesKept'
      BY <2>1, <3>1, <3>2, TradesStayKept
    <3>4. CandlesMatchTrades'
      BY <3>1 DEF TimeseriesInv, CandlesMatchTrades, TradesOf
    <3> QED
      BY <2>2, <3>1, <3>3, <3>4 DEF TimeseriesInv, Types
  <2>5. CASE ~Recorded(Record(t))
    <3>1. /\ trades' = trades \cup {Record(t)}
          /\ candles' = [k \in Keys |-> IF k \in {Key(Record(t), i) : i \in Interval}
                                        THEN UpsertCandle(candles[k], Record(t)) ELSE candles[k]]
      BY <1>1, <2>5 DEF RecordTrade
    <3>2. TradesKept'
      BY <2>1, <3>1, TradesStayKept
    <3>3. candles' \in [Keys -> Candle] /\ CandlesMatchTrades'
      BY <2>3, <3>1, CandlesStayMatched
    <3>4. trades' \subseteq Trade
      BY <2>3, <3>1 DEF TimeseriesInv, Types
    <3> QED
      BY <2>2, <3>2, <3>3, <3>4 DEF TimeseriesInv, Types
  <2> QED
    BY <2>4, <2>5
<1>2. ASSUME NEW t \in Task, SkipRecord(t) PROVE TimeseriesInv'
  <2>1. HasRecord(t) /\ Advance(t) /\ Record(t) = OtherEvent /\ UNCHANGED <<trades, candles>>
    BY <1>2 DEF SkipRecord
  <2>2. /\ topic' = topic /\ stops' = stops
        /\ offsets' \in [Partition -> Nat \ {0}] /\ at' \in [Task -> Nat]
        /\ TasksBehindOffsets'
    BY <2>1, AdvanceKeepsOrder DEF TimeseriesInv
  <2>3. TradesKept'
    BY <2>1, TradesStayKept
  <2>4. CandlesMatchTrades'
    BY <2>1 DEF TimeseriesInv, CandlesMatchTrades, TradesOf
  <2> QED
    BY <2>1, <2>2, <2>3, <2>4 DEF TimeseriesInv, Types
<1>3. ASSUME NEW i \in Instance, Stop(i) \/ Start(i) PROVE TimeseriesInv'
  <2>1. UNCHANGED <<topic, trades, candles, offsets>>
    BY <1>3 DEF Stop, Start
  <2>2. \A t \in Task : t[2] \in Partition
    BY DEF Task
  <2>3. \A t \in Task : at[t] \in Nat /\ offsets[t[2]] \in Nat /\ at[t] <= offsets[t[2]]
    BY <2>2 DEF TimeseriesInv, Types, TasksBehindOffsets
  <2>4. ASSUME Stop(i)
        PROVE  at' \in [Task -> Nat] /\ stops' \in Nat /\ TasksBehindOffsets'
    <3>1. stops' \in Nat /\ at' = [t \in Task |-> IF t[1] = i THEN 0 ELSE at[t]]
      BY <2>4 DEF Stop, TimeseriesInv, Types
    <3>2. at' \in [Task -> Nat]
      BY <2>3, <3>1
    <3>3. TasksBehindOffsets'
      BY <2>1, <2>3, <3>1 DEF TasksBehindOffsets
    <3> QED
      BY <3>1, <3>2, <3>3
  <2>5. ASSUME Start(i)
        PROVE  at' \in [Task -> Nat] /\ stops' \in Nat /\ TasksBehindOffsets'
    <3>1. stops' = stops /\ at' = [t \in Task |-> IF t[1] = i THEN offsets[t[2]] ELSE at[t]]
      BY <2>5 DEF Start
    <3>2. at' \in [Task -> Nat]
      BY <2>3, <3>1
    <3>3. TasksBehindOffsets'
      BY <2>1, <2>3, <3>1 DEF TasksBehindOffsets
    <3> QED
      BY <3>1, <3>2, <3>3 DEF TimeseriesInv, Types
  <2>6. TradesKept' /\ CandlesMatchTrades'
    BY <2>1 DEF TimeseriesInv, TradesKept, CandlesMatchTrades, TradesOf
  <2>7. at' \in [Task -> Nat] /\ stops' \in Nat /\ TasksBehindOffsets'
    BY <1>3, <2>4, <2>5
  <2> QED
    BY <2>1, <2>6, <2>7 DEF TimeseriesInv, Types
<1>4. ASSUME NEW p \in Partition, NEW record \in Event, Publish(p, record)
      PROVE  TimeseriesInv'
  <2>1. /\ UNCHANGED <<trades, candles, offsets, at, stops>>
        /\ topic' = [topic EXCEPT ![p] = Append(@, record)]
    BY <1>4 DEF Publish
  <2>2. Types' /\ TasksBehindOffsets'
    BY <2>1 DEF TimeseriesInv, Types, TasksBehindOffsets
  <2>3. \A q \in Partition : \A n \in DOMAIN topic[q] :
          n \in DOMAIN topic'[q] /\ topic'[q][n] = topic[q][n]
    BY <2>1 DEF TimeseriesInv, Types
  <2>4. TradesKept'
    BY <2>1, <2>3 DEF TimeseriesInv, TradesKept
  <2>5. CandlesMatchTrades'
    BY <2>1 DEF TimeseriesInv, CandlesMatchTrades, TradesOf
  <2> QED
    BY <2>2, <2>4, <2>5 DEF TimeseriesInv
<1>5. CASE UNCHANGED vars
  BY <1>5 DEF vars, TimeseriesInv, Types, TasksBehindOffsets, TradesKept, CandlesMatchTrades,
              TradesOf
<1>6. ASSUME NEW t \in Task, Idle(t) PROVE TimeseriesInv'
  BY <1>5, <1>6 DEF Idle
<1> QED
  BY <1>1, <1>2, <1>3, <1>4, <1>5, <1>6 DEF Next, Event

\* The invariant holds in every behaviour.
LEMMA TimeseriesInvariant == Spec => []TimeseriesInv
  BY TimeseriesInitInv, TimeseriesStepInv, PTL DEF Spec

(***************************************************************************)
(* open, high, low and close that upsert_candle_in_tx keeps are those of    *)
(* the stored trades of the bucket, however the trades are ordered,         *)
(* repeated and spread over instances and restarts.                         *)
(***************************************************************************)
THEOREM TimeseriesCandlesMatchTrades == Spec => []CandlesMatchTrades
<1>1. TimeseriesInv => CandlesMatchTrades
  BY DEF TimeseriesInv
<1> QED
  BY <1>1, TimeseriesInvariant, PTL

(***************************************************************************)
(* No trade below an offset that record_trade has saved is missing, for any *)
(* number of instances and restarts.                                        *)
(***************************************************************************)
THEOREM TimeseriesTradesKept == Spec => []TradesKept
<1>1. TimeseriesInv => TradesKept
  BY DEF TimeseriesInv
<1> QED
  BY <1>1, TimeseriesInvariant, PTL

-----------------------------------------------------------------------------
(***************************************************************************)
(* The volume of some trades as a sum.                                      *)
(***************************************************************************)
LEMMA VolumeIsSum ==
  ASSUME NEW T \in SUBSET Trade, IsFiniteSet(T)
  PROVE  MapThenSumSet(QuantityOf, T) = SumOver([t \in Trade |-> t.quantity], T)
<1>1. PICK f : f = [t \in Trade |-> t.quantity]
  OBVIOUS
<1> DEFINE Step(g, s) ==
             IF s = {} THEN 0
             ELSE QuantityOf(CHOOSE x \in s : TRUE) + g[s \ {CHOOSE x \in s : TRUE}]
           fold == CHOOSE g : g = [s \in SUBSET T |-> Step(g, s)]
<1>2. MapThenSumSet(QuantityOf, T) = fold[T]
  BY DEF MapThenSumSet, MapThenFoldSet
<1>3. \A g : Folds(g, f, T) <=> g = [s \in SUBSET T |-> Step(g, s)]
  <2>1. ASSUME NEW g, NEW s \in SUBSET T PROVE FoldStep(g, f, s) = Step(g, s)
    <3>1. s # {} => f[CHOOSE x \in s : TRUE] = QuantityOf(CHOOSE x \in s : TRUE)
      BY <1>1 DEF QuantityOf
    <3> QED
      BY <3>1 DEF FoldStep
  <2> HIDE DEF Step
  <2>2. ASSUME NEW g
        PROVE  [s \in SUBSET T |-> FoldStep(g, f, s)] = [s \in SUBSET T |-> Step(g, s)]
    BY <2>1
  <2> QED
    BY <2>2 DEF Folds
<1>4. \A x \in T : f[x] \in Int
  BY <1>1, TradeAssumption
<1>5. \E g : Folds(g, f, T)
  BY <1>4, FoldExists
<1>6. Folds(fold, f, T)
  <2> HIDE DEF Step
  <2> QED
    BY <1>3, <1>5
<1> HIDE DEF fold
<1>7. fold[T] = SumOver(f, T)
  BY <1>4, <1>6, FoldIsSum
<1> QED
  BY <1>1, <1>2, <1>7

\* One more trade.
LEMMA VolumeAdds ==
  ASSUME NEW T \in SUBSET Trade, IsFiniteSet(T), NEW t \in Trade, t \notin T
  PROVE  /\ MapThenSumSet(QuantityOf, T) \in Int
         /\ MapThenSumSet(QuantityOf, T \cup {t}) = t.quantity + MapThenSumSet(QuantityOf, T)
<1>1. PICK f : f = [x \in Trade |-> x.quantity]
  OBVIOUS
<1>2. \A x \in T \cup {t} : f[x] \in Int
  BY <1>1, TradeAssumption
<1>3. IsFiniteSet(T \cup {t}) /\ SumOver(f, T \cup {t}) = f[t] + SumOver(f, T)
  BY <1>2, SumOverAdd
<1>4. MapThenSumSet(QuantityOf, T) = SumOver(f, T)
  BY <1>1, VolumeIsSum
<1>5. PICK U \in SUBSET Trade : U = T \cup {t}
  OBVIOUS
<1>6. MapThenSumSet(QuantityOf, U) = SumOver(f, U)
  BY <1>1, <1>3, <1>5, VolumeIsSum
<1>7. SumOver(f, T) \in Int
  BY <1>2, SumOverType
<1> QED
  BY <1>1, <1>3, <1>4, <1>5, <1>6, <1>7

LEMMA NoVolume == MapThenSumSet(QuantityOf, {}) = 0
<1>1. {} \in SUBSET Trade /\ IsFiniteSet({})
  BY FS_EmptySet
<1>2. MapThenSumSet(QuantityOf, {}) = SumOver([t \in Trade |-> t.quantity], {})
  BY <1>1, VolumeIsSum
<1> QED
  BY <1>2, SumOverEmpty

(***************************************************************************)
(* Volumes and counts: finitely many trades are stored.                     *)
(***************************************************************************)
VolumeInv == IsFiniteSet(trades) /\ VolumesAddUp

\* What record_trade does to them when the trade is new.
LEMMA VolumesStayAdded ==
  ASSUME TimeseriesInv, VolumeInv, NEW trade \in Trade, ~Recorded(trade),
         trades' = trades \cup {trade},
         candles' = [k \in Keys |-> IF k \in {Key(trade, i) : i \in Interval}
                                    THEN UpsertCandle(candles[k], trade) ELSE candles[k]]
  PROVE  VolumeInv'
<1>1. trade \notin trades /\ IsFiniteSet(trades')
  BY FS_AddElement DEF Recorded, VolumeInv
<1> SUFFICES ASSUME NEW k \in Keys
             PROVE  /\ candles'[k].volume = MapThenSumSet(QuantityOf, TradesOf(k)')
                    /\ candles'[k].count = Cardinality(TradesOf(k)')
  BY <1>1 DEF VolumeInv, VolumesAddUp
<1>2. PICK T : T = TradesOf(k)
  OBVIOUS
<1>3. T \in SUBSET Trade /\ IsFiniteSet(T) /\ trade \notin T
  BY <1>1, <1>2, FS_Subset DEF TradesOf, VolumeInv, TimeseriesInv, Types
<1>4. candles[k].volume = MapThenSumSet(QuantityOf, T) /\ candles[k].count = Cardinality(T)
  BY <1>2 DEF VolumeInv, VolumesAddUp
<1>5. CASE k \in {Key(trade, i) : i \in Interval}
  <2>1. TradesOf(k)' = T \cup {trade}
    BY <1>2, <1>5, TouchedKeys DEF TradesOf
  <2>2. candles'[k] = UpsertCandle(candles[k], trade)
    BY <1>5
  <2>3. /\ MapThenSumSet(QuantityOf, T) \in Int
        /\ MapThenSumSet(QuantityOf, T \cup {trade})
             = trade.quantity + MapThenSumSet(QuantityOf, T)
    BY <1>3, VolumeAdds
  <2>4. Cardinality(T) \in Nat /\ Cardinality(T \cup {trade}) = Cardinality(T) + 1
    BY <1>3, FS_CardinalityType, FS_AddElement
  <2>5. trade.quantity \in Int
    BY TradeAssumption
  <2>6. /\ candles'[k].volume = MapThenSumSet(QuantityOf, T) + trade.quantity
        /\ candles'[k].count = Cardinality(T) + 1
    <3>1. CASE candles[k].count = 0
      <4>1. T = {}
        BY <1>3, <1>4, <3>1, FS_EmptySet
      <4>2. candles'[k] = NewCandle(trade)
        BY <2>2, <3>1 DEF UpsertCandle
      <4>3. candles'[k].volume = trade.quantity /\ candles'[k].count = 1
        BY <4>2 DEF NewCandle
      <4>4. Cardinality(T) = 0 /\ MapThenSumSet(QuantityOf, T) = 0
        BY <1>4, <3>1, <4>1, NoVolume
      <4> QED
        BY <2>5, <4>3, <4>4
    <3>2. CASE candles[k].count # 0
      <4>1. candles'[k] = MergeCandle(candles[k], trade)
        BY <2>2, <3>2 DEF UpsertCandle
      <4>2. /\ candles'[k].volume = candles[k].volume + trade.quantity
            /\ candles'[k].count = candles[k].count + 1
        BY <4>1 DEF MergeCandle
      <4> QED
        BY <1>4, <4>2
    <3> QED
      BY <3>1, <3>2
  <2>7. MapThenSumSet(QuantityOf, T) + trade.quantity
          = trade.quantity + MapThenSumSet(QuantityOf, T)
    BY <2>3, <2>5
  <2> QED
    BY <2>1, <2>3, <2>4, <2>6, <2>7
<1>6. CASE k \notin {Key(trade, i) : i \in Interval}
  <2>1. TradesOf(k)' = T
    BY <1>2, <1>6, TouchedKeys DEF TradesOf
  <2>2. candles'[k] = candles[k]
    BY <1>6
  <2> QED
    BY <1>4, <2>1, <2>2
<1> QED
  BY <1>5, <1>6

\* One step per action.
LEMMA VolumeStepInv == TimeseriesInv /\ VolumeInv /\ [Next]_vars => VolumeInv'
<1> SUFFICES ASSUME TimeseriesInv, VolumeInv, [Next]_vars PROVE VolumeInv'
  OBVIOUS
<1>0. ASSUME trades' = trades, candles' = candles PROVE VolumeInv'
  BY <1>0 DEF VolumeInv, VolumesAddUp, TradesOf
<1>1. ASSUME NEW t \in Task, RecordTrade(t) PROVE VolumeInv'
  <2>1. HasRecord(t) /\ Advance(t) /\ Record(t) # OtherEvent
    BY <1>1 DEF RecordTrade
  <2>2. Record(t) \in Trade
    BY <2>1, AdvanceKeepsOrder DEF TimeseriesInv, Event
  <2>3. CASE Recorded(Record(t))
    BY <1>0, <1>1, <2>3 DEF RecordTrade
  <2>4. CASE ~Recorded(Record(t))
    <3>1. /\ trades' = trades \cup {Record(t)}
          /\ candles' = [k \in Keys |-> IF k \in {Key(Record(t), i) : i \in Interval}
                                        THEN UpsertCandle(candles[k], Record(t)) ELSE candles[k]]
      BY <1>1, <2>4 DEF RecordTrade
    <3> QED
      BY <2>2, <2>4, <3>1, VolumesStayAdded
  <2> QED
    BY <2>3, <2>4
<1>2. ASSUME NEW t \in Task, SkipRecord(t) \/ Idle(t) PROVE VolumeInv'
  BY <1>0, <1>2 DEF SkipRecord, Idle, vars
<1>3. ASSUME NEW i \in Instance, Stop(i) \/ Start(i) PROVE VolumeInv'
  BY <1>0, <1>3 DEF Stop, Start
<1>4. ASSUME NEW p \in Partition, NEW record \in Event, Publish(p, record) PROVE VolumeInv'
  BY <1>0, <1>4 DEF Publish
<1>5. CASE UNCHANGED vars
  BY <1>0, <1>5 DEF vars
<1> QED
  BY <1>1, <1>2, <1>3, <1>4, <1>5 DEF Next, Event

(***************************************************************************)
(* volume and trade_count that upsert_candle_in_tx keeps add up to the      *)
(* stored trades of the bucket: no trade that is delivered again, by        *)
(* another instance or after a restart, is counted twice.                   *)
(***************************************************************************)
THEOREM TimeseriesVolumesAddUp == Spec => []VolumesAddUp
<1>1. Init => VolumeInv
  <2> SUFFICES ASSUME Init PROVE VolumeInv
    OBVIOUS
  <2>1. IsFiniteSet(trades) /\ \A k \in Keys : TradesOf(k) = {} /\ candles[k] = NoCandle
    BY FS_EmptySet DEF Init, TradesOf
  <2>2. Cardinality({}) = 0
    BY FS_EmptySet
  <2> QED
    BY <2>1, <2>2, NoVolume DEF VolumeInv, VolumesAddUp, NoCandle
<1>2. VolumeInv => VolumesAddUp
  BY DEF VolumeInv
<1> QED
  BY <1>1, <1>2, TimeseriesInvariant, VolumeStepInv, PTL DEF Spec
=============================================================================
