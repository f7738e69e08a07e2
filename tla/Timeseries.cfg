CONSTANTS
  m1 = m1
  m2 = m2
  p1 = p1
  p2 = p2
  i1 = i1
  i2 = i2
  OtherEvent = OtherEvent
  Market = {m1, m2}
  Trade <- Trades
  Interval = {1, 2, 4}
  Partition = {p1, p2}
  PartitionOf <- Markets
  Instance = {i1, i2}
  MaxRecords = 3
  MaxStops = 1
SPECIFICATION Spec
INVARIANTS CandlesMatchTrades VolumesAddUp
