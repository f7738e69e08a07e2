CONSTANTS
  s1 = s1
  s2 = s2
  m1 = m1
  e1 = e1
  e2 = e2
  engine = engine
  wallet = wallet
  NoId = NoId
  Session = {s1, s2}
  User = {1, 2}
  UserOf <- Users
  Market = {m1}
  EventId = {e1, e2}
  Partition = {engine, wallet}
  History <- Histories
  Payload <- Payloads
  Watcher = s1
  BookMarket = m1
  BookPartition = engine
  Price = {1, 2}
  Depth = 1
  MailboxCapacity = 1
  DedupeCapacity = 1
  MaxCalls = 2
  MaxFaults = 1
SPECIFICATION FeedSpec
INVARIANTS GapFreeStitching
CHECK_DEADLOCK FALSE
