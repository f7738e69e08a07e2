CONSTANTS
  u1 = u1
  usdc = usdc
  sol = sol
  k1 = k1
  k2 = k2
  ref1 = ref1
  m1 = m1
  f1 = f1
  w1 = w1
  pc1 = pc1
  pe1 = pe1
  User = {u1}
  Asset = {usdc, sol}
  Key = {k1}
  Ref = {ref1}
  Market = {m1}
  Fill = {f1}
  Reason = {"cancelled"}
  DeltaKind = {"TRADE_FEE", "ACCOUNT_DELTA"}
  Instance = {w1}
  UserPartition <- OneUserPartition
  MarketPartition <- OneMarketPartition
  ClientCommands <- CommandsWithRest
  TotalDeltas = {}
  LockedDeltas = {0}
  Fees = {1}
  Credits = {1}
  DistinctReleases = FALSE
  MaxCommands = 2
  MaxEvents = 1
  MaxCrashes = 0
  I64Max = 4
SPECIFICATION FairSpec
PROPERTIES EngineEventsApplied
