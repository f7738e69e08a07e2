CONSTANTS
  u1 = u1
  usdc = usdc
  k1 = k1
  k2 = k2
  ref1 = ref1
  m1 = m1
  w1 = w1
  pc1 = pc1
  pe1 = pe1
  pi1 = pi1
  User = {u1}
  Asset = {usdc}
  Key = {k1, k2}
  Ref = {ref1}
  Market = {m1}
  Fill = {}
  Reason <- OrderIds
  DeltaKind = {"TRADE_FEE", "ACCOUNT_DELTA"}
  Instance = {w1}
  UserPartition <- OneUserPartition
  MarketPartition <- OneMarketPartition
  ClientCommands <- Commands
  TotalDeltas = {}
  LockedDeltas = {}
  Fees = {}
  Credits = {}
  DistinctReleases = FALSE
  MaxCommands = 3
  MaxEvents = 0
  MaxCrashes = 1
  I64Max = 3
  OrderRequests <- Orders
  CancelKeys <- Cancels
  Funding <- FirstDeposit
  MarginAsset = usdc
  BookMarket = m1
  InputPartition = pi1
  BatchLimit = 1
  PeerMayFail = TRUE
  MaxRows = 5
  MaxFailures = 1
  MaxFaults = 1
SPECIFICATION FlowFairSpec
INVARIANTS MarginCoversOrder FundsFollowOrders
PROPERTIES CommandsAnswered OrdersAnswered
CHECK_DEADLOCK FALSE
