CONSTANTS
  u1 = u1
  usdc = usdc
  sol = sol
  k1 = k1
  k2 = k2
  ref1 = ref1
  m1 = m1
  f1 = f1
  w1 = w1
  pc1 = pc1
  pe1 = pe1
  User = {u1}
  Asset = {usdc, sol}
  Key = {k1, k2}
  Ref = {ref1}
  Market = {m1}
  Fill = {f1}
  Reason = {"cancelled"}
  DeltaKind = {"TRADE_FEE", "ACCOUNT_DELTA"}
  Instance = {w1}
  UserPartition <- OneUserPartition
  MarketPartition <- OneMarketPartition
  ClientCommands <- CommandsOneUser
  TotalDeltas = {1}
  LockedDeltas = {0}
  Fees = {0}
  Credits = {2}
  DistinctReleases = FALSE
  MaxCommands = 3
  MaxEvents = 2
  MaxCrashes = 1
  I64Max = 2
SPECIFICATION HistorySpec
INVARIANTS LockedWithinTotal LockedCoversReservations LedgerAddsUp RepliesAgree RepliesMatchEffects ClientFaultsAreBadDeposits RefusalsExplained EnqueuedUnlessRepeated
