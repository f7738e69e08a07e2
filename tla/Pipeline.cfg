CONSTANTS
  p1 = p1
  p2 = p2
  r1 = r1
  l1 = l1
  l2 = l2
  NoId = NoId
  Row = {1, 2, 3}
  Partition = {p1, p2}
  PartitionOf <- ThreeRows
  Relay = {r1}
  BatchLimit = 2
  LedgerInstance = {l1}
  MaxFailures = 1
  MaxCrashes = 1
  MaxStops = 1
SPECIFICATION FairSpec
INVARIANTS ClaimsHold FewCopies
PROPERTIES Delivery ExactlyOnce EveryEventJournaled
