CONSTANTS
  e1 = e1
  e2 = e2
  old = old
  junk = junk
  p1 = p1
  p2 = p2
  i1 = i1
  i2 = i2
  NoId = NoId
  Message = {e1, e2, old, junk}
  Partition = {p1, p2}
  LogicalId <- Ids
  Undecodable = {junk}
  Instance = {i1, i2}
  MaxStops = 1
  MaxRecords = 2
SPECIFICATION Spec
INVARIANTS NoDoubleEntry NothingSkipped
