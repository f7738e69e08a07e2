CONSTANTS
  u1 = u1
  u2 = u2
  u3 = u3
  m1 = m1
  oa = oa
  ob = ob
  oc = oc
  od = od
  ol = ol
  ox = ox
  inputs = inputs
  replies = replies
  events = events
  i1 = i1
  i2 = i2
  User = {u1, u2, u3}
  NoUser = NoUser
  Market = {m1}
  Price = {3, 5, 7, 8}
  Order = {oa, ob, oc, od, ol, ox}
  InfoOf <- Infos
  Partition = {inputs, replies, events}
  Instance = {i1, i2}
  History <- Histories
  MaxStops = 1
SPECIFICATION Spec
INVARIANTS FilledMatchesFills PositionsAreNetOfFills FillsStayLinked PnlAtLastPrice BookMatchesDeltas NothingUnprojected TasksNeverAllWait
PROPERTIES FinalStatusStays
