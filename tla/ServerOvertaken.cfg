CONSTANTS
  u1 = u1
  u2 = u2
  a = a
  b = b
  User = {u1, u2}
  Request = {a}
  Owner <- OwnerOfOne
  Workload <- OneOrder
  MaxRepeats = 0
  MaxFaults = 0
SPECIFICATION FairSpec
PROPERTIES QueuedRequestsComplete
