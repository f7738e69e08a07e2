CONSTANTS
  u1 = u1
  u2 = u2
  a = a
  b = b
  User = {u1, u2}
  Request = {a, b}
  Owner <- OwnerOfEach
  Workload <- Requests
  MaxRepeats = 1
  MaxFaults = 1
SPECIFICATION FairSpec
INVARIANTS AnswersAreVerdicts NoLostWakeup FailedStaysUnknown
PROPERTIES PublishedRequestsAnswered QueuedTransfersComplete
