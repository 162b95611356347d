SPECIFICATION MCSpec
CONSTANTS
  r1 = r1
  r2 = r2
  p1 = p1
  p2 = p2
  p3 = p3
  w1 = w1
  w2 = w2
  None = None
  Rides = {r1, r2}
  PaymentIds = {p1, p2, p3}
  Workers = {w1, w2}
  MaxDigitalRetries = 2
  Answers = {"succeeded", "failed", "pending", "error"}
SYMMETRY Symmetry
CHECK_DEADLOCK FALSE
INVARIANTS
  TypeOK
  CompletedWasReported
  RetriesCapped
  CompletedOnceSerially
PROPERTIES
  SuccessIsFinal
  SuccessUndoneByStale
