SPECIFICATION MCSpec
CONSTANTS
  r1 = r1
  r2 = r2
  p1 = p1
  p2 = p2
  p3 = p3
  w1 = w1
  w2 = w2
  None = None
  Rides = {r1}
  PaymentIds = {p1, p2}
  Workers = {w1, w2}
  MaxDigitalRetries = 2
  Answers = {"pending"}
CHECK_DEADLOCK FALSE
INVARIANTS
  CompletedOnce
