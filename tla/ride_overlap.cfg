SPECIFICATION RideSpec
CONSTANTS
  p1 = p1
  p2 = p2
  d1 = d1
  d2 = d2
  w1 = w1
  w2 = w2
  NoOne = NoOne
  Rides = {1}
  Passengers = {p1}
  Drivers = {d1}
  Workers = {w1, w2}
  MaxAutoRematch = 1
  CallerOps = {"accept", "arrived", "start", "end", "driver_cancel", "exhausted", "fare", "paid"}
  MaxOutbox = 2
SYMMETRY Symmetry
CHECK_DEADLOCK FALSE
INVARIANTS
  RideTypeOK
  DriverWonClaim
  CompletionFollowsAssignment
PROPERTIES
  OverStaysOver
