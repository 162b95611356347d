SPECIFICATION RideSpec
CONSTANTS
  p1 = p1
  p2 = p2
  d1 = d1
  d2 = d2
  w1 = w1
  w2 = w2
  NoOne = NoOne
  Rides = {1}
  Passengers = {p1}
  Drivers = {d1}
  Workers = {w1}
  MaxAutoRematch = 1
  CallerOps = {"cancel", "accept", "arrived", "start", "end", "no_show", "driver_cancel", "exhausted", "fare", "paid", "pay_failed"}
  MaxOutbox = 1
CHECK_DEADLOCK FALSE
PROPERTIES
  TerminalImmutable
