SPECIFICATION Spec
CONSTANTS
  p1 = p1
  p2 = p2
  d1 = d1
  d2 = d2
  v1 = v1
  v2 = v2
  z1 = z1
  w1 = w1
  w2 = w2
  m1 = m1
  m2 = m2
  m3 = m3
  NoOne = NoOne
  None = None
  Rides = {1}
  Passengers = {p1}
  Drivers = {d1, d2}
  Vehicles = {v1, v2}
  Zones = {z1}
  Workers = {w1, w2}
  Callers = {w1, w2}
  MatchIds = {m1, m2}
  MaxAutoRematch = 0
  Rank <- MCRank
  InitialZones = 1
  MaxZones = 1
  OfferTime = 2
  MaxTotalWait = 2
  MaxLate = 0
  Registries <- WarmOnly
  CallerOps = {"cancel", "accept", "exhausted", "driver_cancel"}
  MaxOutbox = 1
  Feed = {"timeout", "restart"}
  MaxCopies = 1
  MaxQueue = 2
SYMMETRY Symmetry
CHECK_DEADLOCK FALSE
INVARIANTS
  DriverIsWinner
PROPERTIES
  OverStaysOver
