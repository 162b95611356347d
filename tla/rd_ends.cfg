SPECIFICATION FairSpec
CONSTANTS
  p1 = p1
  p2 = p2
  d1 = d1
  d2 = d2
  v1 = v1
  v2 = v2
  z1 = z1
  w1 = w1
  w2 = w2
  m1 = m1
  m2 = m2
  m3 = m3
  NoOne = NoOne
  None = None
  Rides = {1}
  Passengers = {p1}
  Drivers = {d1}
  Vehicles = {v1}
  Zones = {z1}
  Workers = {w1, w2}
  Callers = {w1, w2}
  MatchIds = {m1, m2, m3}
  MaxAutoRematch = 1
  Rank <- MCRank
  InitialZones = 1
  MaxZones = 1
  OfferTime = 2
  MaxTotalWait = 2
  MaxLate = 0
  Registries <- WarmOnly
  CallerOps = {"accept", "driver_cancel", "exhausted"}
  MaxOutbox = 1
  Feed = {"status"}
  MaxCopies = 0
  MaxQueue = 1
CHECK_DEADLOCK FALSE
INVARIANTS
  OneRunningMatch
PROPERTIES
  MatchingEnds
