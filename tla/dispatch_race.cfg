SPECIFICATION RaceSpec
CONSTANTS
  r1 = r1
  d1 = d1
  d2 = d2
  v1 = v1
  v2 = v2
  z1 = z1
  z2 = z2
  c1 = c1
  c2 = c2
  m1 = m1
  m2 = m2
  m3 = m3
  NoOne = NoOne
  None = None
  Rides = {r1}
  Drivers = {d1, d2}
  Vehicles = {v1, v2}
  Zones = {z1, z2}
  Callers = {c1, c2}
  MatchIds = {m1, m2, m3}
  Rank <- MCRank
  InitialZones = 1
  MaxZones = 2
  OfferTime = 2
  MaxTotalWait = 4
  MaxLate = 1
  Registries <- WarmOnly
  Feed = {"redis", "restart"}
SYMMETRY Symmetry
CHECK_DEADLOCK FALSE
INVARIANTS
  DispatchTypeOK
  WonMatchIsGuarded
  OneRunningMatch
PROPERTIES
  FirstAcceptWins
