SPECIFICATION FairSpec
CONSTANTS
  s1 = s1
  s2 = s2
  w1 = w1
  w2 = w2
  z1 = z1
  z2 = z2
  v1 = v1
  r1 = r1
  d1 = d1
  c1 = c1
  m1 = m1
  m2 = m2
  NoOne = NoOne
  None = None
  Workers = {w1, w2}
  MaxFaults = 1
  Events = {1, 2}
  Consumers = {s1, s2}
  Bound <- MCBound
  Subscriptions <- MCSubscriptions
  MaxAttempts = 2
  Prefetch = 1
  BatchSize = 2
  ZoneIds = {z1, z2}
  Vehicles = {v1}
  MaxZoneCalls = 4
  Interval = 2
  Stale = 1
  Dead = 2
  Skew = 2
  TrackerTime = 4
  MaxPings = 2
  Rides = {r1}
  Drivers = {d1}
  Zones = {z1}
  Callers = {c1}
  MatchIds = {m1, m2}
  Rank <- MCRank
  InitialZones = 1
  MaxZones = 1
  OfferTime = 2
  MaxTotalWait = 4
  MaxLate = 1
  Registries <- MCRegistries
  Feed = {"redis", "status", "pairing", "tracker", "zones"}
CHECK_DEADLOCK FALSE
INVARIANTS
  TypeOK
  NothingLost
  GivenUpAfterRetries
  ZonesCoherent
  DispatchAgrees
PROPERTIES
  Delivered
  MatchEnds
