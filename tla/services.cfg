SPECIFICATION Spec
CONSTANTS
  w1 = w1
  w2 = w2
  d1 = d1
  d2 = d2
  v1 = v1
  m1 = m1
  m2 = m2
  m3 = m3
  None = None
  Workers = {w1, w2}
  MaxFaults = 1
  Events <- MCPublished
  Name <- MCName
  RideOf <- MCRideOf
  MaxCopies = 1
  Dwell = 1
  ReturnWindow = 1
  DetectorTime = 2
  MaxViolations = 2
  MaxSteps = 5
  MaxTokens = 3
  Phones = {1}
  MaxGuesses = 1
  MaxChallenges = 2
  MaxDevices = 2
  Drivers = {d1, d2}
  Vehicles = {v1}
  MaxSuspensions = 1
  MaxDriverCalls = 4
  Names = {"a", "b"}
  MethodIds = {m1, m2, m3}
  PastRides = {1}
  MaxSavedMethods = 2
  MaxPassengerCalls = 5
  Admins = {1, 2}
  MaxAttempts = 2
  BillingTime = 1
  MaxPoints = 1
  MaxConfigs = 2
  Kinds = {"license", "cnic"}
  Sums = {"a", "b"}
  MaxMedia = 2
  MaxMediaCalls = 3
  Wanted <- MCWanted
  MaxRecords = 3
  MaxBroadcasts = 1
SYMMETRY Symmetry
CHECK_DEADLOCK FALSE
INVARIANTS
  TypeOK
  ProjectionsAgree
  ViolationsSound
  OneLiveToken
  AccountsSound
  CodesBounded
  OnlineIsFit
  PairingExclusive
  OnlineIsAnnounced
  PassengerKept
  FaredOnce
  NotForgotten
  AnnouncedAsStored
