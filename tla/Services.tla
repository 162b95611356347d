------------------------------- MODULE Services -------------------------------
(***************************************************************************)
(* The parts that keep records of their own, together: the projections of  *)
(* Admin reporting, the violation detector of Geofence, the refresh tokens *)
(* and the logins of Auth, the drivers of the Driver service, passengers,  *)
(* the trail and fare of a ride, documents and notifications.  They share  *)
(* no state, so a behaviour of all of them is an interleaving of behaviours*)
(* of each: focus names the one that moves, and the others stay as they    *)
(* begin.                                                                  *)
(***************************************************************************)
EXTENDS Naturals, Sequences, FiniteSets

CONSTANTS
  Workers, None, MaxFaults,
  Events, Name, RideOf, MaxCopies,                               \* Admin reporting
  Dwell, ReturnWindow, DetectorTime, MaxViolations, MaxSteps,    \* Geofence
  MaxTokens, Phones, MaxGuesses, MaxChallenges, MaxDevices,      \* Auth
  Drivers, Vehicles, MaxSuspensions, MaxDriverCalls,             \* Driver
  Names, MethodIds, PastRides, MaxSavedMethods, MaxPassengerCalls,  \* Passenger
  Admins, MaxAttempts, BillingTime, MaxPoints, MaxConfigs,       \* Tracking and Fare
  Kinds, Sums, MaxMedia, MaxMediaCalls,                          \* Document
  Wanted, MaxRecords, MaxBroadcasts                              \* Notification

ASSUME SessionAssumption == MaxTokens \in Nat
ASSUME AccessAssumption == MaxGuesses \in Nat /\ MaxChallenges \in Nat /\ MaxDevices \in Nat
ASSUME FleetAssumption ==
  None \notin Drivers \cup Vehicles /\ MaxSuspensions \in Nat /\ MaxDriverCalls \in Nat
ASSUME BillingAssumption ==
  /\ IsFiniteSet(Workers) /\ MaxAttempts \in Nat \ {0}
  /\ BillingTime \in Nat /\ MaxConfigs \in Nat \ {0}
ASSUME MediaAssumption == MaxMedia \in Nat /\ MaxMediaCalls \in Nat
ASSUME NoticeAssumption == MaxRecords \in Nat /\ MaxBroadcasts \in Nat
ASSUME ProfileAssumption ==
  MaxSavedMethods \in Nat /\ MaxPassengerCalls \in Nat /\ MaxFaults \in Nat
ASSUME ReportingAssumption == MaxCopies \in Nat
ASSUME DetectorAssumption ==
  Dwell \in Nat /\ DetectorTime \in Nat /\ MaxViolations \in Nat /\ MaxSteps \in Nat

VARIABLES
  focus,
  rows, processed, requestedAt, onlineSince, projecting, acked, swallowed, rowsOverlapped,
  copies, reportingFaults,
  now, monitored, onRide, endedAt, passes, geo, violations, detecting, streak,
  detectorDisturbed, steps, detectorFaults,
  tokens, tokenCalls, familiesOverlapped, tokenFaults,
  users, challenges, devices, loginCalls, registered, guesses, opened, phonesOverlapped,
  drivers, provisioned, assignments, suspensions, expired, online, driverCalls,
  driversOverlapped, driversCut, driverCount, driverFaults,
  passenger, methods, history, passengerCalls, decided, profileOverlapped, excess,
  passengerCount, passengerFaults,
  clock, buffer, logged, ride, published, ended, delayed, openTrail, slices, tracking, fares,
  calculations, configs, creating, announced, dead, lost, billingFaults,
  media, finalizing, uploaded, mediaCount, mediaStopped,
  records, broadcasts, notifying, outcomes, sentEvents, noticesStopped

reports == <<rows, processed, requestedAt, onlineSince, projecting, acked, swallowed,
             rowsOverlapped, copies, reportingFaults>>
detector == <<now, monitored, onRide, endedAt, passes, geo, violations, detecting, streak,
              detectorDisturbed, steps, detectorFaults>>
sessions == <<tokens, tokenCalls, familiesOverlapped, tokenFaults>>
logins == <<users, challenges, devices, loginCalls, registered, guesses, opened,
            phonesOverlapped>>
fleet == <<drivers, provisioned, assignments, suspensions, expired, online, driverCalls,
           driversOverlapped, driversCut, driverCount, driverFaults>>
profiles == <<passenger, methods, history, passengerCalls, decided, profileOverlapped, excess,
              passengerCount, passengerFaults>>
billing == <<clock, buffer, logged, ride, published, ended, delayed, openTrail, slices,
             tracking, fares, calculations, configs, creating, announced, dead, lost,
             billingFaults>>
documents == <<media, finalizing, uploaded, mediaCount, mediaStopped>>
notices == <<records, broadcasts, notifying, outcomes, sentEvents, noticesStopped>>

Reports == INSTANCE Reporting WITH
  Ride <- RideOf, calls <- projecting, overlapped <- rowsOverlapped, faults <- reportingFaults

Detector == INSTANCE Violations WITH
  MaxTime <- DetectorTime, calls <- detecting, disturbed <- detectorDisturbed,
  faults <- detectorFaults

Sessions == INSTANCE RefreshTokens WITH
  calls <- tokenCalls, overlapped <- familiesOverlapped, faults <- tokenFaults

Access == INSTANCE Logins WITH
  MaxAttempts <- MaxGuesses, calls <- loginCalls, overlapped <- phonesOverlapped

Drive == INSTANCE Fleet WITH
  MaxCalls <- MaxDriverCalls, announced <- online, calls <- driverCalls,
  overlapped <- driversOverlapped, cut <- driversCut, count <- driverCount,
  faults <- driverFaults

Profiles == INSTANCE Passengers WITH
  Rides <- PastRides, MaxCalls <- MaxPassengerCalls, calls <- passengerCalls,
  overlapped <- profileOverlapped, count <- passengerCount, faults <- passengerFaults

Fares == INSTANCE Billing WITH
  Handlers <- Workers, Finalizers <- Workers, MaxTime <- BillingTime,
  now <- clock, faults <- billingFaults

Uploads == INSTANCE Documents WITH
  MaxCalls <- MaxMediaCalls, MaxStopped <- MaxFaults, calls <- finalizing, count <- mediaCount,
  stopped <- mediaStopped

Notices == INSTANCE Notifications WITH
  MaxStopped <- MaxFaults, calls <- notifying, published <- sentEvents,
  stopped <- noticesStopped

Components == {"reports", "detector", "sessions", "logins", "fleet", "profiles", "billing",
               "documents", "notices"}

TypeOK ==
  CASE focus = "reports" -> Reports!TypeOK
    [] focus = "detector" -> Detector!TypeOK
    [] focus = "sessions" -> Sessions!TypeOK
    [] focus = "logins" -> Access!TypeOK
    [] focus = "fleet" -> Drive!TypeOK
    [] focus = "profiles" -> Profiles!TypeOK
    [] focus = "billing" -> Fares!TypeOK
    [] focus = "documents" -> Uploads!TypeOK
    [] focus = "notices" -> Notices!TypeOK

Init ==
  /\ focus \in Components
  /\ Reports!Init /\ Detector!Init /\ Sessions!Init /\ Access!Init /\ Drive!Init
  /\ Profiles!Init /\ Fares!Init /\ Uploads!Init /\ Notices!Init
  /\ focus # "detector" => monitored
  /\ focus # "fleet" => provisioned = {}
  /\ focus # "logins" => users = [p \in Phones |-> "nobody"]

Next ==
  /\ UNCHANGED focus
  /\ \/ /\ focus = "reports" /\ Reports!Next
        /\ UNCHANGED <<detector, sessions, logins, fleet, profiles, billing,
                       documents, notices>>
     \/ /\ focus = "detector" /\ Detector!Next
        /\ UNCHANGED <<reports, sessions, logins, fleet, profiles, billing,
                       documents, notices>>
     \/ /\ focus = "sessions" /\ Sessions!Next
        /\ UNCHANGED <<reports, detector, logins, fleet, profiles, billing,
                       documents, notices>>
     \/ /\ focus = "logins" /\ Access!Next
        /\ UNCHANGED <<reports, detector, sessions, fleet, profiles, billing,
                       documents, notices>>
     \/ /\ focus = "fleet" /\ Drive!Next
        /\ UNCHANGED <<reports, detector, sessions, logins, profiles, billing,
                       documents, notices>>
     \/ /\ focus = "profiles" /\ Profiles!Next
        /\ UNCHANGED <<reports, detector, sessions, logins, fleet, billing,
                       documents, notices>>
     \/ /\ focus = "billing" /\ Fares!Next
        /\ UNCHANGED <<reports, detector, sessions, logins, fleet, profiles,
                       documents, notices>>
     \/ /\ focus = "documents" /\ Uploads!Next
        /\ UNCHANGED <<reports, detector, sessions, logins, fleet, profiles, billing, notices>>
     \/ /\ focus = "notices" /\ Notices!Next
        /\ UNCHANGED <<reports, detector, sessions, logins, fleet, profiles, billing, documents>>

vars == <<focus, reports, detector, sessions, logins, fleet, profiles, billing,
          documents, notices>>

Spec == Init /\ [][Next]_vars

ProjectionsAgree == focus = "reports" => Reports!ExactlyOnce /\ Reports!NeverOvercounted
ViolationsSound == focus = "detector" => Detector!OpenIsTracked /\ Detector!DwellRespected
OneLiveToken == focus = "sessions" => Sessions!OneLiveToken
AccountsSound == focus = "logins" => Access!RegisteredOnce /\ Access!OneActiveDevice
CodesBounded == focus = "logins" => Access!CodesBounded
OnlineIsFit == focus = "fleet" => Drive!OnlineIsFit
PairingExclusive == focus = "fleet" => Drive!PairingExclusive
OnlineIsAnnounced == focus = "fleet" => Drive!OnlineIsAnnounced
PassengerKept == focus = "profiles" => Profiles!PassengerKept
FaredOnce == focus = "billing" => Fares!FaredOnce
NotForgotten == focus = "billing" => Fares!NotForgotten
AnnouncedAsStored ==
  /\ focus = "documents" => Uploads!AnnouncedAsStored
  /\ focus = "notices" => Notices!DeliveryLogged

=============================================================================
