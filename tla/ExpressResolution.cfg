SPECIFICATION FairSpec
CONSTANTS
    Packages = {p1}
    Drivers = {d1, d2}
    NoDriver = NoDriver
    Requests = {r1, r2, r3}
    Operations <- MatchingOperations
    AdminStatuses = {}
    Prices = {1}
    BroadcastDuration = 1
    MaxClock = 1
    MaxPayout = 0
    MaxCrashes = 0
PROPERTIES
    ReservationResolved
CHECK_DEADLOCK FALSE
