SPECIFICATION Spec
CONSTANTS
    Packages = {p1}
    Drivers = {d1}
    NoDriver = NoDriver
    Requests = {r1, r2}
    Operations <- MatchingOperations
    AdminStatuses = {}
    Prices = {1}
    BroadcastDuration = 1
    MaxClock = 1
    MaxPayout = 0
    MaxCrashes = 0
PROPERTIES
    CancelOnlyUnassigned
CHECK_DEADLOCK FALSE
