SPECIFICATION Spec
CONSTANTS
    Packages = {p1}
    Drivers = {d1}
    NoDriver = NoDriver
    Requests = {r1}
    Operations <- OrdinaryOperations
    AdminStatuses = {}
    Prices = {1}
    BroadcastDuration = 1
    MaxClock = 0
    MaxPayout = 1
    MaxCrashes = 0
INVARIANTS
    OfflineOnlyBetweenDeliveries
CHECK_DEADLOCK FALSE
