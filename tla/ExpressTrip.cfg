SPECIFICATION Spec
CONSTANTS
    Packages = {p1}
    Drivers = {d1}
    NoDriver = NoDriver
    Requests = {r1, r2}
    Operations <- TripOperations
    AdminStatuses = {"FAILED"}
    Prices = {1, 2}
    BroadcastDuration = 1
    MaxClock = 0
    MaxPayout = 2
    MaxCrashes = 1
SYMMETRY Symmetry
INVARIANTS
    TypeOK
    HandoverChain
    NoUnearnedBalance
CHECK_DEADLOCK FALSE
