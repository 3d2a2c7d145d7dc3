SPECIFICATION Spec
CONSTANTS
    s1 = s1
    s2 = s2
    b1 = b1
    b2 = b2
    Receipts = {c1}
    Shipments = {s1, s2}
    Branches = {b1, b2}
    Drivers = {d1}
    Requests = {r1}
    None = None
    Destination <- Bound
    Operations <- SimulatedOperations
    MaxCrashes = 0
INVARIANTS
    ConfirmedBeforeNext
CHECK_DEADLOCK FALSE
