SPECIFICATION Spec
CONSTANTS
    s1 = s1
    s2 = s2
    b1 = b1
    b2 = b2
    Receipts = {c1, c2}
    Shipments = {s1, s2}
    Branches = {b1, b2}
    Drivers = {d1, d2}
    Requests = {r1, r2}
    None = None
    Destination <- Bound
    Operations <- PlanOperations
    MaxCrashes = 0
SYMMETRY Symmetry
INVARIANTS
    PlannedOnce
    ConfirmedBeforeNext
CHECK_DEADLOCK FALSE
