SPECIFICATION Spec
CONSTANTS
    s1 = s1
    s2 = s2
    b1 = b1
    b2 = b2
    Receipts = {c1}
    Shipments = {s1, s2}
    Branches = {b1, b2}
    Drivers = {d1}
    Requests = {r1, r2}
    None = None
    Destination <- Bound
    Operations <- TripOperations
    MaxCrashes = 1
SYMMETRY Symmetry
INVARIANTS
    TypeOK
    StopsArriveInOrder
    CompletedConfirmed
PROPERTIES
    MissingReportKept
CHECK_DEADLOCK FALSE
