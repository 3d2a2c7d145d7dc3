SPECIFICATION Spec
CONSTANTS
    p1 = p1
    p2 = p2
    b1 = b1
    b2 = b2
    lost = lost
    small = small
    large = large
    r1 = r1
    r2 = r2
    None = None
    Packages <- MCPackages
    Branches <- MCBranches
    Destinations <- MCDestinations
    Drivers <- MCDrivers
    Capacity <- MCCapacity
    Requests <- MCRequests
    Tenth = 10
    Weights = {10, 24}
    MaxDeliveries = 2
    MaxReports = 2
    MaxMishaps = 1
INVARIANTS
    TypeOK
    DispatchedOnce
    WithinCapacity
    CompletedWhenDone
    ListedIsTaken
SYMMETRY MCSymmetry
CHECK_DEADLOCK FALSE
