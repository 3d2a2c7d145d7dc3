SPECIFICATION Spec
CONSTANTS
    p1 = p1
    p2 = p2
    t1 = t1
    t2 = t2
    a1 = a1
    a2 = a2
    r1 = r1
    r2 = r2
    None = None
    People <- MCPeople
    Customers <- MCCustomers
    Trucks <- MCTrucks
    Applications <- MCApplications
    Requests <- MCRequests
    Statuses <- MCStatuses
    Own <- MCOwn
    Codes <- MCCodes
    MaxAssignments = 2
    MaxDisturbances = 1
SYMMETRY MCSymmetry
INVARIANTS TypeOK TrucksAccounted AssignedOnce OwnVehicleOnce ApprovedIsComplete ApprovedOnce
CHECK_DEADLOCK FALSE
