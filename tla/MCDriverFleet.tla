---------------------------- MODULE MCDriverFleet ----------------------------
(* A customer and a person without an account, company trucks, applications. *)
EXTENDS DriverFleet, TLC

CONSTANTS p1, p2, t1, t2, a1, a2, r1, r2

MCPeople == {p1, p2}
MCCustomers == {p1}
MCTrucks == {t1}
MCApplications == {a1, a2}
MCRequests == {r1, r2}
MCStatuses == {"AVAILABLE", "IN_USE"}
MCOwn == p1 :> {"NONE", "TRUCK"} @@ p2 :> {"MOTORCYCLE"}
MCCodes == {None}

MCSymmetry == Permutations(MCRequests) \cup Permutations(MCTrucks) \cup Permutations(MCApplications)

=============================================================================
