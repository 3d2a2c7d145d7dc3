------------------------- MODULE MCWarehouseDispatch -------------------------
(* Two packages, two branches and a place that is none, and one driver who    *)
(* takes a light package only.  Packages weigh 1.0 or 2.4 tenths of a kilogram: *)
(* as the solver rounds, a stop of each fits a vehicle for 3 tenths.           *)
EXTENDS WarehouseDispatch, TLC

CONSTANTS p1, p2, b1, b2, lost, small, large, r1, r2

MCPackages == {p1, p2}
MCBranches == {b1, b2}
MCDestinations == {b1, b2, lost}
MCDrivers == {small, large}
MCCapacity == [d \in MCDrivers |-> IF d = small THEN 1 ELSE 3]
MCRequests == {r1, r2}
MCSymmetry == Permutations(MCPackages) \cup Permutations(MCBranches) \cup Permutations(MCRequests)

===============================================================================
