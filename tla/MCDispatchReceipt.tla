-------------------------- MODULE MCDispatchReceipt --------------------------
(* Instances of DispatchReceipt for TLC.                                      *)
EXTENDS DispatchReceipt, TLC

CONSTANTS s1, s2, b1, b2

\* Everything branches do with one receipt.
TripOperations ==
    {"create", "plan", "depart", "start", "sync", "arrive", "confirm", "cancel"}

\* Planners, and trips whose arrivals are reported by hand.
PlanOperations == {"plan", "depart", "arrive", "confirm"}

\* One planned trip with the simulation.
SimulatedOperations == {"plan", "depart", "start", "sync", "arrive", "confirm"}

\* Each branch receives one of the two shipments.
Bound == (s1 :> b1) @@ (s2 :> b2)

Symmetry == Permutations(Receipts) \cup Permutations(Drivers) \cup Permutations(Requests)

=============================================================================
