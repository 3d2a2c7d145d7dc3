-------------------------- MODULE MCExpressDelivery --------------------------
(* Instances of ExpressDelivery for TLC.                                      *)
EXTENDS ExpressDelivery, TLC

\* What races for a booking before its trip.
MatchingOperations == {"create", "accept", "retry", "cancel"}

\* Everything that moves a booking that has a driver, and the driver meanwhile.
TripOperations ==
    {"create", "remove", "update", "accept", "cancel", "sync", "PICKUP", "DROPOFF",
     "updateStatus", "driverStatus", "availability"}

\* A driver and a customer who use the application as it is meant to be used.
OrdinaryOperations == {"create", "accept", "sync", "PICKUP", "DROPOFF", "driverStatus"}

Symmetry == Permutations(Packages) \cup Permutations(Drivers) \cup Permutations(Requests)

=============================================================================
