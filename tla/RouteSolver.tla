------------------------------ MODULE RouteSolver ------------------------------
(***************************************************************************)
(* What the vehicle-routing service may answer.                             *)
(*   src/solver/main.py                                                     *)
(*                                                                         *)
(* The program hands constraints to OR-Tools and stops its search at a time *)
(* limit, so any plan that meets the hard ones may come back, and none may  *)
(* although there is one.  Travel times, time windows, shifts and the costs  *)
(* only narrow that choice and are left out.  Weights are in tenths of a     *)
(* kilogram, as the program rounds them.                                     *)
(***************************************************************************)
EXTENDS Integers, Sequences, FiniteSets, Functions

\* The stops the plan gives to vehicle v.
Visits(plan, v) == {stop \in DOMAIN plan : plan[stop] = v}

Carried(demand, stops) == SumFunctionOnSet(demand, stops)

\* Every vehicle has a least number of stops once there are enough of them.
MinStops(capacity, demand) ==
    LET stops == Cardinality(DOMAIN demand)
    IN  IF stops >= Len(capacity) THEN stops \div Len(capacity) ELSE 0

\* A plan gives each stop the number of a vehicle; 0 drops the stop, at a cost.
Plans(capacity, demand) ==
    {plan \in [DOMAIN demand -> 0..Len(capacity)] :
        \A v \in DOMAIN capacity :
            /\ Carried(demand, Visits(plan, v)) <= capacity[v]
            /\ Cardinality(Visits(plan, v)) >= MinStops(capacity, demand)}

\* The numbers of a finite set in their order.
Ascending(S) ==
    [i \in 1..Cardinality(S) |-> CHOOSE k \in S : Cardinality({j \in S : j <= k}) = i]

\* The vehicles that have a route in the answer, in their order.
RoutedVehicles(capacity, plan) == Ascending({v \in DOMAIN capacity : Visits(plan, v) # {}})

================================================================================
