--------------------------- MODULE WarehouseDispatch ---------------------------
(***************************************************************************)
(* Packages between warehouses and the deliveries that carry them.          *)
(*   src/src/modules/dispatch/dispatch.service.ts                           *)
(*   src/src/modules/deliveries/deliveries.service.ts                       *)
(*   src/src/modules/packages/warehouse-packages.service.ts                 *)
(*                                                                         *)
(* One source branch: a dispatch reads the packages of one branch only, and  *)
(* no package goes to the branch it comes from.                              *)
(* Nothing but the dispatch service writes a delivery's packages, and a      *)
(* package has no way back to PENDING.  Who may call what is left out.       *)
(***************************************************************************)
EXTENDS RouteSolver, Rounding

CONSTANTS
    Packages, Branches, Drivers, Requests, None,
    Destinations,   \* what a package may name as its destination
    Tenth,          \* the units of weight in a tenth of a kilogram
    Capacity,       \* VEHICLE_CAPACITY_KG of each driver's vehicle type, in tenths
    Weights,        \* weights a package may be given, 0.1 kg the least
    MaxDeliveries,  \* bound on the deliveries ever created
    MaxReports,     \* bound on the reports about packages, routes and deliveries
    MaxMishaps      \* bound on overlaps and crashes

\* A package's destination is not looked up when the package is created.
ASSUME WarehouseAssumption ==
    /\ Branches \subseteq Destinations
    /\ IsFiniteSet(Destinations) /\ IsFiniteSet(Packages)
    /\ IsFiniteSet(Drivers) /\ IsFiniteSet(Requests)
    /\ None \notin Packages \cup Drivers \cup Destinations
    /\ Tenth \in Nat \ {0}
    /\ Weights \subseteq Nat /\ \A weight \in Weights : weight >= Tenth
    /\ Capacity \in [Drivers -> Nat]
    /\ {MaxDeliveries, MaxReports, MaxMishaps} \subseteq Nat

VARIABLES
    package,    \* the warehouse packages collection
    delivery,   \* the deliveries collection, in the order of creation
    online,     \* driverProfile.isOnline of each driver
    req,        \* the suspended handlers
    reports,    \* how many reports were made
    mishap      \* how often a handler overlapped another or crashed

vars == <<package, delivery, online, req, reports, mishap>>

--------------------------------------------------------------------------------
(* Documents                                                                   *)

PackageStatus == {"PENDING", "ASSIGNED", "IN_TRANSIT", "DELIVERED", "FAILED"}
DeliveryStatus == {"PLANNED", "IN_PROGRESS", "COMPLETED", "CANCELLED"}

PackageDoc ==
    [status : PackageStatus \cup {"new", "deleted"},   \* not yet created, no longer there
     destination : Destinations \cup {None},
     weight : Weights \cup {0},
     deliveryId : 0..MaxDeliveries]                    \* 0 for null

NoPackage == [status |-> "new", destination |-> None, weight |-> 0, deliveryId |-> 0]

RouteDoc ==
    [driver : Drivers,
     stops : [Branches -> SUBSET Packages],            \* the packages for each stop on it
     isCompleted : BOOLEAN]

DeliveryDoc == [status : DeliveryStatus, routes : Seq(RouteDoc), packageIds : SUBSET Packages]

Exists(p) == package[p].status \in PackageStatus
Pending == {p \in Packages : package[p].status = "PENDING"}

Carrying(route) == UNION {route.stops[branch] : branch \in Branches}
Completed(routes) == {i \in DOMAIN routes : routes[i].isCompleted}

\* save() writes a path only when it was assigned another value than was loaded.
Written(current, loaded, assigned) == IF assigned = loaded THEN current ELSE assigned

--------------------------------------------------------------------------------
(* Suspended handlers                                                          *)

Steps == {"idle", "loadPackages", "create", "markAssigned", "driversOffline",
          "savePackage", "deletePackage", "saveStatus", "saveCompleted"}

RequestState ==
    [step : Steps,
     drivers : Seq(Drivers),            \* as they were found, then those that are eligible
     packages : SUBSET Packages,        \* requested, then found; or the one to change
     demand : [Destinations -> Nat],    \* the weight for each destination, 0 for no stop
     delivery : 0..MaxDeliveries,
     route : Nat,
     completed : SUBSET Nat,            \* the completed routes of the delivery as loaded
     status : PackageStatus \cup DeliveryStatus \cup {"none"},   \* as loaded
     next : PackageStatus \cup {"none"},
     weight : Weights \cup {0}]

Idle == [step |-> "idle", drivers |-> <<>>, packages |-> {}, demand |-> [b \in Destinations |-> 0],
         delivery |-> 0, route |-> 0, completed |-> {}, status |-> "none", next |-> "none", weight |-> 0]

Quiet == \A r \in Requests : req[r] = Idle

Kinds == {"overlap", "crash"}

\* One more of a kind, within the bound on both.
Mishap(kind) ==
    /\ mishap["overlap"] + mishap["crash"] < MaxMishaps
    /\ mishap' = [mishap EXCEPT ![kind] = @ + 1]

Without(kinds) == \A kind \in kinds : mishap[kind] = 0

Start(r, step, state) ==
    /\ req[r] = Idle
    /\ IF Quiet THEN UNCHANGED mishap ELSE Mishap("overlap")
    /\ req' = [req EXCEPT ![r] = [state EXCEPT !.step = step]]
    /\ UNCHANGED <<package, delivery, online>>

\* One more report, within their bound.
Report == reports < MaxReports /\ reports' = reports + 1

Goto(r, state, step) == req' = [req EXCEPT ![r] = [state EXCEPT !.step = step]]
Finish(r) == req' = [req EXCEPT ![r] = Idle]

TypeOK ==
    /\ package \in [Packages -> PackageDoc]
    /\ delivery \in Seq(DeliveryDoc) /\ Len(delivery) <= MaxDeliveries
    /\ online \in [Drivers -> BOOLEAN]
    /\ req \in [Requests -> RequestState]
    /\ reports \in 0..MaxReports
    /\ mishap \in [Kinds -> 0..MaxMishaps]

Init ==
    /\ package = [p \in Packages |-> NoPackage]
    /\ delivery = <<>>
    /\ online = [d \in Drivers |-> TRUE]
    /\ reports = 0
    /\ req = [r \in Requests |-> Idle]
    /\ mishap = [kind \in Kinds |-> 0]

--------------------------------------------------------------------------------
(* Warehouse packages                                                          *)

CreateWarehousePackage(p, destination, weight) ==
    /\ package[p] = NoPackage
    /\ package' = [package EXCEPT ![p] = [status |-> "PENDING", destination |-> destination,
                                          weight |-> weight, deliveryId |-> 0]]
    /\ UNCHANGED <<delivery, online, req, reports, mishap>>

\* Only PENDING packages can be edited ...
UpdateWarehousePackage(r, p, weight) ==
    /\ p \in Pending
    /\ Start(r, "savePackage", [Idle EXCEPT !.packages = {p}, !.weight = weight])

\* ... or deleted, and that is looked up before the write that is by id alone.
DeleteWarehousePackage(r, p) ==
    /\ p \in Pending
    /\ Start(r, "deletePackage", [Idle EXCEPT !.packages = {p}])

SavePackage(r) ==
    /\ req[r].step = "savePackage"
    /\ package' = [p \in Packages |->
                    IF p \in req[r].packages /\ Exists(p)
                    THEN [package[p] EXCEPT !.weight = req[r].weight] ELSE package[p]]
    /\ Finish(r)
    /\ UNCHANGED <<delivery, online, reports, mishap>>

DeletePackage(r) ==
    /\ req[r].step = "deletePackage"
    /\ package' = [p \in Packages |->
                    IF p \in req[r].packages THEN [NoPackage EXCEPT !.status = "deleted"]
                    ELSE package[p]]
    /\ Finish(r)
    /\ UNCHANGED <<delivery, online, reports, mishap>>

ValidTransitions ==
    {<<"PENDING", "ASSIGNED">>, <<"ASSIGNED", "IN_TRANSIT">>,
     <<"IN_TRANSIT", "DELIVERED">>, <<"IN_TRANSIT", "FAILED">>}

UpdateWarehousePackageStatus(r, p, next) ==
    /\ <<package[p].status, next>> \in ValidTransitions
    /\ Start(r, "saveStatus", [Idle EXCEPT !.packages = {p}, !.status = package[p].status,
                                           !.next = next])

\* The save of a package that was deleted meanwhile fails.
SaveStatus(r) ==
    /\ req[r].step = "saveStatus"
    /\ package' = [p \in Packages |->
                    IF p \in req[r].packages /\ Exists(p)
                    THEN [package[p] EXCEPT !.status = Written(@, req[r].status, req[r].next)]
                    ELSE package[p]]
    /\ Finish(r)
    /\ UNCHANGED <<delivery, online, reports, mishap>>

--------------------------------------------------------------------------------
(* Dispatch                                                                    *)

Ordered(set) == CHOOSE s \in [1..Cardinality(set) -> set] : \A x \in set : \E i \in DOMAIN s : s[i] = x

\* Every driver asked for must be online.
Dispatch(r, drivers, requested) ==
    /\ drivers # {}
    /\ \A d \in drivers : online[d]
    /\ Len(delivery) + Cardinality({q \in Requests : req[q].step \in {"loadPackages", "create"}})
        < MaxDeliveries
    /\ Start(r, "loadPackages", [Idle EXCEPT !.drivers = Ordered(drivers), !.packages = requested])

Weight == [p \in Packages |-> package[p].weight]

\* The weight that goes to each destination.
Demand(packages) ==
    [destination \in Destinations |->
        SumFunctionOnSet(Weight, {p \in packages : package[p].destination = destination})]

Stops(demand) == {destination \in Destinations : demand[destination] > 0}

\* The drivers whose vehicle carries at least the lightest stop.
Eligible(drivers, demand) ==
    LET chosen == Ascending({i \in DOMAIN drivers :
                        \E stop \in Stops(demand) : Tenth * Capacity[drivers[i]] >= demand[stop]})
    IN  [i \in DOMAIN chosen |-> drivers[chosen[i]]]

\* What the solver is told: the weight of each stop that is a branch, rounded to
\* tenths of a kilogram.
StopNodes(demand) ==
    LET stops == Stops(demand) \cap Branches
    IN  {nodes \in [stops -> UNION {Nearest(demand[stop], Tenth) : stop \in stops}] :
            \A stop \in stops : nodes[stop] \in Nearest(demand[stop], Tenth)}

\* Mutation test: the packages asked for are taken in any status.
LoadAnyPackages(r) ==
    LET q == req[r]
        found == IF q.packages = {} THEN Pending ELSE {p \in q.packages : Exists(p)}
    IN  /\ q.step = "loadPackages"
        /\ IF found # {} /\ q.packages \subseteq found /\ Stops(Demand(found)) \cap Branches # {}
           THEN Goto(r, [q EXCEPT !.packages = found, !.demand = Demand(found)], "create")
           ELSE Finish(r)
        /\ UNCHANGED <<package, delivery, online, reports, mishap>>

\* The packages asked for, which must all be PENDING, or all that are; some
\* destination must be a branch.
LoadPackages(r) ==
    LET q == req[r]
        found == IF q.packages = {} THEN Pending ELSE q.packages \cap Pending
    IN  /\ q.step = "loadPackages"
        /\ IF found # {} /\ q.packages \subseteq found /\ Stops(Demand(found)) \cap Branches # {}
           THEN Goto(r, [q EXCEPT !.packages = found, !.demand = Demand(found)], "create")
           ELSE Finish(r)
        /\ UNCHANGED <<package, delivery, online, reports, mishap>>

\* Mutation test: the vehicle numbers are read as positions among all the drivers.
RoutesOfDrivers(q, plan) ==
    LET eligible == Eligible(q.drivers, q.demand)
        routed == RoutedVehicles(eligible, plan)
    IN  [i \in DOMAIN routed |->
            [driver |-> q.drivers[routed[i]],
             stops |-> [branch \in Branches |->
                            {p \in q.packages : /\ package[p].destination = branch
                                                /\ branch \in Visits(plan, routed[i])}],
             isCompleted |-> FALSE]]

\* Each vehicle's stops, with the packages that go there.
Routes(q, plan) ==
    LET eligible == Eligible(q.drivers, q.demand)
        routed == RoutedVehicles(eligible, plan)
    IN  [i \in DOMAIN routed |->
            [driver |-> eligible[routed[i]],
             stops |-> [branch \in Branches |->
                            {p \in q.packages : /\ package[p].destination = branch
                                                /\ branch \in Visits(plan, routed[i])}],
             isCompleted |-> FALSE]]

\* The solver's plan becomes a delivery of all the packages, those of a stop it
\* dropped included.
CreateDelivery(r, plan) ==
    /\ delivery' = Append(delivery, [status |-> "PLANNED", routes |-> Routes(req[r], plan),
                                     packageIds |-> req[r].packages])
    /\ Goto(r, [Idle EXCEPT !.drivers = Eligible(req[r].drivers, req[r].demand),
                            !.packages = req[r].packages,
                            !.delivery = Len(delivery) + 1], "markAssigned")
    /\ UNCHANGED <<package, online, reports, mishap>>

\* The road matrix or the solver fails, or the solver finds no plan.
NoPlan(r) == Finish(r) /\ UNCHANGED <<package, delivery, online, reports, mishap>>

Solve(r) ==
    LET q == req[r]
        eligible == Eligible(q.drivers, q.demand)
        capacity == [v \in DOMAIN eligible |-> Capacity[eligible[v]]]
    IN  /\ q.step = "create"
        /\ \/ NoPlan(r)
           \/ /\ eligible # <<>>
              /\ \E nodes \in StopNodes(q.demand) :
                    \E plan \in Plans(capacity, nodes) : CreateDelivery(r, plan)

\* updateMany writes one document after the other.  This goes on with the
\* packages, and then with the drivers that were eligible.
NextPackage(r, p) ==
    IF req[r].packages = {p} THEN Goto(r, [Idle EXCEPT !.drivers = req[r].drivers], "driversOffline")
    ELSE req' = [req EXCEPT ![r].packages = @ \ {p}]

\* Mutation test: only packages that are on a route are marked.
MarkRouted(r, p) ==
    LET q == req[r]
        routes == delivery[q.delivery].routes
    IN  /\ q.step = "markAssigned"
        /\ p \in q.packages
        /\ package' = IF Exists(p) /\ \E i \in DOMAIN routes : p \in Carrying(routes[i])
                      THEN [package EXCEPT ![p].status = "ASSIGNED", ![p].deliveryId = q.delivery]
                      ELSE package
        /\ NextPackage(r, p)
        /\ UNCHANGED <<delivery, online, reports, mishap>>

\* Mutation test: the packages get the status of the delivery.
MarkPlanned(r, p) ==
    LET q == req[r]
    IN  /\ q.step = "markAssigned"
        /\ p \in q.packages
        /\ package' = IF Exists(p)
                      THEN [package EXCEPT ![p].status = delivery[q.delivery].status,
                                           ![p].deliveryId = q.delivery]
                      ELSE package
        /\ NextPackage(r, p)
        /\ UNCHANGED <<delivery, online, reports, mishap>>

MarkAssigned(r, p) ==
    LET q == req[r]
    IN  /\ q.step = "markAssigned"
        /\ p \in q.packages
        /\ package' = IF Exists(p)
                      THEN [package EXCEPT ![p].status = "ASSIGNED", ![p].deliveryId = q.delivery]
                      ELSE package
        /\ NextPackage(r, p)
        /\ UNCHANGED <<delivery, online, reports, mishap>>

\* Every driver that was eligible goes offline, with a route or without.
DriversOffline(r) ==
    LET q == req[r]
    IN  /\ q.step = "driversOffline"
        /\ q.drivers # <<>>
        /\ online' = [online EXCEPT ![Head(q.drivers)] = FALSE]
        /\ IF Len(q.drivers) = 1 THEN Finish(r)
           ELSE req' = [req EXCEPT ![r].drivers = Tail(@)]
        /\ UNCHANGED <<package, delivery, reports, mishap>>

--------------------------------------------------------------------------------
(* Deliveries                                                                  *)

MarkDriverCompleted(r, n, i) ==
    Start(r, "saveCompleted", [Idle EXCEPT !.delivery = n, !.route = i,
                                           !.status = delivery[n].status,
                                           !.completed = Completed(delivery[n].routes)])

\* Mutation test: the routes are counted before this one is marked.
SaveCountedEarly(r) ==
    LET q == req[r]
        assigned == IF q.completed = DOMAIN delivery[q.delivery].routes
                    THEN "COMPLETED" ELSE "IN_PROGRESS"
    IN  /\ q.step = "saveCompleted"
        /\ delivery' = [delivery EXCEPT
                ![q.delivery].routes[q.route].isCompleted = TRUE,
                ![q.delivery].status = Written(@, q.status, assigned)]
        /\ Finish(r)
        /\ UNCHANGED <<package, online, reports, mishap>>

\* Whether all routes are completed is decided on the delivery as it was loaded.
SaveCompleted(r) ==
    LET q == req[r]
        assigned == IF q.completed \cup {q.route} = DOMAIN delivery[q.delivery].routes
                    THEN "COMPLETED" ELSE "IN_PROGRESS"
    IN  /\ q.step = "saveCompleted"
        /\ delivery' = [delivery EXCEPT
                ![q.delivery].routes[q.route].isCompleted = TRUE,
                ![q.delivery].status = Written(@, q.status, assigned)]
        /\ Finish(r)
        /\ UNCHANGED <<package, online, reports, mishap>>

\* Neither the packages nor the drivers are released.
Cancel(n) ==
    /\ delivery' = [delivery EXCEPT ![n].status = "CANCELLED"]
    /\ Report
    /\ UNCHANGED <<package, online, req, mishap>>

--------------------------------------------------------------------------------
(* Drivers, crashes and the whole                                              *)

\* The rest of the program writes isOnline at any time, with any value: a driver
\* who reports a location alone writes it as it was loaded.
UpdateDriverStatus(d, isOnline) ==
    /\ online[d] # isOnline
    /\ online' = [online EXCEPT ![d] = isOnline]
    /\ UNCHANGED <<package, delivery, req, reports, mishap>>

\* The process dies with all its handlers; the collections stay.
Crash ==
    /\ ~Quiet
    /\ req' = [r \in Requests |-> Idle]
    /\ Mishap("crash")
    /\ UNCHANGED <<package, delivery, online, reports>>

Begin(r) ==
    \/ /\ \/ \E p \in Packages :
                \/ \E weight \in Weights : UpdateWarehousePackage(r, p, weight)
                \/ DeleteWarehousePackage(r, p)
          \/ \E drivers \in SUBSET Drivers, requested \in SUBSET Packages :
                Dispatch(r, drivers, requested)
       /\ UNCHANGED reports
    \/ /\ \/ \E p \in Packages, next \in PackageStatus : UpdateWarehousePackageStatus(r, p, next)
          \/ \E n \in DOMAIN delivery : \E i \in DOMAIN delivery[n].routes :
                MarkDriverCompleted(r, n, i)
       /\ Report

Continue(r) ==
    \/ SavePackage(r) \/ DeletePackage(r) \/ SaveStatus(r)
    \/ LoadPackages(r) \/ Solve(r) \/ DriversOffline(r) \/ SaveCompleted(r)
    \/ \E p \in req[r].packages : MarkAssigned(r, p)

Next ==
    \/ Crash
    \/ \E n \in DOMAIN delivery : Cancel(n)
    \/ \E d \in Drivers, isOnline \in BOOLEAN : UpdateDriverStatus(d, isOnline)
    \/ \E p \in Packages, destination \in Destinations, weight \in Weights :
        CreateWarehousePackage(p, destination, weight)
    \/ \E r \in Requests : Begin(r) \/ Continue(r)

Spec == Init /\ [][Next]_vars

--------------------------------------------------------------------------------
(* Properties                                                                  *)

\* A package is listed by at most one delivery and is on at most one route, that
\* of the stop it goes to, as long as handlers do not overlap and the process
\* does not die: the packages are marked after the delivery exists (dispatch,
\* markAssigned).  A package that names a delivery is listed by it, always.
DispatchedOnce ==
    /\ \A p \in Packages : package[p].deliveryId # 0 => p \in delivery[package[p].deliveryId].packageIds
    /\ Without(Kinds) =>
        \A m, n \in DOMAIN delivery : \A p \in delivery[m].packageIds \cap delivery[n].packageIds :
            /\ m = n
            /\ \A i, j \in DOMAIN delivery[m].routes :
                p \in Carrying(delivery[m].routes[i]) \cap Carrying(delivery[m].routes[j]) => i = j

\* What a driver carries on a route, by the weights the packages have now, exceeds
\* the capacity of the vehicle by no more than the solver's rounding hides, half a
\* tenth of a kilogram for each stop: as long as handlers do not overlap and the
\* process does not die, since weights are edited by another handler (dispatch,
\* updateWarehousePackage).
WithinCapacity ==
    Without(Kinds) => \A n \in DOMAIN delivery : \A i \in DOMAIN delivery[n].routes :
        LET route == delivery[n].routes[i]
            stops == {branch \in Branches : route.stops[branch] # {}}
        IN  2 * SumFunctionOnSet(Weight, Carrying(route))
                <= Tenth * (2 * Capacity[route.driver] + Cardinality(stops))

\* A delivery is COMPLETED only when every route is, always; once every route is,
\* it is COMPLETED unless it was cancelled, as long as handlers do not overlap
\* (markDriverCompleted).
CompletedWhenDone ==
    \A n \in DOMAIN delivery :
        LET routes == delivery[n].routes
        IN  /\ delivery[n].status = "COMPLETED" => Completed(routes) = DOMAIN routes
            /\ Without({"overlap"}) /\ routes # <<>> /\ Completed(routes) = DOMAIN routes =>
                delivery[n].status \in {"COMPLETED", "CANCELLED"}

\* Between handlers, no package that a delivery lists is still PENDING, where
\* another dispatch would take it, as long as the process does not die; packages
\* of a stop the solver dropped are no exception (dispatch, markAssigned).
ListedIsTaken ==
    Quiet /\ Without({"crash"}) =>
        \A n \in DOMAIN delivery : delivery[n].packageIds \cap Pending = {}

================================================================================
