--------------------------- MODULE DispatchReceipt ---------------------------
(***************************************************************************)
(* Line-haul dispatch receipts: a truck takes the shipments of one source   *)
(* branch to several destination branches, each of which confirms its stop. *)
(*   src/src/modules/dispatch-receipt/dispatch-receipt.service.ts           *)
(*   src/src/modules/dispatch-receipt/dispatch-receipt-planner.service.ts   *)
(*                                                                         *)
(* One HTTP request is one slot of req and suspends at every database call, *)
(* as in ExpressDelivery.  receipt.save() writes the paths it changed.  A   *)
(* change inside the array of stops makes it test __v, and a change of one  *)
(* of a stop's own arrays makes it increment __v; nothing else touches it.  *)
(* updateMany is atomic for each document only: it is one step per shipment.*)
(***************************************************************************)
EXTENDS Integers, FiniteSets

CONSTANTS
    Receipts,       \* ids of the receipts
    Shipments,      \* ids of the branch-logistics shipments of the source branch
    Branches,       \* the destination branches
    Drivers,        \* the drivers of the source branch with a company truck
    Requests,       \* request slots
    None,           \* null
    Destination,    \* receiverBranchId of each shipment
    Operations,     \* the operations clients call in this instance
    MaxCrashes      \* bound on process crashes

ASSUME ReceiptAssumption ==
    /\ None \notin Receipts \cup Branches \cup Drivers
    /\ Destination \in [Shipments -> Branches]
    /\ IsFiniteSet(Branches)
    /\ MaxCrashes \in Nat

VARIABLES
    receipt,    \* the dispatch receipts collection
    shipment,   \* the branch-logistics shipments collection, where it concerns receipts
    driver,     \* availabilityStatus of each driver
    req,        \* the suspended handlers
    crashes     \* number of process crashes so far

vars == <<receipt, shipment, driver, req, crashes>>

-----------------------------------------------------------------------------
(* Documents                                                                *)

StopStatus == {"PENDING", "ARRIVED", "CONFIRMED", "PARTIAL"}

\* One stop per destination branch; order 0: not on the route.
StopDoc ==
    [stopOrder : Nat,
     shipmentIds : SUBSET Shipments,
     status : StopStatus,
     confirmed : BOOLEAN]   \* confirmedAt is set

NoStop == [stopOrder |-> 0, shipmentIds |-> {}, status |-> "PENDING", confirmed |-> FALSE]

ReceiptDoc ==
    [status : {"ABSENT", "DELETED", "CREATED", "IN_TRANSIT", "COMPLETED", "CANCELLED"},
     driverId : Drivers \cup {None},
     optimized : BOOLEAN,   \* planningMethod = OPTIMIZED, which comes with a route
     stops : [Branches -> StopDoc],
     started : BOOLEAN,     \* simulationStartedAt is set
     segment : BOOLEAN,     \* simulationSegmentStartedAt is set
     v : Nat]               \* __v

NoReceipt ==
    [status |-> "ABSENT", driverId |-> None, optimized |-> FALSE,
     stops |-> [b \in Branches |-> NoStop], started |-> FALSE, segment |-> FALSE, v |-> 0]

ShipmentStatus == {"CREATED", "ASSIGNED", "IN_TRANSIT", "RECEIVED_AT_RECEIVER_WAREHOUSE"}

ShipmentDoc ==
    [status : ShipmentStatus,
     receiptId : Receipts \cup {None},   \* dispatchReceiptId
     driverId : Drivers \cup {None}]     \* assignedDriverId

Exists(c) == receipt[c].status \notin {"ABSENT", "DELETED"}

Route(doc) == {b \in Branches : doc.stops[b].stopOrder > 0}

Before(doc, b) == {e \in Route(doc) : doc.stops[e].stopOrder < doc.stops[b].stopOrder}

Done(status) == status \in {"CONFIRMED", "PARTIAL"}

Cargo(doc) == UNION {doc.stops[b].shipmentIds : b \in Branches}

\* The stops of a receipt: each branch gets the shipments bound for it.
StopsFor(order, load) ==
    [b \in Branches |->
        [NoStop EXCEPT !.stopOrder = order[b],
                       !.shipmentIds = {s \in load : Destination[s] = b}]]

\* Distinct stop orders for the branches that receive something from the load.
RouteOrder(order, load) ==
    /\ \A b \in Branches : order[b] > 0 <=> \E s \in load : Destination[s] = b
    /\ \A b, e \in Branches : order[b] = order[e] /\ b # e => order[b] = 0

\* What save() leaves in a path: only assigned paths that differ are written.
Written(current, loaded, assigned) == IF assigned = loaded THEN current ELSE assigned

-----------------------------------------------------------------------------
(* Suspended handlers                                                       *)

Steps ==
    {"idle", "createCheck", "createInsert", "createLink", "createReserve",
     "planFleet", "planRoute", "planClaim", "planDelete", "planReserve",
     "departSave", "departShipments", "startSave", "arriveSave", "arriveShipments",
     "confirmRelease", "confirmSave", "cancelSave", "cancelShipments", "cancelRelease"}

RequestState ==
    [step : Steps,
     c : Receipts \cup {None},
     d : Drivers \cup {None},
     b : Branches \cup {None},     \* the stop concerned
     load : SUBSET Shipments,      \* the shipments it found for the trip
     fleet : SUBSET Drivers,       \* the drivers it found available
     todo : SUBSET Shipments,      \* what its updateMany has still to visit
     failed : BOOLEAN,             \* modifiedCount fell short
     result : StopStatus,          \* the outcome being confirmed
     listed : BOOLEAN,             \* with missing or damaged shipments
     seen : ReceiptDoc]            \* the receipt it loaded

Idle == [step |-> "idle", c |-> None, d |-> None, b |-> None, load |-> {}, fleet |-> {},
         todo |-> {}, failed |-> FALSE, result |-> "PENDING", listed |-> FALSE,
         seen |-> NoReceipt]

Start(r, state) == req[r].step = "idle" /\ req' = [req EXCEPT ![r] = state]
Goto(r, step) == req' = [req EXCEPT ![r].step = step]
Finish(r) == req' = [req EXCEPT ![r] = Idle]

\* updateMany visits one document after the other, then the handler goes on.
Sweep(r, s, next) ==
    LET rest == req[r].todo \ {s}
    IN  /\ s \in req[r].todo
        /\ IF rest = {} /\ next = "idle" THEN Finish(r)
           ELSE req' = [req EXCEPT ![r].todo = rest,
                                  ![r].step = IF rest = {} THEN next ELSE @]

TypeOK ==
    /\ receipt \in [Receipts -> ReceiptDoc]
    /\ shipment \in [Shipments -> ShipmentDoc]
    /\ driver \in [Drivers -> {"AVAILABLE", "ON_TRIP"}]
    /\ req \in [Requests -> RequestState]
    /\ crashes \in 0..MaxCrashes

Init ==
    /\ receipt = [c \in Receipts |-> NoReceipt]
    /\ shipment \in [Shipments -> [status : {"CREATED"}, receiptId : {None}, driverId : {None}]]
    /\ driver = [d \in Drivers |-> "AVAILABLE"]
    /\ req = [r \in Requests |-> Idle]
    /\ crashes = 0

-----------------------------------------------------------------------------
(* Making a receipt                                                         *)

Unassigned(s) == shipment[s].status = "CREATED" /\ shipment[s].receiptId = None

\* Mutation test: the status of the express bookings' enum.
AcceptedBy(c, d) == [status |-> "ACCEPTED", receiptId |-> c, driverId |-> d]

AssignedTo(c, d) == [status |-> "ASSIGNED", receiptId |-> c, driverId |-> d]

NewReceipt(d, optimized, stops) ==
    [NoReceipt EXCEPT !.status = "CREATED", !.driverId = d, !.optimized = optimized,
                      !.stops = stops]

\* createReceipt: every check precedes the first write.
BeginCreate(r, d) ==
    /\ "create" \in Operations
    /\ driver[d] = "AVAILABLE"
    /\ Start(r, [Idle EXCEPT !.step = "createCheck", !.d = d])
    /\ UNCHANGED <<receipt, shipment, driver, crashes>>

CreateCheck(r, load) ==
    /\ req[r].step = "createCheck"
    /\ IF \A s \in load : /\ shipment[s].status \in {"CREATED", "ASSIGNED"}
                          /\ shipment[s].receiptId = None
       THEN req' = [req EXCEPT ![r].step = "createInsert", ![r].load = load]
       ELSE Finish(r)
    /\ UNCHANGED <<receipt, shipment, driver, crashes>>

CreateInsert(r, c, order) ==
    LET load == req[r].load
    IN  /\ req[r].step = "createInsert"
        /\ receipt[c].status = "ABSENT"
        /\ RouteOrder(order, load)
        /\ receipt' = [receipt EXCEPT ![c] = NewReceipt(req[r].d, FALSE, StopsFor(order, load))]
        /\ req' = [req EXCEPT ![r].step = "createLink", ![r].c = c, ![r].load = {},
                              ![r].todo = load]
        /\ UNCHANGED <<shipment, driver, crashes>>

\* The filter of this updateMany is the ids alone.
CreateLink(r, s) ==
    /\ req[r].step = "createLink"
    /\ Sweep(r, s, "createReserve")
    /\ shipment' = [shipment EXCEPT ![s] = AssignedTo(req[r].c, req[r].d)]
    /\ UNCHANGED <<receipt, driver, crashes>>

CreateReserve(r) ==
    /\ req[r].step = "createReserve"
    /\ driver' = [driver EXCEPT ![req[r].d] = "ON_TRIP"]
    /\ Finish(r)
    /\ UNCHANGED <<receipt, shipment, crashes>>

\* autoPlan: the shipments found, or the wanted ones if they are all found.
BeginPlan(r, load) ==
    /\ "plan" \in Operations
    /\ load # {}
    /\ \A s \in load : Unassigned(s)
    /\ Start(r, [Idle EXCEPT !.step = "planFleet", !.load = load])
    /\ UNCHANGED <<receipt, shipment, driver, crashes>>

\* findAvailableTruckDrivers
PlanFleet(r) ==
    LET fleet == {d \in Drivers : driver[d] = "AVAILABLE"}
    IN  /\ req[r].step = "planFleet"
        /\ IF fleet = {} THEN Finish(r)
           ELSE req' = [req EXCEPT ![r].step = "planRoute", ![r].fleet = fleet]
        /\ UNCHANGED <<receipt, shipment, driver, crashes>>

\* The next route of the solver's answer: a driver not used yet, and all the
\* shipments of the branches it visits.
PlanRoute(r, c, d, order) ==
    LET cargo == {s \in req[r].load : order[Destination[s]] > 0}
    IN  /\ req[r].step = "planRoute"
        /\ d \in req[r].fleet
        /\ cargo # {}
        /\ receipt[c].status = "ABSENT"
        /\ RouteOrder(order, cargo)
        /\ receipt' = [receipt EXCEPT ![c] = NewReceipt(d, TRUE, StopsFor(order, cargo))]
        /\ req' = [req EXCEPT ![r].step = "planClaim", ![r].c = c, ![r].d = d,
                              ![r].load = @ \ cargo, ![r].fleet = @ \ {d},
                              ![r].todo = cargo]
        /\ UNCHANGED <<shipment, driver, crashes>>

\* No route is left, or OSRM cannot build the next one.
PlanEnd(r) ==
    /\ req[r].step = "planRoute"
    /\ Finish(r)
    /\ UNCHANGED <<receipt, shipment, driver, crashes>>

\* Mutation test: the filter of the updateMany is the ids alone.
ClaimableById(s) == s \in Shipments

\* The filter of the updateMany.
Claimable(s) == Unassigned(s)

PlanClaim(r, s) ==
    LET failed == req[r].failed \/ ~Claimable(s)
    IN  /\ req[r].step = "planClaim"
        /\ s \in req[r].todo
        /\ shipment' = IF Claimable(s)
                       THEN [shipment EXCEPT ![s] = AssignedTo(req[r].c, req[r].d)]
                       ELSE shipment
        /\ req' = [req EXCEPT ![r].todo = @ \ {s},
                              ![r].failed = failed,
                              ![r].step = IF req[r].todo # {s} THEN @
                                          ELSE IF failed THEN "planDelete" ELSE "planReserve"]
        /\ UNCHANGED <<receipt, driver, crashes>>

\* modifiedCount fell short: the receipt goes, what it claimed stays claimed.
PlanDelete(r) ==
    /\ req[r].step = "planDelete"
    /\ receipt' = [receipt EXCEPT ![req[r].c] = [NoReceipt EXCEPT !.status = "DELETED"]]
    /\ Finish(r)
    /\ UNCHANGED <<shipment, driver, crashes>>

PlanReserve(r) ==
    /\ req[r].step = "planReserve"
    /\ driver' = [driver EXCEPT ![req[r].d] = "ON_TRIP"]
    /\ req' = [req EXCEPT ![r].step = "planRoute", ![r].c = None, ![r].d = None]
    /\ UNCHANGED <<receipt, shipment, crashes>>

-----------------------------------------------------------------------------
(* The trip                                                                 *)

BeginDepart(r, c) ==
    /\ "depart" \in Operations
    /\ receipt[c].status = "CREATED"
    /\ Start(r, [Idle EXCEPT !.step = "departSave", !.c = c, !.seen = receipt[c]])
    /\ UNCHANGED <<receipt, shipment, driver, crashes>>

DepartSave(r) ==
    LET c == req[r].c
    IN  /\ req[r].step = "departSave"
        /\ IF Exists(c)
           THEN /\ receipt' = [receipt EXCEPT ![c].status = "IN_TRANSIT"]
                /\ req' = [req EXCEPT ![r].step = "departShipments", ![r].todo = Cargo(req[r].seen)]
           ELSE Finish(r) /\ UNCHANGED receipt
        /\ UNCHANGED <<shipment, driver, crashes>>

DepartShipments(r, s) ==
    /\ req[r].step = "departShipments"
    /\ Sweep(r, s, "idle")
    /\ shipment' = [shipment EXCEPT ![s].status = "IN_TRANSIT"]
    /\ UNCHANGED <<receipt, driver, crashes>>

BeginStart(r, c) ==
    /\ "start" \in Operations
    /\ receipt[c].status = "IN_TRANSIT"
    /\ receipt[c].optimized
    /\ ~receipt[c].started
    /\ Start(r, [Idle EXCEPT !.step = "startSave", !.c = c, !.seen = receipt[c]])
    /\ UNCHANGED <<receipt, shipment, driver, crashes>>

StartSave(r) ==
    LET c == req[r].c
    IN  /\ req[r].step = "startSave"
        /\ receipt' = IF Exists(c)
                      THEN [receipt EXCEPT ![c].started = TRUE, ![c].segment = TRUE]
                      ELSE receipt
        /\ Finish(r)
        /\ UNCHANGED <<shipment, driver, crashes>>

\* Mutation test: any pending stop may be reported.
MayArriveAnywhere(doc, b) == doc.stops[b].status = "PENDING"

\* simulateArrivalAtStop: the earlier stops are confirmed.
MayArrive(doc, b) ==
    /\ doc.stops[b].status = "PENDING"
    /\ \A e \in Before(doc, b) : Done(doc.stops[e].status)

BeginArrive(r, c, b) ==
    /\ "arrive" \in Operations
    /\ receipt[c].status = "IN_TRANSIT"
    /\ b \in Route(receipt[c])
    /\ MayArrive(receipt[c], b)
    /\ Start(r, [Idle EXCEPT !.step = "arriveSave", !.c = c, !.b = b, !.seen = receipt[c]])
    /\ UNCHANGED <<receipt, shipment, driver, crashes>>

\* Mutation test: the stops are searched in the order of the array.
SomePending(doc, b) == b \in Route(doc) /\ doc.stops[b].status = "PENDING"

\* The first pending stop in stop order.
NextPending(doc, b) ==
    /\ b \in Route(doc)
    /\ doc.stops[b].status = "PENDING"
    /\ \A e \in Before(doc, b) : doc.stops[e].status # "PENDING"

\* syncSimulation, polled by both branches: the truck may have covered the
\* segment to the next pending stop.
BeginSync(r, c, b) ==
    /\ "sync" \in Operations
    /\ receipt[c].status = "IN_TRANSIT"
    /\ receipt[c].segment
    /\ NextPending(receipt[c], b)
    /\ Start(r, [Idle EXCEPT !.step = "arriveSave", !.c = c, !.b = b, !.seen = receipt[c]])
    /\ UNCHANGED <<receipt, shipment, driver, crashes>>

\* A save that changes a stop finds its receipt in the version it loaded.
SameVersion(r) == Exists(req[r].c) /\ receipt[req[r].c].v = req[r].seen.v

\* markStopArrived
ArriveSave(r) ==
    LET c == req[r].c
        b == req[r].b
        seen == req[r].seen
    IN  /\ req[r].step = "arriveSave"
        /\ IF SameVersion(r)
           THEN /\ receipt' = [receipt EXCEPT
                                 ![c].stops[b].status = "ARRIVED",
                                 ![c].segment = Written(@, seen.segment, FALSE)]
                /\ req' = [req EXCEPT ![r].step = "arriveShipments",
                                      ![r].todo = seen.stops[b].shipmentIds]
           ELSE Finish(r) /\ UNCHANGED receipt
        /\ UNCHANGED <<shipment, driver, crashes>>

ArriveShipments(r, s) ==
    /\ req[r].step = "arriveShipments"
    /\ Sweep(r, s, "idle")
    /\ shipment' = [shipment EXCEPT ![s].status = "RECEIVED_AT_RECEIVER_WAREHOUSE"]
    /\ UNCHANGED <<receipt, driver, crashes>>

\* Mutation test: the stop being confirmed is taken for the last one.
AnyStopDone(doc, b) == b \in Route(doc)

\* allStopsDone, with the stop being confirmed.
AllStopsDone(doc, b) == \A e \in Route(doc) \ {b} : Done(doc.stops[e].status)

\* listed: missing or damaged shipments are reported; missing ones make it PARTIAL.
BeginConfirm(r, c, b, result, listed) ==
    /\ "confirm" \in Operations
    /\ b \in Route(receipt[c])
    /\ receipt[c].stops[b].status = "ARRIVED"
    /\ result = "PARTIAL" => listed
    /\ Start(r, [Idle EXCEPT
                   !.step = IF AllStopsDone(receipt[c], b) THEN "confirmRelease" ELSE "confirmSave",
                   !.c = c, !.b = b, !.result = result, !.listed = listed,
                   !.seen = receipt[c]])
    /\ UNCHANGED <<receipt, shipment, driver, crashes>>

\* The driver is free before the receipt is saved.
ConfirmRelease(r) ==
    /\ req[r].step = "confirmRelease"
    /\ driver' = [driver EXCEPT ![req[r].seen.driverId] = "AVAILABLE"]
    /\ Goto(r, "confirmSave")
    /\ UNCHANGED <<receipt, shipment, crashes>>

\* Mutation test: reporting shipments does not count as a new version.
VersionKept(version, listed) == version

\* __v after the save of a confirmation.
VersionAfter(version, listed) == IF listed THEN version + 1 ELSE version

\* What the save of a confirmation leaves of the receipt it finds.
Confirmed(doc, r) ==
    LET b == req[r].b
        seen == req[r].seen
        done == AllStopsDone(seen, b)
    IN  [doc EXCEPT
           !.status = IF done THEN Written(@, seen.status, "COMPLETED") ELSE @,
           !.stops[b] = [@ EXCEPT !.status = req[r].result, !.confirmed = TRUE],
           !.segment = IF done THEN Written(@, seen.segment, FALSE) ELSE TRUE,
           !.v = VersionAfter(@, req[r].listed)]

ConfirmSave(r) ==
    LET c == req[r].c
    IN  /\ req[r].step = "confirmSave"
        /\ receipt' = IF SameVersion(r)
                      THEN [receipt EXCEPT ![c] = Confirmed(receipt[c], r)]
                      ELSE receipt
        /\ Finish(r)
        /\ UNCHANGED <<shipment, driver, crashes>>

-----------------------------------------------------------------------------
(* Cancellation                                                             *)

BeginCancel(r, c) ==
    /\ "cancel" \in Operations
    /\ receipt[c].status = "CREATED"
    /\ Start(r, [Idle EXCEPT !.step = "cancelSave", !.c = c, !.seen = receipt[c]])
    /\ UNCHANGED <<receipt, shipment, driver, crashes>>

CancelSave(r) ==
    LET c == req[r].c
    IN  /\ req[r].step = "cancelSave"
        /\ IF Exists(c)
           THEN /\ receipt' = [receipt EXCEPT ![c].status = "CANCELLED"]
                /\ req' = [req EXCEPT ![r].step = "cancelShipments", ![r].todo = Cargo(req[r].seen)]
           ELSE Finish(r) /\ UNCHANGED receipt
        /\ UNCHANGED <<shipment, driver, crashes>>

CancelShipments(r, s) ==
    /\ req[r].step = "cancelShipments"
    /\ Sweep(r, s, "cancelRelease")
    /\ shipment' = [shipment EXCEPT ![s] = [status |-> "CREATED", receiptId |-> None,
                                            driverId |-> None]]
    /\ UNCHANGED <<receipt, driver, crashes>>

CancelRelease(r) ==
    /\ req[r].step = "cancelRelease"
    /\ driver' = [driver EXCEPT ![req[r].seen.driverId] = "AVAILABLE"]
    /\ Finish(r)
    /\ UNCHANGED <<receipt, shipment, crashes>>

-----------------------------------------------------------------------------
(* Specification                                                            *)

\* The process dies: every suspended handler is lost where it stands.
Crash ==
    /\ crashes < MaxCrashes
    /\ crashes' = crashes + 1
    /\ req' = [r \in Requests |-> Idle]
    /\ UNCHANGED <<receipt, shipment, driver>>

Orders == [Branches -> 0..Cardinality(Branches)]

Make(r) ==
    \/ \E d \in Drivers : BeginCreate(r, d)
    \/ \E load \in (SUBSET Shipments) \ {{}} : CreateCheck(r, load) \/ BeginPlan(r, load)
    \/ \E c \in Receipts, order \in Orders : CreateInsert(r, c, order)
    \/ \E s \in Shipments : CreateLink(r, s)
    \/ CreateReserve(r)
    \/ PlanFleet(r)
    \/ \E c \in Receipts, d \in Drivers, order \in Orders : PlanRoute(r, c, d, order)
    \/ PlanEnd(r)
    \/ \E s \in Shipments : PlanClaim(r, s)
    \/ PlanDelete(r)
    \/ PlanReserve(r)

Trip(r) ==
    \/ \E c \in Receipts : BeginDepart(r, c) \/ BeginStart(r, c) \/ BeginCancel(r, c)
    \/ \E c \in Receipts, b \in Branches :
           \/ BeginArrive(r, c, b)
           \/ BeginSync(r, c, b)
           \/ \E result \in {"CONFIRMED", "PARTIAL"}, listed \in BOOLEAN :
                  BeginConfirm(r, c, b, result, listed)
    \/ \E s \in Shipments : DepartShipments(r, s) \/ ArriveShipments(r, s) \/ CancelShipments(r, s)
    \/ DepartSave(r)
    \/ StartSave(r)
    \/ ArriveSave(r)
    \/ ConfirmRelease(r)
    \/ ConfirmSave(r)
    \/ CancelSave(r)
    \/ CancelRelease(r)

Next == (\E r \in Requests : Make(r) \/ Trip(r)) \/ Crash

Spec == Init /\ [][Next]_vars

-----------------------------------------------------------------------------
(* Properties                                                               *)

\* Trucks reach their stops in stop order: no stop is reported reached, by hand
\* or by the simulation, while an earlier one is still ahead, although reports
\* and confirmations are saved from receipts that others changed since.
StopsArriveInOrder ==
    \A c \in Receipts : \A b \in Route(receipt[c]) :
        receipt[c].stops[b].status # "PENDING" =>
            \A e \in Before(receipt[c], b) : receipt[c].stops[e].status # "PENDING"

\* A receipt completes only when every destination branch confirmed its own
\* stop; the branches confirm concurrently, each on the receipt it loaded.
CompletedConfirmed ==
    \A c \in Receipts :
        receipt[c].status = "COMPLETED" =>
            \A b \in Route(receipt[c]) : receipt[c].stops[b].confirmed

\* A report of missing shipments is final: no late confirmation of the same
\* stop, and no late arrival report, replaces it (confirmStop relies on the
\* version its list of missing shipments increments).
MissingReportKept ==
    [][\A c \in Receipts, b \in Branches :
          (receipt[c].stops[b].status = "PARTIAL" /\ receipt'[c].status # "DELETED")
              => receipt'[c].stops[b].status = "PARTIAL"]_vars

\* dispatch-receipt.service.ts:594, "A truck cannot continue past a stop until
\* that destination branch confirms its own delivery checklist."  Holds when
\* arrivals are reported by hand only, not with the simulation.
ConfirmedBeforeNext ==
    \A c \in Receipts : \A b \in Route(receipt[c]) :
        receipt[c].stops[b].status # "PENDING" =>
            \A e \in Before(receipt[c], b) : receipt[c].stops[e].confirmed

\* The receipt a planner has made and not yet kept or dropped.
Tentative(c) == \E r \in Requests : req[r].step \in {"planClaim", "planDelete"} /\ req[r].c = c

\* However many planners run at once, no shipment travels on two planned
\* receipts, and every receipt that is kept has all the shipments it lists.
\* Holds as long as no receipt is made by hand or cancelled.
PlannedOnce ==
    \A c \in Receipts :
        Exists(c) /\ ~Tentative(c) =>
            \A s \in Cargo(receipt[c]) : shipment[s].receiptId = c

=============================================================================
