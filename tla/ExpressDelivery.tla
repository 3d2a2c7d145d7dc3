--------------------------- MODULE ExpressDelivery ---------------------------
(***************************************************************************)
(* On-demand express delivery: src/src/modules/packages/packages.service.ts *)
(* and the driver state it shares with src/src/modules/users/users.service.ts.*)
(*                                                                         *)
(* One HTTP request is one slot of req.  A handler suspends at every await, *)
(* so it is split into one action per database round trip; what it read     *)
(* before an await and uses after it is kept in the slot (seen, me).        *)
(*                                                                         *)
(* The database gives the guarantees the code relies on, and no other:      *)
(* findOneAndUpdate, findByIdAndUpdate and updateOne test their filter and  *)
(* write atomically; document.save() writes only the paths that differ from *)
(* what the handler loaded, without testing anything (Written below), and   *)
(* fails when the document is gone; a save that replaces a whole array also *)
(* tests and increments __v.                                                *)
(***************************************************************************)
EXTENDS Integers, FiniteSets

CONSTANTS
    Packages,           \* ids of the bookings
    Drivers,            \* ids of the driver accounts
    NoDriver,           \* driverId: null
    Requests,           \* request slots: how many handlers may be suspended at once
    Operations,         \* the operations clients call in this instance
    AdminStatuses,      \* the statuses administrators force with PATCH :id/status
    Prices,             \* possible values of estimatedPrice
    BroadcastDuration,  \* BROADCAST_DURATION_MS, in clock ticks
    MaxClock,           \* bound on the clock
    MaxPayout,          \* bound: no drop-off is started for a driver paid this much
    MaxCrashes          \* bound on process crashes

ASSUME ExpressAssumption ==
    /\ NoDriver \notin Drivers
    /\ IsFiniteSet(Requests)
    /\ Drivers \cap {"absent", "open", "closed", "deleted"} = {}
    /\ Prices \subseteq Nat
    /\ BroadcastDuration \in Nat \ {0}
    /\ MaxClock \in Nat /\ MaxPayout \in Nat /\ MaxCrashes \in Nat
    /\ AdminStatuses \subseteq {"PICKED_UP", "IN_TRANSIT", "DELIVERED", "FAILED"}

VARIABLES
    clock,    \* new Date(), in ticks
    pkg,      \* the packages collection
    drv,      \* the driver documents of the users collection
    req,      \* the suspended handlers
    payouts,  \* history: what the committed deliveries entitle each driver to
    crashes   \* number of process crashes so far

vars == <<clock, pkg, drv, req, payouts, crashes>>

-----------------------------------------------------------------------------
(* Documents                                                                *)

\* BookingStatus, with the two states of an id that has no document.
Statuses ==
    {"ABSENT", "REMOVED", "PENDING", "ACCEPTED", "ARRIVED_AT_PICKUP", "PICKED_UP",
     "IN_TRANSIT", "ARRIVED_AT_DROPOFF", "DELIVERED", "CANCELLED", "FAILED"}

\* The timestamps that record the progress of a delivery.
Stamps == {"acceptedAt", "arrivedAtPickupAt", "pickedUpAt",
           "arrivedAtDropoffAt", "deliveredAt"}

\* broadcastExpiresAt: null, the value create() gives a WAREHOUSE booking.
NoExpiry == 0

PackageDoc ==
    [status : Statuses,
     serviceType : {"EXPRESS", "WAREHOUSE"},
     driverId : Drivers \cup {NoDriver},
     expiresAt : Nat,       \* broadcastExpiresAt
     attempt : Nat,         \* broadcastAttempt
     v : Nat,               \* __v
     phase : BOOLEAN,       \* simulationPhaseStartedAt is set
     stamps : SUBSET Stamps,
     paid : BOOLEAN,        \* payment.status = PAID
     price : Prices \cup {0}]

NoPackage(status) ==
    [status |-> status, serviceType |-> "EXPRESS", driverId |-> NoDriver,
     expiresAt |-> NoExpiry, attempt |-> 0, v |-> 0, phase |-> FALSE,
     stamps |-> {}, paid |-> FALSE, price |-> 0]

\* OFFLINE stands for ON_BREAK and UNAVAILABLE too: no guard tells them apart.
Availability == {"OFFLINE", "AVAILABLE", "ON_TRIP"}

DriverDoc ==
    [availability : Availability,  \* availabilityStatus
     online : BOOLEAN,             \* driverProfile.isOnline
     balance : Nat]                \* driverProfile.balance, in units of 95 % of a price

NewDriver == [availability |-> "OFFLINE", online |-> FALSE, balance |-> 0]

Exists(p) == pkg[p].status \notin {"ABSENT", "REMOVED"}

\* What document.save() leaves in a path: a path that still has its loaded
\* value is not part of the update.
Written(current, loaded, assigned) == IF assigned = loaded THEN current ELSE assigned

-----------------------------------------------------------------------------
(* Suspended handlers                                                       *)

Steps ==
    {"idle", "acceptFind", "acceptReserve", "acceptClaim", "release",
     "retrySave", "updateSave", "cancelWrite", "syncSave", "verifySave",
     "statusSave", "payLoad", "paySave", "onlineSave", "availabilitySave"}

Targets == Statuses \cup Availability \cup {"none", "PICKUP", "DROPOFF"}

RequestState ==
    [step : Steps,                     \* what the handler does when it resumes
     p : Packages \cup {"none"},
     d : Drivers \cup {NoDriver},      \* the driver it acts for
     at : Nat,                         \* the Date it captured
     to : Targets,                     \* the value it was asked to set
     seen : PackageDoc,                \* the package document it loaded
     me : DriverDoc]                   \* the driver document it loaded

Idle == [step |-> "idle", p |-> "none", d |-> NoDriver, at |-> 0, to |-> "none",
         seen |-> NoPackage("ABSENT"), me |-> NewDriver]

Start(r, state) == req[r].step = "idle" /\ req' = [req EXCEPT ![r] = state]
Goto(r, step) == req' = [req EXCEPT ![r].step = step]
Finish(r) == req' = [req EXCEPT ![r] = Idle]

TypeOK ==
    /\ clock \in 0..MaxClock
    /\ pkg \in [Packages -> PackageDoc]
    /\ drv \in [Drivers -> DriverDoc]
    /\ req \in [Requests -> RequestState]
    /\ payouts \in [Drivers -> Nat]
    /\ crashes \in 0..MaxCrashes

Init ==
    /\ clock = 0
    /\ pkg = [p \in Packages |-> NoPackage("ABSENT")]
    /\ drv \in [Drivers -> {NewDriver,
                            [NewDriver EXCEPT !.availability = "AVAILABLE", !.online = TRUE]}]
    /\ req = [r \in Requests |-> Idle]
    /\ payouts = [d \in Drivers |-> 0]
    /\ crashes = 0

-----------------------------------------------------------------------------
(* Booking                                                                  *)

\* create(): one insert; only an EXPRESS booking is broadcast.
Create(p, service, price) ==
    /\ "create" \in Operations
    /\ pkg[p].status = "ABSENT"
    /\ pkg' = [pkg EXCEPT ![p] =
                 [NoPackage("PENDING") EXCEPT
                    !.serviceType = service,
                    !.expiresAt = IF service = "EXPRESS" THEN clock + BroadcastDuration
                                                         ELSE NoExpiry,
                    !.attempt = IF service = "EXPRESS" THEN 1 ELSE 0,
                    !.price = price]]
    /\ UNCHANGED <<clock, drv, req, payouts, crashes>>

\* remove(): findByIdAndDelete, whatever the status.
Remove(p) ==
    /\ "remove" \in Operations
    /\ Exists(p)
    /\ pkg' = [pkg EXCEPT ![p] = NoPackage("REMOVED")]
    /\ UNCHANGED <<clock, drv, req, payouts, crashes>>

\* assertPending, on the document the handler loaded.
Editable(p) == pkg[p].status = "PENDING"

BeginUpdate(r, p) ==
    /\ "update" \in Operations
    /\ Editable(p)
    /\ Start(r, [Idle EXCEPT !.step = "updateSave", !.p = p, !.seen = pkg[p]])
    /\ UNCHANGED <<clock, pkg, drv, payouts, crashes>>

\* update() saves the new price and, when the payment is edited, the whole
\* payment subdocument it loaded, payment.status included.
UpdateSave(r, price, editsPayment) ==
    LET p == req[r].p
        seen == req[r].seen
    IN  /\ req[r].step = "updateSave"
        /\ pkg' = IF Exists(p)
                  THEN [pkg EXCEPT
                          ![p].price = Written(@, seen.price, price),
                          ![p].paid = IF editsPayment THEN seen.paid ELSE @]
                  ELSE pkg
        /\ Finish(r)
        /\ UNCHANGED <<clock, drv, payouts, crashes>>

BeginCancel(r, p) ==
    /\ "cancel" \in Operations
    /\ Editable(p)
    /\ Start(r, [Idle EXCEPT !.step = "cancelWrite", !.p = p])
    /\ UNCHANGED <<clock, pkg, drv, payouts, crashes>>

\* findByIdAndUpdate: no status in its filter, and the driver is left alone.
CancelWrite(r) ==
    LET p == req[r].p
    IN  /\ req[r].step = "cancelWrite"
        /\ pkg' = IF Exists(p) THEN [pkg EXCEPT ![p].status = "CANCELLED"] ELSE pkg
        /\ Finish(r)
        /\ UNCHANGED <<clock, drv, payouts, crashes>>

\* retryBroadcast: an unmatched express booking whose window has closed.
CanRetry(p) ==
    /\ pkg[p].serviceType # "WAREHOUSE"
    /\ pkg[p].status = "PENDING"
    /\ pkg[p].driverId = NoDriver
    /\ pkg[p].expiresAt <= clock

BeginRetry(r, p) ==
    /\ "retry" \in Operations
    /\ CanRetry(p)
    /\ Start(r, [Idle EXCEPT !.step = "retrySave", !.p = p, !.at = clock, !.seen = pkg[p]])
    /\ UNCHANGED <<clock, pkg, drv, payouts, crashes>>

\* The save tests and increments __v when the list of nearby drivers changed,
\* because it then replaces the array broadcastDriverIds.
RetrySave(r, listChanged) ==
    LET p == req[r].p
        seen == req[r].seen
        saved == Exists(p) /\ (listChanged => pkg[p].v = seen.v)
    IN  /\ req[r].step = "retrySave"
        /\ pkg' = IF saved
                  THEN [pkg EXCEPT
                          ![p].expiresAt = req[r].at + BroadcastDuration,
                          ![p].attempt = seen.attempt + 1,
                          ![p].v = IF listChanged THEN @ + 1 ELSE @]
                  ELSE pkg
        /\ Finish(r)
        /\ UNCHANGED <<clock, drv, payouts, crashes>>

-----------------------------------------------------------------------------
(* Acceptance: acceptPackage                                                *)

\* getAvailableExpressDriver
AvailableExpressDriver(d) == drv[d].online /\ drv[d].availability = "AVAILABLE"

BeginAccept(r, p, d) ==
    /\ "accept" \in Operations
    /\ AvailableExpressDriver(d)
    /\ Start(r, [Idle EXCEPT !.step = "acceptFind", !.p = p, !.d = d])
    /\ UNCHANGED <<clock, pkg, drv, payouts, crashes>>

\* Mutation test: findByIdAndUpdate, as cancel() does it.
CanClaimById(p, t) == Exists(p) /\ t \in Nat

\* The filter of the lookup (t: now) and of the claim (t: acceptedAt).
CanClaim(p, t) ==
    /\ pkg[p].status = "PENDING"
    /\ pkg[p].driverId = NoDriver
    /\ pkg[p].serviceType # "WAREHOUSE"
    /\ pkg[p].expiresAt > t \/ pkg[p].expiresAt = NoExpiry

AcceptFind(r) ==
    /\ req[r].step = "acceptFind"
    /\ IF CanClaim(req[r].p, clock)
       THEN req' = [req EXCEPT ![r].step = "acceptReserve", ![r].at = clock]
       ELSE Finish(r)
    /\ UNCHANGED <<clock, pkg, drv, payouts, crashes>>

\* Mutation test: the reservation forgets the availability.
CanReserveOnline(d) == drv[d].online

\* The filter of the reservation.
CanReserve(d) == drv[d].availability = "AVAILABLE" /\ drv[d].online

\* acceptedAt is captured after the two route requests, any time since the
\* lookup; a route that cannot be computed ends the request.
AcceptReserve(r) ==
    LET d == req[r].d
    IN  /\ req[r].step = "acceptReserve"
        /\ \/ /\ CanReserve(d)
              /\ drv' = [drv EXCEPT ![d].availability = "ON_TRIP"]
              /\ \E acceptedAt \in req[r].at..clock :
                     req' = [req EXCEPT ![r].step = "acceptClaim", ![r].at = acceptedAt]
           \/ UNCHANGED drv /\ Finish(r)
        /\ UNCHANGED <<clock, pkg, payouts, crashes>>

AcceptClaim(r) ==
    LET p == req[r].p
    IN  /\ req[r].step = "acceptClaim"
        /\ CanClaim(p, req[r].at)
        /\ pkg' = [pkg EXCEPT ![p].status = "ACCEPTED",
                              ![p].driverId = req[r].d,
                              ![p].stamps = @ \cup {"acceptedAt"},
                              ![p].phase = TRUE]
        /\ Finish(r)
        /\ UNCHANGED <<clock, drv, payouts, crashes>>

\* Mutation test: the lost race is reported and the driver stays reserved.
AcceptLoseUnreleased(r) ==
    /\ req[r].step = "acceptClaim"
    /\ Finish(r)
    /\ UNCHANGED <<clock, pkg, drv, payouts, crashes>>

\* Someone was faster, or the update threw: the catch block and the null
\* check both release the reservation.
AcceptLose(r) ==
    /\ req[r].step = "acceptClaim"
    /\ Goto(r, "release")
    /\ UNCHANGED <<clock, pkg, drv, payouts, crashes>>

\* releaseReservedDriver: updateOne filtered on ON_TRIP, for whoever it is.
Release(r) ==
    LET d == req[r].d
    IN  /\ req[r].step = "release"
        /\ drv' = [drv EXCEPT ![d].availability = IF @ = "ON_TRIP" THEN "AVAILABLE" ELSE @]
        /\ Finish(r)
        /\ UNCHANGED <<clock, pkg, payouts, crashes>>

-----------------------------------------------------------------------------
(* The trip                                                                 *)

\* The status advanceSimulation moves a leg to.
Arrival(status) ==
    IF status = "ACCEPTED" THEN "ARRIVED_AT_PICKUP" ELSE "ARRIVED_AT_DROPOFF"

ArrivalStamp(status) ==
    IF status = "ACCEPTED" THEN "arrivedAtPickupAt" ELSE "arrivedAtDropoffAt"

\* syncSimulation and findRecipientTracking, polled by customer, driver and
\* recipient: a leg in progress whose duration has elapsed.  Before that the
\* save only moves simulationProgress, which nothing here depends on.
BeginSync(r, p) ==
    /\ "sync" \in Operations
    /\ pkg[p].status \in {"ACCEPTED", "IN_TRANSIT"}
    /\ pkg[p].phase
    /\ Start(r, [Idle EXCEPT !.step = "syncSave", !.p = p, !.seen = pkg[p]])
    /\ UNCHANGED <<clock, pkg, drv, payouts, crashes>>

SyncSave(r) ==
    LET p == req[r].p
        leg == req[r].seen.status
    IN  /\ req[r].step = "syncSave"
        /\ pkg' = IF Exists(p)
                  THEN [pkg EXCEPT ![p].status = Arrival(leg),
                                   ![p].stamps = @ \cup {ArrivalStamp(leg)},
                                   ![p].phase = FALSE]
                  ELSE pkg
        /\ Finish(r)
        /\ UNCHANGED <<clock, drv, payouts, crashes>>

\* Mutation test: a scan is accepted on the way as well.
MayScanEarly(purpose, status) ==
    status \in IF purpose = "PICKUP" THEN {"ACCEPTED", "ARRIVED_AT_PICKUP"}
                                    ELSE {"IN_TRANSIT", "ARRIVED_AT_DROPOFF"}

\* verifyExpressDelivery requires the arrival that precedes the scan.
MayScan(purpose, status) ==
    status = IF purpose = "PICKUP" THEN "ARRIVED_AT_PICKUP" ELSE "ARRIVED_AT_DROPOFF"

\* By the assigned driver, or by an administrator whether there is one or not.
BeginVerify(r, p, purpose) ==
    /\ purpose \in Operations
    /\ MayScan(purpose, pkg[p].status)
    /\ (purpose = "DROPOFF" /\ pkg[p].driverId # NoDriver)
           => payouts[pkg[p].driverId] < MaxPayout
    /\ Start(r, [Idle EXCEPT !.step = "verifySave", !.p = p, !.d = pkg[p].driverId,
                             !.to = purpose, !.seen = pkg[p]])
    /\ UNCHANGED <<clock, pkg, drv, payouts, crashes>>

\* Mutation test: the payout no longer depends on the status.
AfterAnyStatus(status, d) ==
    IF d # NoDriver /\ status \in Statuses THEN "payLoad" ELSE "idle"

\* What a saved delivery status leads to: the payout of a delivery, the
\* release of the driver of a failed one.
AfterStatus(status, d) ==
    CASE status = "DELIVERED" /\ d # NoDriver -> "payLoad"
      [] status = "FAILED" /\ d # NoDriver -> "release"
      [] OTHER -> "idle"

\* The request goes on to the step, or ends.
Continue(r, step) == IF step = "idle" THEN Finish(r) ELSE Goto(r, step)

Entitle(d, price) ==
    payouts' = IF d = NoDriver THEN payouts ELSE [payouts EXCEPT ![d] = @ + price]

VerifyPickup(r) ==
    LET p == req[r].p
    IN  /\ req[r].step = "verifySave" /\ req[r].to = "PICKUP"
        /\ pkg' = IF Exists(p)
                  THEN [pkg EXCEPT ![p].status = "IN_TRANSIT",
                                   ![p].stamps = @ \cup {"pickedUpAt"},
                                   ![p].phase = TRUE]
                  ELSE pkg
        /\ Finish(r)
        /\ UNCHANGED <<clock, drv, payouts, crashes>>

VerifyDropoff(r) ==
    LET p == req[r].p
        seen == req[r].seen
    IN  /\ req[r].step = "verifySave" /\ req[r].to = "DROPOFF"
        /\ IF Exists(p)
           THEN /\ pkg' = [pkg EXCEPT ![p].status = "DELIVERED",
                                      ![p].stamps = @ \cup {"deliveredAt"},
                                      ![p].phase = Written(@, seen.phase, FALSE),
                                      ![p].paid = Written(@, seen.paid, TRUE)]
                /\ Entitle(req[r].d, seen.price)
                /\ Continue(r, AfterStatus("DELIVERED", req[r].d))
           ELSE UNCHANGED <<pkg, payouts>> /\ Finish(r)
        /\ UNCHANGED <<clock, drv, crashes>>

\* updateStatus: administrators from any status to AdminStatuses, the assigned
\* driver from any status to FAILED.
BeginUpdateStatus(r, p, status) ==
    /\ "updateStatus" \in Operations
    /\ Exists(p)
    /\ \/ status \in AdminStatuses
       \/ status = "FAILED" /\ pkg[p].driverId # NoDriver
    /\ (status = "DELIVERED" /\ pkg[p].driverId # NoDriver)
           => payouts[pkg[p].driverId] < MaxPayout
    /\ Start(r, [Idle EXCEPT !.step = "statusSave", !.p = p, !.d = pkg[p].driverId,
                             !.to = status, !.seen = pkg[p]])
    /\ UNCHANGED <<clock, pkg, drv, payouts, crashes>>

StatusSave(r) ==
    LET p == req[r].p
        d == req[r].d
        seen == req[r].seen
        status == req[r].to
    IN  /\ req[r].step = "statusSave"
        /\ IF Exists(p)
           THEN /\ pkg' = [pkg EXCEPT
                             ![p].status = Written(@, seen.status, status),
                             ![p].phase = IF status = "FAILED" THEN Written(@, seen.phase, FALSE)
                                                               ELSE @]
                /\ IF status = "DELIVERED" THEN Entitle(d, seen.price) ELSE UNCHANGED payouts
                /\ Continue(r, AfterStatus(status, d))
           ELSE UNCHANGED <<pkg, payouts>> /\ Finish(r)
        /\ UNCHANGED <<clock, drv, crashes>>

\* completeDriverTrip: read the driver, then write the whole driverProfile back.
PayLoad(r) ==
    /\ req[r].step = "payLoad"
    /\ req' = [req EXCEPT ![r].step = "paySave", ![r].me = drv[req[r].d]]
    /\ UNCHANGED <<clock, pkg, drv, payouts, crashes>>

\* Mutation test: the payout is taken from the driver.
Debited(balance, price) == balance - price

\* The balance a payout writes.
Credited(balance, price) == balance + price

PaySave(r) ==
    LET d == req[r].d
        me == req[r].me
    IN  /\ req[r].step = "paySave"
        /\ drv' = [drv EXCEPT
                     ![d].balance = Credited(me.balance, req[r].seen.price),
                     ![d].online = TRUE,
                     ![d].availability = Written(@, me.availability, "AVAILABLE")]
        /\ Finish(r)
        /\ UNCHANGED <<clock, pkg, payouts, crashes>>

-----------------------------------------------------------------------------
(* The driver's own state: users.service.ts                                 *)

\* updateDriverStatus refuses to go offline during a trip.
MaySwitch(d, to) == to = "OFFLINE" => drv[d].availability # "ON_TRIP"

BeginDriverStatus(r, d, to) ==
    /\ "driverStatus" \in Operations
    /\ MaySwitch(d, to)
    /\ Start(r, [Idle EXCEPT !.step = "onlineSave", !.d = d, !.to = to, !.me = drv[d]])
    /\ UNCHANGED <<clock, pkg, drv, payouts, crashes>>

\* markModified('driverProfile'): the balance loaded is written back as well.
\* A request that only reports a location ("none") writes isOnline back too.
DriverStatusSave(r) ==
    LET d == req[r].d
        me == req[r].me
        to == req[r].to
    IN  /\ req[r].step = "onlineSave"
        /\ drv' = [drv EXCEPT
                     ![d].balance = me.balance,
                     ![d].online = IF to = "none" THEN me.online ELSE to = "AVAILABLE",
                     ![d].availability = IF to = "none" THEN @
                                         ELSE Written(@, me.availability, to)]
        /\ Finish(r)
        /\ UNCHANGED <<clock, pkg, payouts, crashes>>

\* updateDriverAvailabilityStatus: any value at any time.
BeginAvailability(r, d, to) ==
    /\ "availability" \in Operations
    /\ Start(r, [Idle EXCEPT !.step = "availabilitySave", !.d = d, !.to = to, !.me = drv[d]])
    /\ UNCHANGED <<clock, pkg, drv, payouts, crashes>>

AvailabilitySave(r) ==
    LET d == req[r].d
    IN  /\ req[r].step = "availabilitySave"
        /\ drv' = [drv EXCEPT
                     ![d].availability = Written(@, req[r].me.availability, req[r].to)]
        /\ Finish(r)
        /\ UNCHANGED <<clock, pkg, payouts, crashes>>

-----------------------------------------------------------------------------
(* Time and crashes                                                         *)

Tick ==
    /\ clock < MaxClock
    /\ clock' = clock + 1
    /\ UNCHANGED <<pkg, drv, req, payouts, crashes>>

\* The process dies: every suspended handler is lost where it stands.
Crash ==
    /\ crashes < MaxCrashes
    /\ crashes' = crashes + 1
    /\ req' = [r \in Requests |-> Idle]
    /\ UNCHANGED <<clock, pkg, drv, payouts>>

-----------------------------------------------------------------------------
(* Specification                                                            *)

Begin(r) ==
    \/ \E p \in Packages :
           \/ BeginUpdate(r, p)
           \/ BeginCancel(r, p)
           \/ BeginRetry(r, p)
           \/ \E d \in Drivers : BeginAccept(r, p, d)
           \/ BeginSync(r, p)
           \/ \E purpose \in {"PICKUP", "DROPOFF"} : BeginVerify(r, p, purpose)
           \/ \E status \in {"PICKED_UP", "IN_TRANSIT", "DELIVERED", "FAILED"} :
                  BeginUpdateStatus(r, p, status)
    \/ \E d \in Drivers :
           \/ \E to \in {"AVAILABLE", "OFFLINE", "none"} : BeginDriverStatus(r, d, to)
           \/ \E to \in Availability : BeginAvailability(r, d, to)

\* The handler in slot r resumes.
Resume(r) ==
    \/ \E price \in Prices, editsPayment \in BOOLEAN : UpdateSave(r, price, editsPayment)
    \/ CancelWrite(r)
    \/ \E listChanged \in BOOLEAN : RetrySave(r, listChanged)
    \/ AcceptFind(r)
    \/ AcceptReserve(r)
    \/ AcceptClaim(r)
    \/ AcceptLose(r)
    \/ Release(r)
    \/ SyncSave(r)
    \/ VerifyPickup(r)
    \/ VerifyDropoff(r)
    \/ StatusSave(r)
    \/ PayLoad(r)
    \/ PaySave(r)
    \/ DriverStatusSave(r)
    \/ AvailabilitySave(r)

Next ==
    \/ \E p \in Packages, service \in {"EXPRESS", "WAREHOUSE"}, price \in Prices :
           Create(p, service, price)
    \/ \E p \in Packages : Remove(p)
    \/ \E r \in Requests : Begin(r) \/ Resume(r)
    \/ Tick
    \/ Crash

Spec == Init /\ [][Next]_vars

\* A handler whose database call returned is resumed by the event loop.
FairSpec == Spec /\ \A r \in Requests : WF_vars(Resume(r))

-----------------------------------------------------------------------------
(* Properties                                                               *)

\* What the documents say of each booking, in the terms of DeliveryClaim.
ClaimOf(p) ==
    CASE pkg[p].status = "ABSENT" -> "absent"
      [] pkg[p].status = "REMOVED" -> "deleted"
      [] OTHER -> IF pkg[p].driverId # NoDriver THEN pkg[p].driverId
                  ELSE IF pkg[p].status = "PENDING" THEN "open" ELSE "closed"

claimMap == [p \in Packages |-> ClaimOf(p)]

Claims == INSTANCE DeliveryClaim WITH claim <- claimMap

\* Matching keeps its promise whatever the handlers interleave: a booking is
\* claimed by at most one driver and never handed to another, a booking that
\* was cancelled or failed before it was claimed is never claimed afterwards.
\* acceptPackage checks long before it writes; only the filter of its last
\* update (packages.service.ts:515) stands between two drivers.
ClaimSpec == Claims!Spec

\* The stamps that precede each status of a delivery.
RequiredStamps ==
    [ACCEPTED |-> {"acceptedAt"},
     ARRIVED_AT_PICKUP |-> {"acceptedAt", "arrivedAtPickupAt"},
     IN_TRANSIT |-> {"acceptedAt", "arrivedAtPickupAt", "pickedUpAt"},
     ARRIVED_AT_DROPOFF |-> Stamps \ {"deliveredAt"},
     DELIVERED |-> Stamps]

\* Every hand-over is proved by the scans that lead to it: no booking is in
\* transit before its pick-up QR code was scanned, or delivered, or paid,
\* before both were, and none of it happens without a driver; although every
\* save of the trip writes a status computed from a document that others have
\* changed since.  Holds while administrators force no status but FAILED.
HandoverChain ==
    \A p \in Packages :
        /\ pkg[p].status \in DOMAIN RequiredStamps =>
               /\ RequiredStamps[pkg[p].status] \subseteq pkg[p].stamps
               /\ pkg[p].driverId # NoDriver
        /\ pkg[p].paid => pkg[p].stamps = Stamps

\* The driver whose reservation the handler r holds.
Holds(r, d) == req[r].step \in {"acceptClaim", "release"} /\ req[r].d = d

\* Until the drop-off no driver carries two bookings, and no compensation of a
\* lost race sets free a driver who carries one: a driver has at most one of a
\* reservation in flight and a booking.
NoDoubleBooking ==
    \A d \in Drivers :
        /\ \A p, q \in Packages : pkg[p].driverId = d /\ pkg[q].driverId = d => p = q
        /\ \A r, s \in Requests : Holds(r, d) /\ Holds(s, d) => r = s
        /\ \A r \in Requests, p \in Packages : ~(Holds(r, d) /\ pkg[p].driverId = d)

\* ON_TRIP is never a leftover: a reserved driver carries a booking or is about
\* to, or to be released.  Holds as long as no process dies in between and no
\* booking is hard-deleted.
ReservationAccounted ==
    \A d \in Drivers :
        (drv[d].availability = "ON_TRIP") <=>
            \/ \E p \in Packages : pkg[p].driverId = d
            \/ \E r \in Requests : Holds(r, d)

\* A driver reserved for a booking ends up with a booking or available again.
ReservationResolved ==
    \A d \in Drivers :
        drv[d].availability = "ON_TRIP" ~>
            \/ drv[d].availability = "AVAILABLE"
            \/ \E p \in Packages : pkg[p].driverId = d

\* Drivers are never paid for more than the deliveries that were committed for
\* them, although payouts and status changes each write back a balance they
\* read earlier.  (Less is possible: the later of two writes wins.)
NoUnearnedBalance == \A d \in Drivers : drv[d].balance <= payouts[d]

-----------------------------------------------------------------------------
(* What the repository's documents say, and the code does not do            *)

\* PACKAGES_API_DOCUMENTATION.md:313, "Cannot cancel once ASSIGNED or IN_TRANSIT".
CancelOnlyUnassigned ==
    [][\A p \in Packages :
          (pkg[p].status # "CANCELLED" /\ pkg'[p].status = "CANCELLED")
              => pkg[p].status = "PENDING"]_vars

\* users.service.ts:234, "An active delivery must be completed before going offline."
OfflineOnlyBetweenDeliveries ==
    \A d \in Drivers :
        drv[d].availability = "OFFLINE" =>
            \A p \in Packages :
                pkg[p].driverId = d =>
                    pkg[p].status \notin {"ACCEPTED", "ARRIVED_AT_PICKUP", "IN_TRANSIT",
                                         "ARRIVED_AT_DROPOFF"}

=============================================================================
