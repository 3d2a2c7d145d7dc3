------------------------ MODULE ExpressDeliveryProofs ------------------------
(***************************************************************************)
(* Machine-checked theorems about ExpressDelivery, for every set of         *)
(* bookings, drivers, request slots and operations.                         *)
(***************************************************************************)
EXTENDS ExpressDelivery, SumProofs, TLAPS

-----------------------------------------------------------------------------
(* Types.  TypeOK alone is not inductive: a suspended handler acts on the   *)
(* booking or the driver it was started for, never on a default.            *)

PackageSteps == {"acceptFind", "acceptReserve", "acceptClaim", "retrySave", "updateSave",
                 "cancelWrite", "syncSave", "verifySave", "statusSave"}

DriverSteps == {"acceptFind", "acceptReserve", "acceptClaim", "release", "payLoad",
                "paySave", "onlineSave", "availabilitySave"}

ForcedStatuses == {"PICKED_UP", "IN_TRANSIT", "DELIVERED", "FAILED"}

\* What updateDriverStatus and updateDriverAvailabilityStatus are asked to set.
Switches(step) == IF step = "onlineSave" THEN Availability \cup {"none"} ELSE Availability

SlotOK ==
    \A r \in Requests :
        /\ req[r].step \in PackageSteps => req[r].p \in Packages
        /\ req[r].step \in DriverSteps => req[r].d \in Drivers
        /\ req[r].step = "statusSave" => req[r].to \in ForcedStatuses
        /\ req[r].step \in {"onlineSave", "availabilitySave"} => req[r].to \in Switches(req[r].step)

TypeInv == TypeOK /\ SlotOK

LEMMA NoPackageType ==
    ASSUME NEW status \in Statuses
    PROVE  NoPackage(status) \in PackageDoc
BY DEF NoPackage, PackageDoc, Stamps, NoExpiry

LEMMA NewDriverType == NewDriver \in DriverDoc
BY DEF NewDriver, DriverDoc, Availability

LEMMA IdleType == Idle \in RequestState /\ Idle.step = "idle"
<1>1. "ABSENT" \in Statuses /\ "none" \in Targets /\ "idle" \in Steps
  BY DEF Statuses, Targets, Steps
<1>2. NoPackage("ABSENT") \in PackageDoc
  BY <1>1, NoPackageType
<1> QED
  BY <1>1, <1>2, NewDriverType DEF Idle, RequestState

LEMMA FinishType ==
    ASSUME TypeInv, NEW r \in Requests, Finish(r)
    PROVE  req' \in [Requests -> RequestState] /\ SlotOK'
BY IdleType DEF TypeInv, TypeOK, SlotOK, Finish, PackageSteps, DriverSteps

LEMMA StartType ==
    ASSUME TypeInv, NEW r \in Requests, NEW state \in RequestState, Start(r, state),
           state.step \in PackageSteps => state.p \in Packages,
           state.step \in DriverSteps => state.d \in Drivers,
           state.step = "statusSave" => state.to \in ForcedStatuses,
           state.step \in {"onlineSave", "availabilitySave"} => state.to \in Switches(state.step)
    PROVE  req' \in [Requests -> RequestState] /\ SlotOK'
BY DEF TypeInv, TypeOK, SlotOK, Start

LEMMA GotoType ==
    ASSUME TypeInv, NEW r \in Requests, NEW step \in Steps, Goto(r, step),
           step \in PackageSteps => req[r].p \in Packages,
           step \in DriverSteps => req[r].d \in Drivers,
           step \notin {"statusSave", "onlineSave", "availabilitySave"}
    PROVE  req' \in [Requests -> RequestState] /\ SlotOK'
BY DEF TypeInv, TypeOK, SlotOK, Goto, RequestState

\* The handlers that only start: what they keep is what they loaded.
LEMMA BeginType ==
    ASSUME TypeInv, NEW r \in Requests, Begin(r)
    PROVE  TypeInv'
<1>1. ASSUME NEW state \in RequestState, Start(r, state),
             state.step \in PackageSteps => state.p \in Packages,
             state.step \in DriverSteps => state.d \in Drivers,
             state.step = "statusSave" => state.to \in ForcedStatuses,
             state.step \in {"onlineSave", "availabilitySave"} => state.to \in Switches(state.step),
             UNCHANGED <<clock, pkg, drv, payouts, crashes>>
      PROVE  TypeInv'
  BY <1>1, StartType DEF TypeInv, TypeOK
<1>2. ASSUME NEW p \in Packages PROVE pkg[p] \in PackageDoc
  BY DEF TypeInv, TypeOK
<1>3. ASSUME NEW d \in Drivers PROVE drv[d] \in DriverDoc
  BY DEF TypeInv, TypeOK
<1>4. clock \in Nat
  BY ExpressAssumption DEF TypeInv, TypeOK
<1> USE IdleType, <1>2, <1>3, <1>4
    DEF RequestState, Steps, Targets, PackageSteps, DriverSteps
<1>5. ASSUME NEW p \in Packages, BeginUpdate(r, p)
      PROVE  TypeInv'
  <2> DEFINE state == [Idle EXCEPT !.step = "updateSave", !.p = p, !.seen = pkg[p]]
  <2>1. Start(r, state) /\ UNCHANGED <<clock, pkg, drv, payouts, crashes>>
    BY <1>5 DEF BeginUpdate
  <2>2. /\ state \in RequestState
        /\ state.step \in PackageSteps => state.p \in Packages
        /\ state.step \in DriverSteps => state.d \in Drivers
        /\ state.step = "statusSave" => state.to \in ForcedStatuses
        /\ state.step \in {"onlineSave", "availabilitySave"} => state.to \in Switches(state.step)
    BY <1>5 DEF BeginUpdate
  <2> HIDE DEF state
  <2> QED BY <1>1, <2>1, <2>2
<1>6. ASSUME NEW p \in Packages, BeginCancel(r, p)
      PROVE  TypeInv'
  <2> DEFINE state == [Idle EXCEPT !.step = "cancelWrite", !.p = p]
  <2>1. Start(r, state) /\ UNCHANGED <<clock, pkg, drv, payouts, crashes>>
    BY <1>6 DEF BeginCancel
  <2>2. /\ state \in RequestState
        /\ state.step \in PackageSteps => state.p \in Packages
        /\ state.step \in DriverSteps => state.d \in Drivers
        /\ state.step = "statusSave" => state.to \in ForcedStatuses
        /\ state.step \in {"onlineSave", "availabilitySave"} => state.to \in Switches(state.step)
    BY <1>6 DEF BeginCancel
  <2> HIDE DEF state
  <2> QED BY <1>1, <2>1, <2>2
<1>7. ASSUME NEW p \in Packages, BeginRetry(r, p)
      PROVE  TypeInv'
  <2> DEFINE state == [Idle EXCEPT !.step = "retrySave", !.p = p, !.at = clock, !.seen = pkg[p]]
  <2>1. Start(r, state) /\ UNCHANGED <<clock, pkg, drv, payouts, crashes>>
    BY <1>7 DEF BeginRetry
  <2>2. /\ state \in RequestState
        /\ state.step \in PackageSteps => state.p \in Packages
        /\ state.step \in DriverSteps => state.d \in Drivers
        /\ state.step = "statusSave" => state.to \in ForcedStatuses
        /\ state.step \in {"onlineSave", "availabilitySave"} => state.to \in Switches(state.step)
    BY <1>7 DEF BeginRetry
  <2> HIDE DEF state
  <2> QED BY <1>1, <2>1, <2>2
<1>8. ASSUME NEW p \in Packages, NEW d \in Drivers, BeginAccept(r, p, d)
      PROVE  TypeInv'
  <2> DEFINE state == [Idle EXCEPT !.step = "acceptFind", !.p = p, !.d = d]
  <2>1. Start(r, state) /\ UNCHANGED <<clock, pkg, drv, payouts, crashes>>
    BY <1>8 DEF BeginAccept
  <2>2. /\ state \in RequestState
        /\ state.step \in PackageSteps => state.p \in Packages
        /\ state.step \in DriverSteps => state.d \in Drivers
        /\ state.step = "statusSave" => state.to \in ForcedStatuses
        /\ state.step \in {"onlineSave", "availabilitySave"} => state.to \in Switches(state.step)
    BY <1>8 DEF BeginAccept
  <2> HIDE DEF state
  <2> QED BY <1>1, <2>1, <2>2
<1>9. ASSUME NEW p \in Packages, BeginSync(r, p)
      PROVE  TypeInv'
  <2> DEFINE state == [Idle EXCEPT !.step = "syncSave", !.p = p, !.seen = pkg[p]]
  <2>1. Start(r, state) /\ UNCHANGED <<clock, pkg, drv, payouts, crashes>>
    BY <1>9 DEF BeginSync
  <2>2. /\ state \in RequestState
        /\ state.step \in PackageSteps => state.p \in Packages
        /\ state.step \in DriverSteps => state.d \in Drivers
        /\ state.step = "statusSave" => state.to \in ForcedStatuses
        /\ state.step \in {"onlineSave", "availabilitySave"} => state.to \in Switches(state.step)
    BY <1>9 DEF BeginSync
  <2> HIDE DEF state
  <2> QED BY <1>1, <2>1, <2>2
<1>10. ASSUME NEW p \in Packages, NEW purpose \in {"PICKUP", "DROPOFF"},
              BeginVerify(r, p, purpose)
      PROVE  TypeInv'
  <2> DEFINE state == [Idle EXCEPT !.step = "verifySave", !.p = p, !.d = pkg[p].driverId,
                              !.to = purpose, !.seen = pkg[p]]
  <2>1. Start(r, state) /\ UNCHANGED <<clock, pkg, drv, payouts, crashes>>
    BY <1>10 DEF BeginVerify
  <2>2. /\ state \in RequestState
        /\ state.step \in PackageSteps => state.p \in Packages
        /\ state.step \in DriverSteps => state.d \in Drivers
        /\ state.step = "statusSave" => state.to \in ForcedStatuses
        /\ state.step \in {"onlineSave", "availabilitySave"} => state.to \in Switches(state.step)
    BY <1>10 DEF BeginVerify, PackageDoc
  <2> HIDE DEF state
  <2> QED BY <1>1, <2>1, <2>2
<1>11. ASSUME NEW p \in Packages,
              NEW status \in {"PICKED_UP", "IN_TRANSIT", "DELIVERED", "FAILED"},
              BeginUpdateStatus(r, p, status)
      PROVE  TypeInv'
  <2> DEFINE state == [Idle EXCEPT !.step = "statusSave", !.p = p, !.d = pkg[p].driverId,
                              !.to = status, !.seen = pkg[p]]
  <2>1. Start(r, state) /\ UNCHANGED <<clock, pkg, drv, payouts, crashes>>
    BY <1>11 DEF BeginUpdateStatus
  <2>2. /\ state \in RequestState
        /\ state.step \in PackageSteps => state.p \in Packages
        /\ state.step \in DriverSteps => state.d \in Drivers
        /\ state.step = "statusSave" => state.to \in ForcedStatuses
        /\ state.step \in {"onlineSave", "availabilitySave"} => state.to \in Switches(state.step)
    <3>1. pkg[p].driverId \in Drivers \cup {NoDriver} /\ pkg[p] \in PackageDoc
      BY DEF PackageDoc
    <3>2. status \in ForcedStatuses /\ status \in Statuses
      BY DEF Statuses, ForcedStatuses
    <3> QED BY <3>1, <3>2
  <2> HIDE DEF state
  <2> QED BY <1>1, <2>1, <2>2
<1>12. ASSUME NEW d \in Drivers, NEW to \in {"AVAILABLE", "OFFLINE", "none"},
              BeginDriverStatus(r, d, to)
      PROVE  TypeInv'
  <2> DEFINE state == [Idle EXCEPT !.step = "onlineSave", !.d = d, !.to = to, !.me = drv[d]]
  <2>1. Start(r, state) /\ UNCHANGED <<clock, pkg, drv, payouts, crashes>>
    BY <1>12 DEF BeginDriverStatus
  <2>2. /\ state \in RequestState
        /\ state.step \in PackageSteps => state.p \in Packages
        /\ state.step \in DriverSteps => state.d \in Drivers
        /\ state.step = "statusSave" => state.to \in ForcedStatuses
        /\ state.step \in {"onlineSave", "availabilitySave"} => state.to \in Switches(state.step)
    BY <1>12 DEF BeginDriverStatus, Availability, Switches
  <2> HIDE DEF state
  <2> QED BY <1>1, <2>1, <2>2
<1>13. ASSUME NEW d \in Drivers, NEW to \in Availability, BeginAvailability(r, d, to)
      PROVE  TypeInv'
  <2> DEFINE state == [Idle EXCEPT !.step = "availabilitySave", !.d = d, !.to = to, !.me = drv[d]]
  <2>1. Start(r, state) /\ UNCHANGED <<clock, pkg, drv, payouts, crashes>>
    BY <1>13 DEF BeginAvailability
  <2>2. /\ state \in RequestState
        /\ state.step \in PackageSteps => state.p \in Packages
        /\ state.step \in DriverSteps => state.d \in Drivers
        /\ state.step = "statusSave" => state.to \in ForcedStatuses
        /\ state.step \in {"onlineSave", "availabilitySave"} => state.to \in Switches(state.step)
    BY <1>13 DEF BeginAvailability, Availability, Switches
  <2> HIDE DEF state
  <2> QED BY <1>1, <2>1, <2>2
<1> QED
  BY <1>5, <1>6, <1>7, <1>8, <1>9, <1>10, <1>11, <1>12, <1>13 DEF Begin

\* The handlers whose last write is a booking document.
LEMMA PackageWriteType ==
    ASSUME TypeInv, NEW r \in Requests, req[r].step \in PackageSteps,
           pkg' \in [Packages -> PackageDoc], Finish(r),
           UNCHANGED <<clock, drv, payouts, crashes>>
    PROVE  TypeInv'
BY FinishType DEF TypeInv, TypeOK

LEMMA SlotTypes ==
    ASSUME TypeInv, NEW r \in Requests
    PROVE  /\ req[r].seen \in PackageDoc /\ req[r].me \in DriverDoc
           /\ req[r].at \in Nat /\ req[r].d \in Drivers \cup {NoDriver}
           /\ req[r].step \in PackageSteps =>
                  req[r].p \in Packages /\ pkg[req[r].p] \in PackageDoc
           /\ req[r].step \in DriverSteps =>
                  req[r].d \in Drivers /\ drv[req[r].d] \in DriverDoc
           /\ req[r].step = "statusSave" => req[r].to \in ForcedStatuses
           /\ req[r].step \in {"onlineSave", "availabilitySave"} => req[r].to \in Switches(req[r].step)
BY DEF TypeInv, TypeOK, SlotOK, RequestState

LEMMA PackageSavesType ==
    ASSUME TypeInv, NEW r \in Requests,
           \/ \E price \in Prices, edits \in BOOLEAN : UpdateSave(r, price, edits)
           \/ CancelWrite(r)
           \/ \E changed \in BOOLEAN : RetrySave(r, changed)
           \/ AcceptClaim(r)
           \/ SyncSave(r)
           \/ VerifyPickup(r)
    PROVE  TypeInv'
<1>0. ASSUME req[r].step \in PackageSteps
      PROVE  req[r].p \in Packages /\ req[r].seen \in PackageDoc /\ req[r].at \in Nat
             /\ req[r].d \in Drivers \cup {NoDriver}
  BY <1>0, SlotTypes
<1>1. ASSUME NEW price \in Prices, NEW edits \in BOOLEAN, UpdateSave(r, price, edits)
      PROVE  TypeInv'
  <2>1. req[r].step \in PackageSteps /\ Finish(r) /\ UNCHANGED <<clock, drv, payouts, crashes>>
    BY <1>1 DEF UpdateSave, PackageSteps
  <2>2. pkg' \in [Packages -> PackageDoc]
    <3> DEFINE p == req[r].p
               newPrice == Written(pkg[p].price, req[r].seen.price, price)
               newPaid == IF edits THEN req[r].seen.paid ELSE pkg[p].paid
    <3>1. pkg[p] \in PackageDoc /\ pkg \in [Packages -> PackageDoc]
      BY <1>0, <2>1 DEF TypeInv, TypeOK
    <3>2. newPrice \in Prices \cup {0}
      BY <1>0, <1>1, <2>1, <3>1 DEF PackageDoc, Written
    <3>3. newPaid \in BOOLEAN
      <4>1. pkg[p].paid \in BOOLEAN /\ req[r].seen.paid \in BOOLEAN
        BY <1>0, <2>1, <3>1 DEF PackageDoc
      <4> QED BY <4>1, Zenon
    <3>4. \/ pkg' = pkg
          \/ pkg' = [pkg EXCEPT ![p].price = newPrice, ![p].paid = newPaid]
      BY <1>1 DEF UpdateSave
    <3> HIDE DEF newPrice, newPaid
    <3> QED BY <3>1, <3>2, <3>3, <3>4 DEF PackageDoc
  <2> QED BY <2>1, <2>2, PackageWriteType
<1>2. ASSUME CancelWrite(r)
      PROVE  TypeInv'
  <2>1. req[r].step \in PackageSteps /\ Finish(r) /\ UNCHANGED <<clock, drv, payouts, crashes>>
    BY <1>2 DEF CancelWrite, PackageSteps
  <2>2. pkg' \in [Packages -> PackageDoc]
    BY <1>0, <1>2, <2>1 DEF CancelWrite, TypeInv, TypeOK, PackageDoc, Statuses
  <2> QED BY <2>1, <2>2, PackageWriteType
<1>3. ASSUME NEW changed \in BOOLEAN, RetrySave(r, changed)
      PROVE  TypeInv'
  <2>1. req[r].step \in PackageSteps /\ Finish(r) /\ UNCHANGED <<clock, drv, payouts, crashes>>
    BY <1>3 DEF RetrySave, PackageSteps
  <2>2. pkg' \in [Packages -> PackageDoc]
    <3> DEFINE p == req[r].p
               expiry == req[r].at + BroadcastDuration
               attempt == req[r].seen.attempt + 1
               version == IF changed THEN pkg[p].v + 1 ELSE pkg[p].v
    <3>1. pkg[p] \in PackageDoc /\ pkg \in [Packages -> PackageDoc]
      BY <1>0, <2>1 DEF TypeInv, TypeOK
    <3>2. expiry \in Nat /\ attempt \in Nat /\ version \in Nat
      BY <1>0, <2>1, <3>1, ExpressAssumption DEF PackageDoc
    <3>3. \/ pkg' = pkg
          \/ pkg' = [pkg EXCEPT ![p].expiresAt = expiry, ![p].attempt = attempt,
                               ![p].v = version]
      BY <1>3 DEF RetrySave
    <3> HIDE DEF expiry, attempt, version
    <3> QED BY <3>1, <3>2, <3>3 DEF PackageDoc
  <2> QED BY <2>1, <2>2, PackageWriteType
<1>4. ASSUME AcceptClaim(r)
      PROVE  TypeInv'
  <2>1. req[r].step \in PackageSteps /\ Finish(r) /\ UNCHANGED <<clock, drv, payouts, crashes>>
    BY <1>4 DEF AcceptClaim, PackageSteps
  <2>2. pkg' \in [Packages -> PackageDoc]
    <3> DEFINE p == req[r].p
               stamps == pkg[p].stamps \cup {"acceptedAt"}
    <3>1. pkg[p] \in PackageDoc /\ pkg \in [Packages -> PackageDoc] /\ req[r].d \in Drivers
      BY <1>0, <1>4, <2>1 DEF AcceptClaim, TypeInv, TypeOK, SlotOK, DriverSteps
    <3>2. stamps \in SUBSET Stamps /\ "ACCEPTED" \in Statuses
      BY <3>1 DEF PackageDoc, Stamps, Statuses
    <3>3. pkg' = [pkg EXCEPT ![p].status = "ACCEPTED", ![p].driverId = req[r].d,
                             ![p].stamps = stamps, ![p].phase = TRUE]
      BY <1>4 DEF AcceptClaim
    <3> HIDE DEF stamps
    <3> QED BY <3>1, <3>2, <3>3 DEF PackageDoc
  <2> QED BY <2>1, <2>2, PackageWriteType
<1>5. ASSUME SyncSave(r)
      PROVE  TypeInv'
  <2>1. req[r].step \in PackageSteps /\ Finish(r) /\ UNCHANGED <<clock, drv, payouts, crashes>>
    BY <1>5 DEF SyncSave, PackageSteps
  <2>2. pkg' \in [Packages -> PackageDoc]
    <3> DEFINE p == req[r].p
               status == Arrival(req[r].seen.status)
               stamps == pkg[p].stamps \cup {ArrivalStamp(req[r].seen.status)}
    <3>1. pkg[p] \in PackageDoc /\ pkg \in [Packages -> PackageDoc]
      BY <1>0, <2>1 DEF TypeInv, TypeOK
    <3>2. status \in Statuses /\ stamps \in SUBSET Stamps
      BY <3>1 DEF PackageDoc, Stamps, Statuses, Arrival, ArrivalStamp
    <3>3. \/ pkg' = pkg
          \/ pkg' = [pkg EXCEPT ![p].status = status, ![p].stamps = stamps, ![p].phase = FALSE]
      BY <1>5 DEF SyncSave
    <3> HIDE DEF status, stamps
    <3> QED BY <3>1, <3>2, <3>3 DEF PackageDoc
  <2> QED BY <2>1, <2>2, PackageWriteType
<1>6. ASSUME VerifyPickup(r)
      PROVE  TypeInv'
  <2>1. req[r].step \in PackageSteps /\ Finish(r) /\ UNCHANGED <<clock, drv, payouts, crashes>>
    BY <1>6 DEF VerifyPickup, PackageSteps
  <2>2. pkg' \in [Packages -> PackageDoc]
    <3> DEFINE p == req[r].p
               stamps == pkg[p].stamps \cup {"pickedUpAt"}
    <3>1. pkg[p] \in PackageDoc /\ pkg \in [Packages -> PackageDoc]
      BY <1>0, <2>1 DEF TypeInv, TypeOK
    <3>2. stamps \in SUBSET Stamps /\ "IN_TRANSIT" \in Statuses
      BY <3>1 DEF PackageDoc, Stamps, Statuses
    <3>3. \/ pkg' = pkg
          \/ pkg' = [pkg EXCEPT ![p].status = "IN_TRANSIT", ![p].stamps = stamps,
                               ![p].phase = TRUE]
      BY <1>6 DEF VerifyPickup
    <3> HIDE DEF stamps
    <3> QED BY <3>1, <3>2, <3>3 DEF PackageDoc
  <2> QED BY <2>1, <2>2, PackageWriteType
<1> QED BY <1>1, <1>2, <1>3, <1>4, <1>5, <1>6

LEMMA StatusSaveType ==
    ASSUME TypeInv, NEW r \in Requests, StatusSave(r)
    PROVE  TypeInv'
<1> DEFINE p == req[r].p
           d == req[r].d
           seen == req[r].seen
           status == req[r].to
<1>1. p \in Packages /\ seen \in PackageDoc /\ d \in Drivers \cup {NoDriver} /\ status \in Statuses
  BY DEF TypeInv, TypeOK, SlotOK, StatusSave, PackageSteps, RequestState, ForcedStatuses, Statuses
<1>2. CASE ~Exists(p)
  <2>1. Finish(r) /\ UNCHANGED <<clock, pkg, drv, payouts, crashes>>
    BY <1>2 DEF StatusSave
  <2> QED BY <2>1, FinishType DEF TypeInv, TypeOK
<1>3. CASE Exists(p)
  <2>1. pkg' \in [Packages -> PackageDoc]
    <3> DEFINE newStatus == Written(pkg[p].status, seen.status, status)
               newPhase == IF status = "FAILED" THEN Written(pkg[p].phase, seen.phase, FALSE)
                                                ELSE pkg[p].phase
    <3>1. pkg[p] \in PackageDoc /\ pkg \in [Packages -> PackageDoc]
      BY <1>1 DEF TypeInv, TypeOK
    <3>2. newStatus \in Statuses
      BY <1>1, <3>1 DEF PackageDoc, Written
    <3>3. newPhase \in BOOLEAN
      <4>1. pkg[p].phase \in BOOLEAN
        BY <3>1 DEF PackageDoc
      <4> QED BY <4>1, Zenon DEF Written
    <3>4. pkg' = [pkg EXCEPT ![p].status = newStatus, ![p].phase = newPhase]
      BY <1>3 DEF StatusSave
    <3> HIDE DEF newStatus, newPhase
    <3> QED BY <3>1, <3>2, <3>3, <3>4 DEF PackageDoc
  <2>2. payouts' \in [Drivers -> Nat]
    BY <1>1, <1>3, ExpressAssumption DEF StatusSave, TypeInv, TypeOK, PackageDoc, Entitle
  <2>3. req' \in [Requests -> RequestState] /\ SlotOK'
    <3>1. CASE AfterStatus(status, d) = "idle"
      BY <1>3, <3>1, FinishType DEF StatusSave, Continue
    <3>2. CASE AfterStatus(status, d) # "idle"
      <4>1. AfterStatus(status, d) \in {"payLoad", "release"} /\ d \in Drivers
        BY <1>1, <3>2 DEF AfterStatus
      <4>2. Goto(r, AfterStatus(status, d))
        BY <1>3, <3>2 DEF StatusSave, Continue
      <4> QED BY <4>1, <4>2, GotoType DEF Steps, PackageSteps
    <3> QED BY <3>1, <3>2
  <2> QED BY <2>1, <2>2, <2>3 DEF StatusSave, TypeInv, TypeOK
<1> QED BY <1>2, <1>3

LEMMA VerifyDropoffType ==
    ASSUME TypeInv, NEW r \in Requests, VerifyDropoff(r)
    PROVE  TypeInv'
<1> DEFINE p == req[r].p
           d == req[r].d
           seen == req[r].seen
<1>1. /\ p \in Packages /\ seen \in PackageDoc /\ d \in Drivers \cup {NoDriver}
      /\ pkg[p] \in PackageDoc
  BY SlotTypes DEF VerifyDropoff, PackageSteps
<1>2. CASE ~Exists(p)
  <2>1. Finish(r) /\ UNCHANGED <<clock, pkg, drv, payouts, crashes>>
    BY <1>2 DEF VerifyDropoff
  <2> QED BY <2>1, FinishType DEF TypeInv, TypeOK
<1>3. CASE Exists(p)
  <2>1. pkg' \in [Packages -> PackageDoc]
    <3> DEFINE newPhase == Written(pkg[p].phase, seen.phase, FALSE)
               newPaid == Written(pkg[p].paid, seen.paid, TRUE)
    <3>1. newPhase \in BOOLEAN /\ newPaid \in BOOLEAN
      <4>1. pkg[p].phase \in BOOLEAN /\ pkg[p].paid \in BOOLEAN
        BY <1>1 DEF PackageDoc
      <4> QED BY <4>1, Zenon DEF Written
    <3> DEFINE newStamps == pkg[p].stamps \cup {"deliveredAt"}
    <3>2. pkg' = [pkg EXCEPT ![p].status = "DELIVERED", ![p].stamps = newStamps,
                             ![p].phase = newPhase, ![p].paid = newPaid]
      BY <1>3 DEF VerifyDropoff
    <3>3. newStamps \in SUBSET Stamps /\ "DELIVERED" \in Statuses
      BY <1>1 DEF PackageDoc, Stamps, Statuses
    <3>4. pkg \in [Packages -> PackageDoc]
      BY DEF TypeInv, TypeOK
    <3> HIDE DEF newPhase, newPaid, newStamps, p
    <3> QED BY <1>1, <3>1, <3>2, <3>3, <3>4 DEF PackageDoc
  <2>2. payouts' \in [Drivers -> Nat]
    BY <1>1, <1>3, ExpressAssumption DEF VerifyDropoff, TypeInv, TypeOK, PackageDoc, Entitle
  <2>3. req' \in [Requests -> RequestState] /\ SlotOK'
    <3>1. CASE d = NoDriver
      <4>1. Finish(r)
        BY <1>3, <3>1 DEF VerifyDropoff, Continue, AfterStatus
      <4> QED BY <4>1, FinishType
    <3>2. CASE d # NoDriver
      <4>1. Goto(r, "payLoad")
        BY <1>3, <3>2 DEF VerifyDropoff, Continue, AfterStatus
      <4> QED BY <1>1, <3>2, <4>1, GotoType DEF Steps, PackageSteps
    <3> QED BY <3>1, <3>2
  <2> QED BY <2>1, <2>2, <2>3 DEF VerifyDropoff, TypeInv, TypeOK
<1> QED BY <1>2, <1>3

LEMMA AcceptStepsType ==
    ASSUME TypeInv, NEW r \in Requests,
           AcceptFind(r) \/ AcceptReserve(r) \/ AcceptLose(r)
    PROVE  TypeInv'
<1>0. ASSUME req[r].step \in {"acceptFind", "acceptReserve", "acceptClaim"}
      PROVE  /\ req[r] \in RequestState /\ req[r].p \in Packages /\ req[r].d \in Drivers
             /\ req[r].at \in Nat
  BY <1>0 DEF TypeInv, TypeOK, SlotOK, PackageSteps, DriverSteps, RequestState
<1>1. CASE AcceptFind(r)
  <2>1. UNCHANGED <<clock, pkg, drv, payouts, crashes>>
    BY <1>1 DEF AcceptFind
  <2>2. CASE CanClaim(req[r].p, clock)
    <3>1. req' = [req EXCEPT ![r].step = "acceptReserve", ![r].at = clock]
      BY <1>1, <2>2 DEF AcceptFind
    <3>2. clock \in Nat
      BY ExpressAssumption DEF TypeInv, TypeOK
    <3>3. req' \in [Requests -> RequestState] /\ SlotOK'
      BY <1>0, <1>1, <3>1, <3>2
         DEF AcceptFind, TypeInv, TypeOK, SlotOK, RequestState, Steps, PackageSteps, DriverSteps
    <3> QED BY <2>1, <3>3 DEF TypeInv, TypeOK
  <2>3. CASE ~CanClaim(req[r].p, clock)
    BY <1>1, <2>1, <2>3, FinishType DEF AcceptFind, TypeInv, TypeOK
  <2> QED BY <2>2, <2>3
<1>2. CASE AcceptReserve(r)
  <2>1. UNCHANGED <<clock, pkg, payouts, crashes>>
    BY <1>2 DEF AcceptReserve
  <2>2. CASE UNCHANGED drv /\ Finish(r)
    BY <2>1, <2>2, FinishType DEF TypeInv, TypeOK
  <2>3. ASSUME NEW acceptedAt \in req[r].at..clock,
               drv' = [drv EXCEPT ![req[r].d].availability = "ON_TRIP"],
               req' = [req EXCEPT ![r].step = "acceptClaim", ![r].at = acceptedAt]
        PROVE  TypeInv'
    <3>1. acceptedAt \in Nat
      <4>1. req[r].at \in Nat /\ clock \in Nat
        BY <1>0, <1>2, ExpressAssumption DEF AcceptReserve, TypeInv, TypeOK
      <4> QED BY <2>3, <4>1
    <3>2. req' \in [Requests -> RequestState] /\ SlotOK'
      <4>1. /\ "acceptClaim" \in Steps /\ "acceptClaim" \in PackageSteps \cap DriverSteps
            /\ req \in [Requests -> RequestState] /\ SlotOK
        BY DEF Steps, PackageSteps, DriverSteps, TypeInv, TypeOK
      <4> DEFINE slot == [req[r] EXCEPT !.step = "acceptClaim", !.at = acceptedAt]
      <4>2. req' = [req EXCEPT ![r] = slot]
        BY <2>3, <4>1
      <4>3. slot \in RequestState /\ slot.step = "acceptClaim"
            /\ slot.p = req[r].p /\ slot.d = req[r].d
        <5>1. req[r] \in RequestState
          BY <4>1
        <5> QED BY <3>1, <4>1, <5>1 DEF RequestState
      <4> HIDE DEF slot
      <4>4. req[r].p \in Packages /\ req[r].d \in Drivers
        BY <1>2, <4>1 DEF AcceptReserve, SlotOK, PackageSteps, DriverSteps
      <4> QED BY <4>1, <4>2, <4>3, <4>4 DEF SlotOK
    <3>3. drv' \in [Drivers -> DriverDoc]
      <4>1. drv \in [Drivers -> DriverDoc]
        BY DEF TypeInv, TypeOK
      <4> QED BY <2>3, <4>1 DEF DriverDoc, Availability
    <3> QED BY <2>1, <3>2, <3>3 DEF TypeInv, TypeOK
  <2> QED BY <1>2, <2>2, <2>3 DEF AcceptReserve
<1>3. CASE AcceptLose(r)
  <2>1. Goto(r, "release") /\ UNCHANGED <<clock, pkg, drv, payouts, crashes>>
    BY <1>3 DEF AcceptLose
  <2>2. req' \in [Requests -> RequestState] /\ SlotOK'
    BY <1>0, <1>3, <2>1, GotoType DEF AcceptLose, Steps, PackageSteps
  <2> QED BY <2>1, <2>2 DEF TypeInv, TypeOK
<1> QED BY <1>1, <1>2, <1>3

\* The handlers whose last write is a driver document.
LEMMA DriverWritesType ==
    ASSUME TypeInv, NEW r \in Requests,
           Release(r) \/ PayLoad(r) \/ PaySave(r) \/ DriverStatusSave(r) \/ AvailabilitySave(r)
    PROVE  TypeInv'
<1> DEFINE d == req[r].d
           me == req[r].me
<1>0. /\ req[r].step \in DriverSteps
      /\ d \in Drivers /\ drv[d] \in DriverDoc /\ me \in DriverDoc
      /\ drv \in [Drivers -> DriverDoc] /\ req[r].seen \in PackageDoc
  <2>1. req[r].step \in DriverSteps
    BY DEF Release, PayLoad, PaySave, DriverStatusSave, AvailabilitySave, DriverSteps
  <2> QED BY <2>1, SlotTypes DEF TypeInv, TypeOK
<1>1. CASE PayLoad(r)
  <2>1. req' = [req EXCEPT ![r].step = "paySave", ![r].me = drv[d]]
        /\ UNCHANGED <<clock, pkg, drv, payouts, crashes>>
    BY <1>1 DEF PayLoad
  <2>2. req' \in [Requests -> RequestState] /\ SlotOK'
    <3>1. "paySave" \in Steps \ PackageSteps
      BY DEF Steps, PackageSteps
    <3>2. req \in [Requests -> RequestState] /\ SlotOK
      BY DEF TypeInv, TypeOK
    <3> DEFINE slot == [req[r] EXCEPT !.step = "paySave", !.me = drv[d]]
    <3>3. req' = [req EXCEPT ![r] = slot]
      BY <2>1, <3>2
    <3>4. slot \in RequestState /\ slot.step = "paySave" /\ slot.d = d
      <4>1. req[r] \in RequestState
        BY <3>2
      <4> QED BY <1>0, <3>1, <4>1 DEF RequestState
    <3> HIDE DEF slot
    <3> QED BY <1>0, <3>1, <3>2, <3>3, <3>4 DEF SlotOK
  <2> QED BY <2>1, <2>2 DEF TypeInv, TypeOK
<1>2. ASSUME drv' \in [Drivers -> DriverDoc], Finish(r), UNCHANGED <<clock, pkg, payouts, crashes>>
      PROVE  TypeInv'
  BY <1>2, FinishType DEF TypeInv, TypeOK
<1>3. CASE Release(r)
  <2>1. drv' \in [Drivers -> DriverDoc]
    BY <1>0, <1>3 DEF Release, DriverDoc, Availability
  <2> QED BY <1>2, <1>3, <2>1 DEF Release
<1>4. CASE PaySave(r)
  <2>1. drv' \in [Drivers -> DriverDoc]
    <3>1. Credited(me.balance, req[r].seen.price) \in Nat
      <4>1. me.balance \in Nat /\ req[r].seen.price \in Prices \cup {0}
        BY <1>0 DEF DriverDoc, PackageDoc
      <4>2. Prices \cup {0} \subseteq Nat
        BY ExpressAssumption
      <4>3. req[r].seen.price \in Nat
        BY <4>1, <4>2
      <4> HIDE DEF me
      <4> QED BY <4>1, <4>3 DEF Credited
    <3>2. Written(drv[d].availability, me.availability, "AVAILABLE") \in Availability
      BY <1>0 DEF Written, DriverDoc, Availability
    <3> DEFINE balance == Credited(me.balance, req[r].seen.price)
               availability == Written(drv[d].availability, me.availability, "AVAILABLE")
    <3>3. drv' = [drv EXCEPT ![d].balance = balance, ![d].online = TRUE,
                             ![d].availability = availability]
      BY <1>4 DEF PaySave
    <3> HIDE DEF balance, availability
    <3> QED BY <1>0, <3>1, <3>2, <3>3 DEF DriverDoc, balance, availability
  <2> QED BY <1>2, <1>4, <2>1 DEF PaySave
<1>5. CASE DriverStatusSave(r)
  <2>1. drv' \in [Drivers -> DriverDoc]
    <3> DEFINE to == req[r].to
               online == IF to = "none" THEN me.online ELSE to = "AVAILABLE"
               switched == IF to = "none" THEN drv[d].availability
                           ELSE Written(drv[d].availability, me.availability, to)
    <3>1. switched \in Availability
      BY <1>0, <1>5, SlotTypes DEF DriverStatusSave, Written, DriverDoc, Switches
    <3>2. online \in BOOLEAN
      <4>1. me.online \in BOOLEAN
        BY <1>0 DEF DriverDoc
      <4> QED BY <4>1, Zenon
    <3>3. drv' = [drv EXCEPT ![d].balance = me.balance, ![d].online = online,
                             ![d].availability = switched]
      BY <1>0, <1>5 DEF DriverStatusSave
    <3> HIDE DEF online, switched
    <3> QED BY <1>0, <3>1, <3>2, <3>3 DEF DriverDoc
  <2> QED BY <1>2, <1>5, <2>1 DEF DriverStatusSave
<1>6. CASE AvailabilitySave(r)
  <2>1. drv' \in [Drivers -> DriverDoc]
    <3>1. Written(drv[d].availability, me.availability, req[r].to) \in Availability
      BY <1>0, <1>6, SlotTypes DEF AvailabilitySave, Written, DriverDoc, Switches
    <3> QED BY <1>0, <1>6, <3>1 DEF AvailabilitySave, DriverDoc
  <2> QED BY <1>2, <1>6, <2>1 DEF AvailabilitySave
<1> QED BY <1>1, <1>3, <1>4, <1>5, <1>6

LEMMA ResumeType ==
    ASSUME TypeInv, NEW r \in Requests, Resume(r)
    PROVE  TypeInv'
BY PackageSavesType, StatusSaveType, VerifyDropoffType, AcceptStepsType, DriverWritesType
   DEF Resume

LEMMA InitType == Init => TypeInv
<1> SUFFICES ASSUME Init PROVE TypeInv
  OBVIOUS
<1>1. pkg \in [Packages -> PackageDoc]
  BY NoPackageType DEF Init, Statuses
<1>2. drv \in [Drivers -> DriverDoc]
  <2>1. [NewDriver EXCEPT !.availability = "AVAILABLE", !.online = TRUE] \in DriverDoc
    BY DEF NewDriver, DriverDoc, Availability
  <2> QED BY <2>1, NewDriverType DEF Init
<1>3. req \in [Requests -> RequestState] /\ SlotOK
  BY IdleType DEF Init, SlotOK, PackageSteps, DriverSteps
<1> QED BY <1>1, <1>2, <1>3, ExpressAssumption DEF Init, TypeInv, TypeOK

LEMMA NextType == TypeInv /\ [Next]_vars => TypeInv'
<1> SUFFICES ASSUME TypeInv, [Next]_vars PROVE TypeInv'
  OBVIOUS
<1>1. ASSUME NEW p \in Packages, NEW service \in {"EXPRESS", "WAREHOUSE"},
             NEW price \in Prices, Create(p, service, price)
      PROVE  TypeInv'
  <2> DEFINE expiry == IF service = "EXPRESS" THEN clock + BroadcastDuration ELSE NoExpiry
             attempt == IF service = "EXPRESS" THEN 1 ELSE 0
             doc == [NoPackage("PENDING") EXCEPT !.serviceType = service, !.expiresAt = expiry,
                                                 !.attempt = attempt, !.price = price]
  <2>1. doc \in PackageDoc
    <3>1. clock \in Nat /\ BroadcastDuration \in Nat
      BY ExpressAssumption DEF TypeInv, TypeOK
    <3>2. expiry \in Nat /\ attempt \in Nat
      BY <3>1 DEF NoExpiry
    <3>3. NoPackage("PENDING") \in PackageDoc
      BY NoPackageType DEF Statuses
    <3> HIDE DEF expiry, attempt
    <3> QED BY <3>2, <3>3 DEF PackageDoc
  <2>2. pkg' = [pkg EXCEPT ![p] = doc] /\ UNCHANGED <<clock, drv, req, payouts, crashes>>
    BY <1>1 DEF Create
  <2> HIDE DEF doc
  <2> QED BY <2>1, <2>2 DEF TypeInv, TypeOK, SlotOK
<1>2. ASSUME NEW p \in Packages, Remove(p)
      PROVE  TypeInv'
  <2>1. NoPackage("REMOVED") \in PackageDoc
    BY NoPackageType DEF Statuses
  <2> QED BY <1>2, <2>1 DEF Remove, TypeInv, TypeOK, SlotOK
<1>3. ASSUME NEW r \in Requests, Begin(r) \/ Resume(r)
      PROVE  TypeInv'
  BY <1>3, BeginType, ResumeType
<1>4. CASE Tick
  BY <1>4, ExpressAssumption DEF Tick, TypeInv, TypeOK, SlotOK
<1>5. CASE Crash
  <2>1. req' \in [Requests -> RequestState] /\ SlotOK'
    BY <1>5, IdleType DEF Crash, SlotOK, PackageSteps, DriverSteps
  <2> QED BY <1>5, <2>1, ExpressAssumption DEF Crash, TypeInv, TypeOK
<1>6. CASE UNCHANGED vars
  BY <1>6 DEF vars, TypeInv, TypeOK, SlotOK
<1> QED BY <1>1, <1>2, <1>3, <1>4, <1>5, <1>6 DEF Next

\* Every document and every suspended handler keeps its type, however the
\* handlers interleave.
THEOREM TypeCorrect == Spec => []TypeOK
<1>1. TypeInv => TypeOK
  BY DEF TypeInv
<1> QED BY <1>1, InitType, NextType, PTL DEF Spec

-----------------------------------------------------------------------------
(* ExpressDelivery implements DeliveryClaim, for every set of bookings,     *)
(* drivers, request slots, operations and administrators' statuses: every   *)
(* step of a handler opens, closes, claims or deletes one booking, or       *)
(* changes nothing DeliveryClaim can see.                                   *)

LEMMA ClaimValues ==
    ASSUME TypeInv, NEW p \in Packages
    PROVE  /\ ClaimOf(p) = "absent" <=> pkg[p].status = "ABSENT"
           /\ ClaimOf(p) = "deleted" <=> pkg[p].status = "REMOVED"
           /\ ClaimOf(p) = "open" <=>
                  pkg[p].status = "PENDING" /\ pkg[p].driverId = NoDriver
           /\ Exists(p) /\ pkg[p].driverId # NoDriver => ClaimOf(p) = pkg[p].driverId
           /\ Exists(p) /\ pkg[p].driverId = NoDriver /\ pkg[p].status # "PENDING"
                  => ClaimOf(p) = "closed"
<1>1. pkg[p] \in PackageDoc
  BY DEF TypeInv, TypeOK
<1>2. pkg[p].driverId = NoDriver \/ pkg[p].driverId \notin {"absent", "open", "closed", "deleted"}
  BY <1>1, ExpressAssumption DEF PackageDoc
<1> QED BY <1>2 DEF ClaimOf, Exists

\* The steps that DeliveryClaim cannot see.
LEMMA ClaimStutter ==
    ASSUME \A p \in Packages : ClaimOf(p)' = ClaimOf(p)
    PROVE  UNCHANGED claimMap
BY DEF claimMap

\* A step that changes one document.
LEMMA ClaimOne ==
    ASSUME NEW p \in Packages, NEW value,
           ClaimOf(p)' = value,
           \A q \in Packages \ {p} : ClaimOf(q)' = ClaimOf(q)
    PROVE  /\ claimMap' = [claimMap EXCEPT ![p] = value]
           /\ claimMap[p] = ClaimOf(p)
BY DEF claimMap

LEMMA OtherClaims ==
    ASSUME NEW p \in Packages, NEW q \in Packages \ {p}, pkg'[q] = pkg[q]
    PROVE  ClaimOf(q)' = ClaimOf(q)
BY DEF ClaimOf

\* What every save of a trip does to a booking: the driver stays, and the
\* status becomes anything but the one a booking starts with.
LEMMA SaveStep ==
    ASSUME TypeInv, TypeInv', NEW p \in Packages, Exists(p),
           \A q \in Packages \ {p} : pkg'[q] = pkg[q],
           pkg'[p].driverId = pkg[p].driverId,
           \/ pkg'[p].status = pkg[p].status
           \/ pkg'[p].status \notin {"ABSENT", "REMOVED", "PENDING"}
    PROVE  [Claims!Next]_claimMap
<1>1. \A q \in Packages \ {p} : ClaimOf(q)' = ClaimOf(q)
  BY OtherClaims
<1>2. CASE ClaimOf(p)' = ClaimOf(p)
  BY <1>1, <1>2, ClaimStutter
<1>3. CASE ClaimOf(p)' # ClaimOf(p)
  <2>1. pkg[p].status = "PENDING" /\ pkg'[p].status # "PENDING" /\ pkg[p].driverId = NoDriver
    BY <1>3 DEF ClaimOf, Exists
  <2>2. ClaimOf(p) = "open" /\ ClaimOf(p)' = "closed"
    BY <2>1 DEF ClaimOf
  <2>3. Claims!Close(p)
    BY <1>1, <2>2, ClaimOne DEF Claims!Close
  <2> QED BY <2>3 DEF Claims!Next
<1> QED BY <1>2, <1>3

\* The one write that gives a booking a driver.
LEMMA ClaimStep ==
    ASSUME TypeInv, NEW p \in Packages, NEW d \in Drivers,
           pkg[p].status = "PENDING", pkg[p].driverId = NoDriver,
           pkg'[p].status = "ACCEPTED", pkg'[p].driverId = d,
           \A q \in Packages \ {p} : pkg'[q] = pkg[q]
    PROVE  [Claims!Next]_claimMap
<1>1. ClaimOf(p) = "open" /\ ClaimOf(p)' = d
  BY ExpressAssumption DEF ClaimOf
<1>2. \A q \in Packages \ {p} : ClaimOf(q)' = ClaimOf(q)
  BY OtherClaims
<1>3. Claims!Claim(p, d)
  BY <1>1, <1>2, ClaimOne DEF Claims!Claim
<1> QED BY <1>3 DEF Claims!Next

\* The steps that leave the collection of bookings alone.
LEMMA NoWriteStep ==
    ASSUME UNCHANGED pkg
    PROVE  [Claims!Next]_claimMap
BY ClaimStutter DEF ClaimOf

LEMMA ResumeClaims ==
    ASSUME TypeInv, TypeInv', NEW r \in Requests, Resume(r)
    PROVE  [Claims!Next]_claimMap
<1> DEFINE p == req[r].p
<1>1. req[r].step \in PackageSteps => p \in Packages /\ pkg[p] \in PackageDoc
  BY SlotTypes
<1>2. pkg \in [Packages -> PackageDoc]
  BY DEF TypeInv, TypeOK
<1>3. ASSUME NEW price \in Prices, NEW edits \in BOOLEAN, UpdateSave(r, price, edits)
      PROVE  [Claims!Next]_claimMap
  <2>1. p \in Packages
    BY <1>1, <1>3 DEF UpdateSave, PackageSteps
  <2>2. CASE ~Exists(p)
    BY <1>3, <2>2, NoWriteStep DEF UpdateSave
  <2>3. CASE Exists(p)
    <3> DEFINE newPrice == Written(pkg[p].price, req[r].seen.price, price)
               newPaid == IF edits THEN req[r].seen.paid ELSE pkg[p].paid
    <3>1. pkg' = [pkg EXCEPT ![p].price = newPrice, ![p].paid = newPaid]
      BY <1>3, <2>3 DEF UpdateSave
    <3> HIDE DEF newPrice, newPaid
    <3>2. /\ \A q \in Packages \ {p} : pkg'[q] = pkg[q]
          /\ pkg'[p].driverId = pkg[p].driverId
          /\ pkg'[p].status = pkg[p].status
      <4>1. \A q \in Packages \ {p} : pkg'[q] = pkg[q]
        BY <1>2, <2>1, <3>1
      <4>2. pkg'[p].driverId = pkg[p].driverId
        BY <1>2, <2>1, <3>1 DEF PackageDoc
      <4>3. pkg'[p].status = pkg[p].status
        BY <1>2, <2>1, <3>1 DEF PackageDoc
      <4> QED BY <4>1, <4>2, <4>3
    <3> QED BY <2>1, <2>3, <3>2, SaveStep
  <2> QED BY <2>2, <2>3
<1>4. CASE CancelWrite(r)
  <2>1. p \in Packages
    BY <1>1, <1>4 DEF CancelWrite, PackageSteps
  <2>2. CASE ~Exists(p)
    BY <1>4, <2>2, NoWriteStep DEF CancelWrite
  <2>3. CASE Exists(p)
    <3>1. pkg' = [pkg EXCEPT ![p].status = "CANCELLED"]
      BY <1>4, <2>3 DEF CancelWrite
    <3>2. /\ \A q \in Packages \ {p} : pkg'[q] = pkg[q]
          /\ pkg'[p].driverId = pkg[p].driverId
          /\ pkg'[p].status = "CANCELLED"
      <4>1. \A q \in Packages \ {p} : pkg'[q] = pkg[q]
        BY <1>2, <2>1, <3>1
      <4>2. pkg'[p].driverId = pkg[p].driverId
        BY <1>2, <2>1, <3>1 DEF PackageDoc
      <4>3. pkg'[p].status = "CANCELLED"
        BY <1>2, <2>1, <3>1 DEF PackageDoc
      <4> QED BY <4>1, <4>2, <4>3
    <3> QED BY <2>1, <2>3, <3>2, SaveStep
  <2> QED BY <2>2, <2>3
<1>5. ASSUME NEW changed \in BOOLEAN, RetrySave(r, changed)
      PROVE  [Claims!Next]_claimMap
  <2>1. p \in Packages
    BY <1>1, <1>5 DEF RetrySave, PackageSteps
  <2>2. CASE pkg' = pkg
    BY <2>2, NoWriteStep
  <2>3. CASE pkg' # pkg
    <3> DEFINE expiry == req[r].at + BroadcastDuration
               attempt == req[r].seen.attempt + 1
               version == IF changed THEN pkg[p].v + 1 ELSE pkg[p].v
    <3>1. Exists(p) /\ pkg' = [pkg EXCEPT ![p].expiresAt = expiry, ![p].attempt = attempt,
                                          ![p].v = version]
      BY <1>5, <2>3 DEF RetrySave
    <3> HIDE DEF expiry, attempt, version
    <3>2. /\ \A q \in Packages \ {p} : pkg'[q] = pkg[q]
          /\ pkg'[p].driverId = pkg[p].driverId
          /\ pkg'[p].status = pkg[p].status
      <4>1. \A q \in Packages \ {p} : pkg'[q] = pkg[q]
        BY <1>2, <2>1, <3>1
      <4>2. pkg'[p].driverId = pkg[p].driverId
        BY <1>2, <2>1, <3>1 DEF PackageDoc
      <4>3. pkg'[p].status = pkg[p].status
        BY <1>2, <2>1, <3>1 DEF PackageDoc
      <4> QED BY <4>1, <4>2, <4>3
    <3> QED BY <2>1, <3>1, <3>2, SaveStep
  <2> QED BY <2>2, <2>3
<1>6. CASE AcceptClaim(r)
  <2>1. p \in Packages /\ req[r].d \in Drivers
    BY <1>6, SlotTypes DEF AcceptClaim, PackageSteps, DriverSteps
  <2>2. /\ pkg[p].status = "PENDING" /\ pkg[p].driverId = NoDriver
        /\ pkg' = [pkg EXCEPT ![p].status = "ACCEPTED", ![p].driverId = req[r].d,
                              ![p].stamps = @ \cup {"acceptedAt"}, ![p].phase = TRUE]
    BY <1>6 DEF AcceptClaim, CanClaim
  <2>3. \A q \in Packages \ {p} : pkg'[q] = pkg[q]
    BY <1>2, <2>1, <2>2
  <2>4. pkg'[p].driverId = req[r].d
    BY <1>2, <2>1, <2>2 DEF PackageDoc
  <2>5. pkg'[p].status = "ACCEPTED"
    BY <1>2, <2>1, <2>2 DEF PackageDoc
  <2> QED BY <2>1, <2>2, <2>3, <2>4, <2>5, ClaimStep
<1>7. CASE SyncSave(r)
  <2>1. p \in Packages
    BY <1>1, <1>7 DEF SyncSave, PackageSteps
  <2>2. CASE ~Exists(p)
    BY <1>7, <2>2, NoWriteStep DEF SyncSave
  <2>3. CASE Exists(p)
    <3> DEFINE status == Arrival(req[r].seen.status)
               stamps == pkg[p].stamps \cup {ArrivalStamp(req[r].seen.status)}
    <3>1. pkg' = [pkg EXCEPT ![p].status = status, ![p].stamps = stamps, ![p].phase = FALSE]
      BY <1>7, <2>3 DEF SyncSave
    <3>2. status \in {"ARRIVED_AT_PICKUP", "ARRIVED_AT_DROPOFF"}
      BY DEF Arrival
    <3> HIDE DEF status, stamps
    <3>3. /\ \A q \in Packages \ {p} : pkg'[q] = pkg[q]
          /\ pkg'[p].driverId = pkg[p].driverId
          /\ pkg'[p].status = status
      <4>1. \A q \in Packages \ {p} : pkg'[q] = pkg[q]
        BY <1>2, <2>1, <3>1
      <4>2. pkg'[p].driverId = pkg[p].driverId
        BY <1>2, <2>1, <3>1 DEF PackageDoc
      <4>3. pkg'[p].status = status
        BY <1>2, <2>1, <3>1 DEF PackageDoc
      <4> QED BY <4>1, <4>2, <4>3
    <3> QED BY <2>1, <2>3, <3>2, <3>3, SaveStep
  <2> QED BY <2>2, <2>3
<1>8. CASE VerifyPickup(r)
  <2>1. p \in Packages
    BY <1>1, <1>8 DEF VerifyPickup, PackageSteps
  <2>2. CASE ~Exists(p)
    BY <1>8, <2>2, NoWriteStep DEF VerifyPickup
  <2>3. CASE Exists(p)
    <3>1. pkg' = [pkg EXCEPT ![p].status = "IN_TRANSIT", ![p].stamps = @ \cup {"pickedUpAt"},
                             ![p].phase = TRUE]
      BY <1>8, <2>3 DEF VerifyPickup
    <3>2. /\ \A q \in Packages \ {p} : pkg'[q] = pkg[q]
          /\ pkg'[p].driverId = pkg[p].driverId
          /\ pkg'[p].status = "IN_TRANSIT"
      <4>1. \A q \in Packages \ {p} : pkg'[q] = pkg[q]
        BY <1>2, <2>1, <3>1
      <4>2. pkg'[p].driverId = pkg[p].driverId
        BY <1>2, <2>1, <3>1 DEF PackageDoc
      <4>3. pkg'[p].status = "IN_TRANSIT"
        BY <1>2, <2>1, <3>1 DEF PackageDoc
      <4> QED BY <4>1, <4>2, <4>3
    <3> QED BY <2>1, <2>3, <3>2, SaveStep
  <2> QED BY <2>2, <2>3
<1>9. CASE VerifyDropoff(r)
  <2>1. p \in Packages
    BY <1>1, <1>9 DEF VerifyDropoff, PackageSteps
  <2>2. CASE ~Exists(p)
    BY <1>9, <2>2, NoWriteStep DEF VerifyDropoff
  <2>3. CASE Exists(p)
    <3> DEFINE phase == Written(pkg[p].phase, req[r].seen.phase, FALSE)
               paid == Written(pkg[p].paid, req[r].seen.paid, TRUE)
    <3>1. pkg' = [pkg EXCEPT ![p].status = "DELIVERED", ![p].stamps = @ \cup {"deliveredAt"},
                             ![p].phase = phase, ![p].paid = paid]
      BY <1>9, <2>3 DEF VerifyDropoff
    <3> HIDE DEF phase, paid
    <3>2. /\ \A q \in Packages \ {p} : pkg'[q] = pkg[q]
          /\ pkg'[p].driverId = pkg[p].driverId
          /\ pkg'[p].status = "DELIVERED"
      <4>1. \A q \in Packages \ {p} : pkg'[q] = pkg[q]
        BY <1>2, <2>1, <3>1
      <4>2. pkg'[p].driverId = pkg[p].driverId
        BY <1>2, <2>1, <3>1 DEF PackageDoc
      <4>3. pkg'[p].status = "DELIVERED"
        BY <1>2, <2>1, <3>1 DEF PackageDoc
      <4> QED BY <4>1, <4>2, <4>3
    <3> QED BY <2>1, <2>3, <3>2, SaveStep
  <2> QED BY <2>2, <2>3
<1>10. CASE StatusSave(r)
  <2>1. p \in Packages /\ req[r].to \in ForcedStatuses
    BY <1>10, SlotTypes DEF StatusSave, PackageSteps
  <2>2. CASE ~Exists(p)
    BY <1>10, <2>2, NoWriteStep DEF StatusSave
  <2>3. CASE Exists(p)
    <3> DEFINE status == Written(pkg[p].status, req[r].seen.status, req[r].to)
               phase == IF req[r].to = "FAILED" THEN Written(pkg[p].phase, req[r].seen.phase, FALSE)
                                                ELSE pkg[p].phase
    <3>1. pkg' = [pkg EXCEPT ![p].status = status, ![p].phase = phase]
      BY <1>10, <2>3 DEF StatusSave
    <3>2. status = pkg[p].status \/ status \notin {"ABSENT", "REMOVED", "PENDING"}
      BY <2>1 DEF Written, ForcedStatuses
    <3> HIDE DEF status, phase
    <3>3. /\ \A q \in Packages \ {p} : pkg'[q] = pkg[q]
          /\ pkg'[p].driverId = pkg[p].driverId
          /\ pkg'[p].status = status
      <4>1. \A q \in Packages \ {p} : pkg'[q] = pkg[q]
        BY <1>2, <2>1, <3>1
      <4>2. pkg'[p].driverId = pkg[p].driverId
        BY <1>2, <2>1, <3>1 DEF PackageDoc
      <4>3. pkg'[p].status = status
        BY <1>2, <2>1, <3>1 DEF PackageDoc
      <4> QED BY <4>1, <4>2, <4>3
    <3> QED BY <2>1, <2>3, <3>2, <3>3, SaveStep
  <2> QED BY <2>2, <2>3
<1>11. CASE AcceptFind(r) \/ AcceptReserve(r) \/ AcceptLose(r)
  BY <1>11, NoWriteStep DEF AcceptFind, AcceptReserve, AcceptLose
<1>12. CASE \/ Release(r) \/ PayLoad(r) \/ PaySave(r) \/ DriverStatusSave(r)
            \/ AvailabilitySave(r)
  BY <1>12, NoWriteStep DEF Release, PayLoad, PaySave, DriverStatusSave, AvailabilitySave
<1> QED BY <1>3, <1>4, <1>5, <1>6, <1>7, <1>8, <1>9, <1>10, <1>11, <1>12 DEF Resume

LEMMA BeginClaims ==
    ASSUME NEW r \in Requests, Begin(r)
    PROVE  [Claims!Next]_claimMap
BY NoWriteStep
   DEF Begin, BeginUpdate, BeginCancel, BeginRetry, BeginAccept, BeginSync, BeginVerify,
       BeginUpdateStatus, BeginDriverStatus, BeginAvailability

LEMMA NextClaims ==
    ASSUME TypeInv, TypeInv', [Next]_vars
    PROVE  [Claims!Next]_claimMap
<1>1. pkg \in [Packages -> PackageDoc]
  BY DEF TypeInv, TypeOK
<1>2. ASSUME NEW p \in Packages, NEW service \in {"EXPRESS", "WAREHOUSE"},
             NEW price \in Prices, Create(p, service, price)
      PROVE  [Claims!Next]_claimMap
  <2>1. /\ pkg[p].status = "ABSENT"
        /\ pkg'[p].status = "PENDING" /\ pkg'[p].driverId = NoDriver
        /\ \A q \in Packages \ {p} : pkg'[q] = pkg[q]
    BY <1>1, <1>2 DEF Create, NoPackage
  <2>2. ClaimOf(p) = "absent" /\ ClaimOf(p)' = "open"
    BY <2>1 DEF ClaimOf
  <2>3. \A q \in Packages \ {p} : ClaimOf(q)' = ClaimOf(q)
    BY <2>1, OtherClaims
  <2>4. Claims!Publish(p)
    BY <2>2, <2>3, ClaimOne DEF Claims!Publish
  <2> QED BY <2>4 DEF Claims!Next
<1>3. ASSUME NEW p \in Packages, Remove(p)
      PROVE  [Claims!Next]_claimMap
  <2>1. /\ Exists(p) /\ pkg'[p].status = "REMOVED"
        /\ \A q \in Packages \ {p} : pkg'[q] = pkg[q]
    BY <1>1, <1>3 DEF Remove, NoPackage
  <2>2. ClaimOf(p) \notin {"absent", "deleted"} /\ ClaimOf(p)' = "deleted"
    BY <2>1, ClaimValues DEF ClaimOf, Exists
  <2>3. \A q \in Packages \ {p} : ClaimOf(q)' = ClaimOf(q)
    BY <2>1, OtherClaims
  <2>4. Claims!Delete(p)
    BY <2>2, <2>3, ClaimOne DEF Claims!Delete
  <2> QED BY <2>4 DEF Claims!Next
<1>4. ASSUME NEW r \in Requests, Begin(r) \/ Resume(r)
      PROVE  [Claims!Next]_claimMap
  BY <1>4, BeginClaims, ResumeClaims
<1>5. CASE Tick \/ Crash \/ UNCHANGED vars
  BY <1>5, NoWriteStep DEF Tick, Crash, vars
<1> QED BY <1>2, <1>3, <1>4, <1>5 DEF Next

\* Whatever the handlers of matching, of a trip and of the administrators
\* interleave, a booking is claimed at most once, by one driver, and never
\* after it was closed: packages.service.ts implements DeliveryClaim.
THEOREM ClaimRefinement == Spec => ClaimSpec
<1>1. Init => Claims!Init
  BY DEF Init, Claims!Init, claimMap, ClaimOf, NoPackage
<1>2. TypeInv /\ TypeInv' /\ [Next]_vars => [Claims!Next]_claimMap
  BY NextClaims
<1> QED BY <1>1, <1>2, InitType, NextType, PTL DEF Spec, ClaimSpec, Claims!Spec

-----------------------------------------------------------------------------
(* HandoverChain, for every set of bookings, drivers, request slots and     *)
(* operations, as long as administrators force no status but FAILED.        *)
(*                                                                         *)
(* The inductive invariant says why saving a status computed from an old    *)
(* document is harmless here: stamps are only ever added, so what a handler *)
(* saw stamped still is when it saves.                                      *)

\* The stamps a document carries are those its status requires.
Chained(doc) ==
    /\ doc.status \in DOMAIN RequiredStamps => RequiredStamps[doc.status] \subseteq doc.stamps
    /\ "acceptedAt" \in doc.stamps => doc.driverId # NoDriver
    /\ doc.paid => doc.stamps = Stamps

\* The handlers that save what follows from the document they loaded.
SeenSteps == {"updateSave", "syncSave", "verifySave"}

SeenInv(r) ==
    /\ req[r].step \in SeenSteps =>
           /\ Chained(req[r].seen)
           /\ pkg[req[r].p].status # "ABSENT"
           /\ Exists(req[r].p) => req[r].seen.stamps \subseteq pkg[req[r].p].stamps
    /\ req[r].step = "syncSave" => req[r].seen.status \in {"ACCEPTED", "IN_TRANSIT"}
    /\ req[r].step = "verifySave" /\ req[r].to = "PICKUP" =>
           req[r].seen.status = "ARRIVED_AT_PICKUP"
    /\ req[r].step = "verifySave" /\ req[r].to = "DROPOFF" =>
           req[r].seen.status = "ARRIVED_AT_DROPOFF"
    /\ req[r].step = "statusSave" => req[r].to = "FAILED"

HandoverInv ==
    /\ \A p \in Packages : Chained(pkg[p])
    /\ \A r \in Requests : SeenInv(r)

\* The slot of a handler that has ended, or goes on without its document.
Settled(slot) == slot.step \notin SeenSteps \cup {"statusSave"}

LEMMA ChainedTrivially ==
    ASSUME NEW status \in {"ABSENT", "REMOVED", "PENDING"}
    PROVE  Chained(NoPackage(status))
BY DEF Chained, NoPackage, RequiredStamps

\* A handler that writes no booking.
LEMMA NoWriteKeeps ==
    ASSUME HandoverInv, UNCHANGED pkg,
           \A s \in Requests : req'[s] = req[s] \/ Settled(req'[s])
    PROVE  HandoverInv'
<1>1. \A p \in Packages : Chained(pkg[p])'
  BY DEF HandoverInv, Chained
<1>2. ASSUME NEW s \in Requests PROVE SeenInv(s)'
  <2>1. CASE req'[s] = req[s]
    BY <2>1 DEF HandoverInv, SeenInv, Exists, Chained
  <2>2. CASE Settled(req'[s])
    BY <2>2 DEF Settled, SeenInv, SeenSteps
  <2> QED BY <2>1, <2>2
<1> QED BY <1>1, <1>2 DEF HandoverInv

\* A handler that writes one booking.
LEMMA WriteKeeps ==
    ASSUME HandoverInv, NEW p \in Packages,
           Exists(p),
           \A q \in Packages \ {p} : pkg'[q] = pkg[q],
           pkg'[p].status # "ABSENT",
           Exists(p)' => pkg[p].stamps \subseteq pkg'[p].stamps,
           Chained(pkg'[p]),
           \A s \in Requests : req[s].step \in SeenSteps => req[s].p \in Packages,
           \A s \in Requests : req'[s] = req[s] \/ Settled(req'[s])
    PROVE  HandoverInv'
<1>1. \A q \in Packages : Chained(pkg[q])'
  <2>1. ASSUME NEW q \in Packages \ {p} PROVE Chained(pkg'[q])
    BY DEF HandoverInv
  <2> QED BY <2>1 DEF Chained
<1>2. ASSUME NEW s \in Requests PROVE SeenInv(s)'
  <2>1. CASE Settled(req'[s])
    BY <2>1 DEF Settled, SeenInv, SeenSteps
  <2>2. CASE req'[s] = req[s] /\ ~Settled(req[s])
    <3>1. SeenInv(s)
      BY DEF HandoverInv
    <3>2. CASE req[s].step \in SeenSteps
      <4>1. req[s].p \in Packages
        BY <3>2
      <4>2. CASE req[s].p = p
        BY <2>2, <3>1, <4>2 DEF SeenInv, Exists, Chained
      <4>3. CASE req[s].p # p
        BY <2>2, <3>1, <4>1, <4>3 DEF SeenInv, Exists, Chained
      <4> QED BY <4>2, <4>3
    <3>3. CASE req[s].step \notin SeenSteps
      BY <2>2, <3>1, <3>3 DEF SeenInv, SeenSteps
    <3> QED BY <3>2, <3>3
  <2> QED BY <2>1, <2>2
<1> QED BY <1>1, <1>2 DEF HandoverInv

LEMMA SeenPackages ==
    ASSUME TypeInv, NEW s \in Requests, req[s].step \in SeenSteps
    PROVE  req[s].p \in Packages
BY DEF TypeInv, SlotOK, SeenSteps, PackageSteps

LEMMA FinishSettles ==
    ASSUME TypeInv, NEW r \in Requests, Finish(r), NEW s \in Requests
    PROVE  req'[s] = req[s] \/ Settled(req'[s])
BY IdleType DEF TypeInv, TypeOK, Finish, Settled, SeenSteps

LEMMA GotoSettles ==
    ASSUME TypeInv, NEW r \in Requests, NEW step \in {"payLoad", "release"}, Goto(r, step),
           NEW s \in Requests
    PROVE  req'[s] = req[s] \/ Settled(req'[s])
BY DEF TypeInv, TypeOK, RequestState, Goto, Settled, SeenSteps

LEMMA BeginHandover ==
    ASSUME AdminStatuses \subseteq {"FAILED"},
           TypeInv, HandoverInv, NEW r \in Requests, Begin(r)
    PROVE  HandoverInv'
<1>1. UNCHANGED pkg /\ \A s \in Requests \ {r} : req'[s] = req[s]
  BY DEF Begin, BeginUpdate, BeginCancel, BeginRetry, BeginAccept, BeginSync, BeginVerify,
         BeginUpdateStatus, BeginDriverStatus, BeginAvailability, Start, TypeInv, TypeOK
<1>2. SUFFICES SeenInv(r)'
  <2>1. \A p \in Packages : Chained(pkg[p])'
    BY <1>1 DEF HandoverInv, Chained
  <2>2. ASSUME NEW s \in Requests \ {r} PROVE SeenInv(s)'
    BY <1>1 DEF HandoverInv, SeenInv, Exists, Chained
  <2> QED BY <1>2, <2>1, <2>2 DEF HandoverInv
<1>3. ASSUME NEW p \in Packages, Exists(p), req'[r].p = p, req'[r].seen = pkg[p],
             req'[r].step = "syncSave" => pkg[p].status \in {"ACCEPTED", "IN_TRANSIT"},
             req'[r].step = "verifySave" =>
                 \/ req'[r].to = "PICKUP" /\ pkg[p].status = "ARRIVED_AT_PICKUP"
                 \/ req'[r].to = "DROPOFF" /\ pkg[p].status = "ARRIVED_AT_DROPOFF",
             req'[r].step = "statusSave" => req'[r].to = "FAILED"
      PROVE  SeenInv(r)'
  <2>1. Chained(req'[r].seen) /\ pkg'[req'[r].p] = pkg[p]
    BY <1>1, <1>3 DEF HandoverInv
  <2>2. pkg'[req'[r].p].status # "ABSENT" /\ req'[r].seen.stamps \subseteq pkg'[req'[r].p].stamps
    BY <1>3, <2>1 DEF Exists
  <2> QED BY <1>3, <2>1, <2>2 DEF SeenInv, Chained
<1>4. ASSUME Settled(req'[r]) PROVE SeenInv(r)'
  BY <1>4 DEF Settled, SeenInv, SeenSteps
<1>5. req \in [Requests -> RequestState] /\ Idle \in RequestState
  BY IdleType DEF TypeInv, TypeOK
<1>6. ASSUME NEW p \in Packages, BeginUpdate(r, p) PROVE SeenInv(r)'
  <2>1. /\ req'[r].p = p /\ req'[r].seen = pkg[p] /\ req'[r].step = "updateSave"
        /\ Exists(p)
    BY <1>5, <1>6 DEF BeginUpdate, Start, RequestState, Editable, Exists
  <2> QED BY <1>3, <2>1
<1>7. ASSUME NEW p \in Packages, BeginSync(r, p) PROVE SeenInv(r)'
  <2>1. /\ req'[r].p = p /\ req'[r].seen = pkg[p] /\ req'[r].step = "syncSave"
        /\ pkg[p].status \in {"ACCEPTED", "IN_TRANSIT"}
    BY <1>5, <1>7 DEF BeginSync, Start, RequestState
  <2>2. Exists(p)
    BY <2>1 DEF Exists
  <2> QED BY <1>3, <2>1, <2>2
<1>8. ASSUME NEW p \in Packages, NEW purpose \in {"PICKUP", "DROPOFF"},
             BeginVerify(r, p, purpose)
      PROVE  SeenInv(r)'
  <2>1. /\ req'[r].p = p /\ req'[r].seen = pkg[p] /\ req'[r].step = "verifySave"
        /\ req'[r].to = purpose
    BY <1>5, <1>8 DEF BeginVerify, Start, RequestState
  <2>2. \/ purpose = "PICKUP" /\ pkg[p].status = "ARRIVED_AT_PICKUP"
        \/ purpose = "DROPOFF" /\ pkg[p].status = "ARRIVED_AT_DROPOFF"
    BY <1>8 DEF BeginVerify, MayScan
  <2>3. Exists(p)
    BY <2>2 DEF Exists
  <2> QED BY <1>3, <2>1, <2>2, <2>3
<1>9. ASSUME NEW p \in Packages,
             NEW status \in {"PICKED_UP", "IN_TRANSIT", "DELIVERED", "FAILED"},
             BeginUpdateStatus(r, p, status)
      PROVE  SeenInv(r)'
  <2>1. /\ req'[r].p = p /\ req'[r].seen = pkg[p] /\ req'[r].step = "statusSave"
        /\ req'[r].to = status /\ Exists(p)
    BY <1>5, <1>9 DEF BeginUpdateStatus, Start, RequestState
  <2>2. status = "FAILED"
    BY <1>9 DEF BeginUpdateStatus
  <2> QED BY <1>3, <2>1, <2>2
<1>10. ASSUME NEW p \in Packages, BeginCancel(r, p) PROVE SeenInv(r)'
  <2>1. req'[r].step = "cancelWrite"
    BY <1>5, <1>10 DEF BeginCancel, Start, RequestState
  <2> QED BY <1>4, <2>1 DEF Settled, SeenSteps
<1>11. ASSUME NEW p \in Packages, BeginRetry(r, p) PROVE SeenInv(r)'
  <2>1. req'[r].step = "retrySave"
    BY <1>5, <1>11 DEF BeginRetry, Start, RequestState
  <2> QED BY <1>4, <2>1 DEF Settled, SeenSteps
<1>12. ASSUME NEW p \in Packages, NEW d \in Drivers, BeginAccept(r, p, d) PROVE SeenInv(r)'
  <2>1. req'[r].step = "acceptFind"
    BY <1>5, <1>12 DEF BeginAccept, Start, RequestState
  <2> QED BY <1>4, <2>1 DEF Settled, SeenSteps
<1>13. ASSUME NEW d \in Drivers, NEW to \in {"AVAILABLE", "OFFLINE", "none"},
             BeginDriverStatus(r, d, to)
       PROVE  SeenInv(r)'
  <2>1. req'[r].step = "onlineSave"
    BY <1>5, <1>13 DEF BeginDriverStatus, Start, RequestState
  <2> QED BY <1>4, <2>1 DEF Settled, SeenSteps
<1>14. ASSUME NEW d \in Drivers, NEW to \in Availability, BeginAvailability(r, d, to)
       PROVE  SeenInv(r)'
  <2>1. req'[r].step = "availabilitySave"
    BY <1>5, <1>14 DEF BeginAvailability, Start, RequestState
  <2> QED BY <1>4, <2>1 DEF Settled, SeenSteps
<1> QED BY <1>6, <1>7, <1>8, <1>9, <1>10, <1>11, <1>12, <1>13, <1>14 DEF Begin

\* The saves: each writes a document whose stamps follow from those it saw.
LEMMA ResumeHandover ==
    ASSUME TypeInv, TypeInv', HandoverInv, NEW r \in Requests, Resume(r)
    PROVE  HandoverInv'
<1> DEFINE p == req[r].p
           seen == req[r].seen
<1>1. req[r].step \in PackageSteps => p \in Packages /\ seen \in PackageDoc /\ pkg[p] \in PackageDoc
  BY SlotTypes
<1>2. pkg \in [Packages -> PackageDoc]
  BY DEF TypeInv, TypeOK
<1>3. \A s \in Requests : req[s].step \in SeenSteps => req[s].p \in Packages
  BY SeenPackages
<1>4. SeenInv(r) /\ \A q \in Packages : Chained(pkg[q])
  BY DEF HandoverInv
<1>5. ASSUME UNCHANGED pkg, Finish(r) PROVE HandoverInv'
  BY <1>5, FinishSettles, NoWriteKeeps
<1>6. ASSUME NEW q \in Packages, NEW doc, Exists(q), pkg' = [pkg EXCEPT ![q] = doc],
             doc.status \notin {"ABSENT", "REMOVED"}, pkg[q].stamps \subseteq doc.stamps,
             Chained(doc),
             \A s \in Requests : req'[s] = req[s] \/ Settled(req'[s])
      PROVE  HandoverInv'
  <2>1. pkg'[q] = doc /\ \A x \in Packages \ {q} : pkg'[x] = pkg[x]
    BY <1>2, <1>6
  <2> QED BY <1>3, <1>6, <2>1, WriteKeeps
<1>7. ASSUME NEW price \in Prices, NEW edits \in BOOLEAN, UpdateSave(r, price, edits)
      PROVE  HandoverInv'
  <2>1. p \in Packages /\ pkg[p] \in PackageDoc /\ seen \in PackageDoc
        /\ req[r].step = "updateSave" /\ Finish(r)
    BY <1>1, <1>7 DEF UpdateSave, PackageSteps
  <2>2. CASE ~Exists(p)
    BY <1>5, <1>7, <2>1, <2>2 DEF UpdateSave
  <2>3. CASE Exists(p)
    <3> DEFINE newPrice == Written(pkg[p].price, seen.price, price)
               newPaid == IF edits THEN seen.paid ELSE pkg[p].paid
               doc == [pkg[p] EXCEPT !.price = newPrice, !.paid = newPaid]
    <3>1. pkg' = [pkg EXCEPT ![p] = doc]
      BY <1>2, <1>7, <2>1, <2>3 DEF UpdateSave
    <3>2. doc.paid = newPaid /\ doc.status = pkg[p].status /\ doc.stamps = pkg[p].stamps
          /\ doc.driverId = pkg[p].driverId
      <4> HIDE DEF newPaid, newPrice, p
      <4> QED BY <2>1 DEF PackageDoc
    <3>3. newPaid => pkg[p].stamps = Stamps
      <4>1. Chained(seen) /\ seen.stamps \subseteq pkg[p].stamps
        BY <1>4, <2>1, <2>3 DEF SeenInv, SeenSteps
      <4>2. pkg[p].stamps \subseteq Stamps
        BY <2>1 DEF PackageDoc
      <4>3. (seen.paid => pkg[p].stamps = Stamps) /\ (pkg[p].paid => pkg[p].stamps = Stamps)
        BY <1>4, <2>1, <4>1, <4>2 DEF Chained
      <4> QED BY <4>3, Zenon
    <3>4. Chained(pkg[p])
      BY <1>4, <2>1
    <3> HIDE DEF newPaid, newPrice, doc, p
    <3>5. Chained(doc)
      BY <3>2, <3>3, <3>4, Zenon DEF Chained
    <3>6. doc.status \notin {"ABSENT", "REMOVED"}
      BY <2>3, <3>2 DEF Exists
    <3> QED BY <1>6, <2>1, <2>3, <3>1, <3>2, <3>5, <3>6, FinishSettles
  <2> QED BY <2>2, <2>3
<1>8. CASE CancelWrite(r)
  <2>1. p \in Packages /\ pkg[p] \in PackageDoc /\ Finish(r)
    BY <1>1, <1>8 DEF CancelWrite, PackageSteps
  <2>2. CASE ~Exists(p)
    BY <1>5, <1>8, <2>1, <2>2 DEF CancelWrite
  <2>3. CASE Exists(p)
    <3> DEFINE doc == [pkg[p] EXCEPT !.status = "CANCELLED"]
    <3>1. pkg' = [pkg EXCEPT ![p] = doc]
      BY <1>2, <1>8, <2>1, <2>3 DEF CancelWrite
    <3>2. Chained(doc) /\ doc.status = "CANCELLED" /\ doc.stamps = pkg[p].stamps
      BY <1>4, <2>1 DEF Chained, PackageDoc, RequiredStamps
    <3> HIDE DEF doc, p
    <3> QED BY <1>6, <2>1, <2>3, <3>1, <3>2, FinishSettles
  <2> QED BY <2>2, <2>3
<1>9. ASSUME NEW changed \in BOOLEAN, RetrySave(r, changed)
      PROVE  HandoverInv'
  <2>1. p \in Packages /\ pkg[p] \in PackageDoc /\ Finish(r)
    BY <1>1, <1>9 DEF RetrySave, PackageSteps
  <2>2. CASE pkg' = pkg
    BY <1>5, <2>1, <2>2
  <2>3. CASE pkg' # pkg
    <3> DEFINE expiry == req[r].at + BroadcastDuration
               attempt == seen.attempt + 1
               version == IF changed THEN pkg[p].v + 1 ELSE pkg[p].v
               doc == [pkg[p] EXCEPT !.expiresAt = expiry, !.attempt = attempt, !.v = version]
    <3>1. Exists(p) /\ pkg' = [pkg EXCEPT ![p] = doc]
      BY <1>2, <1>9, <2>1, <2>3 DEF RetrySave
    <3>2. /\ doc.status = pkg[p].status /\ doc.stamps = pkg[p].stamps
          /\ doc.driverId = pkg[p].driverId /\ doc.paid = pkg[p].paid
      <4> HIDE DEF expiry, attempt, version, p
      <4> QED BY <2>1 DEF PackageDoc
    <3>3. Chained(pkg[p])
      BY <1>4, <2>1
    <3> HIDE DEF doc, p
    <3>4. Chained(doc) /\ doc.status \notin {"ABSENT", "REMOVED"}
      BY <3>1, <3>2, <3>3 DEF Chained, Exists
    <3> QED BY <1>6, <2>1, <3>1, <3>2, <3>4, FinishSettles
  <2> QED BY <2>2, <2>3
<1>10. CASE AcceptClaim(r)
  <2>1. p \in Packages /\ pkg[p] \in PackageDoc /\ req[r].d \in Drivers /\ Finish(r)
    BY <1>1, <1>10, SlotTypes DEF AcceptClaim, PackageSteps, DriverSteps
  <2> DEFINE doc == [pkg[p] EXCEPT !.status = "ACCEPTED", !.driverId = req[r].d,
                                   !.stamps = @ \cup {"acceptedAt"}, !.phase = TRUE]
  <2>2. Exists(p) /\ pkg' = [pkg EXCEPT ![p] = doc]
    BY <1>2, <1>10, <2>1 DEF AcceptClaim, CanClaim, Exists
  <2>3. /\ doc.status = "ACCEPTED" /\ doc.stamps = pkg[p].stamps \cup {"acceptedAt"}
        /\ doc.driverId = req[r].d /\ doc.paid = pkg[p].paid
    BY <2>1 DEF PackageDoc
  <2>4. Chained(pkg[p]) /\ pkg[p].stamps \subseteq Stamps
    BY <1>4, <2>1 DEF PackageDoc
  <2> HIDE DEF doc, p
  <2>5. doc.paid => doc.stamps = Stamps
    BY <2>3, <2>4 DEF Chained, Stamps
  <2>6. Chained(doc)
    BY <2>1, <2>3, <2>5, ExpressAssumption DEF Chained, RequiredStamps
  <2> QED BY <1>6, <2>1, <2>2, <2>3, <2>6, FinishSettles
<1>11. CASE SyncSave(r)
  <2>1. p \in Packages /\ pkg[p] \in PackageDoc /\ seen \in PackageDoc
        /\ req[r].step = "syncSave" /\ Finish(r)
    BY <1>1, <1>11 DEF SyncSave, PackageSteps
  <2>2. CASE ~Exists(p)
    BY <1>5, <1>11, <2>1, <2>2 DEF SyncSave
  <2>3. CASE Exists(p)
    <3> DEFINE doc == [pkg[p] EXCEPT !.status = Arrival(seen.status),
                                     !.stamps = @ \cup {ArrivalStamp(seen.status)},
                                     !.phase = FALSE]
    <3>1. pkg' = [pkg EXCEPT ![p] = doc]
      BY <1>2, <1>11, <2>1, <2>3 DEF SyncSave
    <3>2. /\ doc.status = Arrival(seen.status)
          /\ doc.stamps = pkg[p].stamps \cup {ArrivalStamp(seen.status)}
          /\ doc.driverId = pkg[p].driverId /\ doc.paid = pkg[p].paid
      BY <2>1 DEF PackageDoc
    <3>3. /\ Chained(seen) /\ seen.stamps \subseteq pkg[p].stamps
          /\ seen.status \in {"ACCEPTED", "IN_TRANSIT"}
          /\ Chained(pkg[p]) /\ pkg[p].stamps \subseteq Stamps
      BY <1>4, <2>1, <2>3 DEF SeenInv, SeenSteps, PackageDoc
    <3> HIDE DEF doc, p, seen
    <3>4. RequiredStamps[doc.status] \subseteq doc.stamps /\ doc.status \notin {"ABSENT", "REMOVED"}
      BY <3>2, <3>3 DEF Chained, RequiredStamps, Arrival, ArrivalStamp, Stamps
    <3>5. ("acceptedAt" \in doc.stamps => doc.driverId # NoDriver)
          /\ (doc.paid => doc.stamps = Stamps)
      BY <3>2, <3>3 DEF Chained, ArrivalStamp, Stamps
    <3> QED BY <1>6, <2>1, <2>3, <3>1, <3>2, <3>4, <3>5, FinishSettles DEF Chained
  <2> QED BY <2>2, <2>3
<1>12. CASE VerifyPickup(r)
  <2>1. p \in Packages /\ pkg[p] \in PackageDoc /\ seen \in PackageDoc
        /\ req[r].step = "verifySave" /\ req[r].to = "PICKUP" /\ Finish(r)
    BY <1>1, <1>12 DEF VerifyPickup, PackageSteps
  <2>2. CASE ~Exists(p)
    BY <1>5, <1>12, <2>1, <2>2 DEF VerifyPickup
  <2>3. CASE Exists(p)
    <3> DEFINE doc == [pkg[p] EXCEPT !.status = "IN_TRANSIT", !.stamps = @ \cup {"pickedUpAt"},
                                     !.phase = TRUE]
    <3>1. pkg' = [pkg EXCEPT ![p] = doc]
      BY <1>2, <1>12, <2>1, <2>3 DEF VerifyPickup
    <3>2. /\ doc.status = "IN_TRANSIT" /\ doc.stamps = pkg[p].stamps \cup {"pickedUpAt"}
          /\ doc.driverId = pkg[p].driverId /\ doc.paid = pkg[p].paid
      BY <2>1 DEF PackageDoc
    <3>3. /\ Chained(seen) /\ seen.stamps \subseteq pkg[p].stamps
          /\ seen.status = "ARRIVED_AT_PICKUP"
          /\ Chained(pkg[p]) /\ pkg[p].stamps \subseteq Stamps
      BY <1>4, <2>1, <2>3 DEF SeenInv, SeenSteps, PackageDoc
    <3> HIDE DEF doc, p, seen
    <3>4. RequiredStamps[doc.status] \subseteq doc.stamps
      BY <3>2, <3>3 DEF Chained, RequiredStamps, Stamps
    <3>5. ("acceptedAt" \in doc.stamps => doc.driverId # NoDriver)
          /\ (doc.paid => doc.stamps = Stamps)
      BY <3>2, <3>3 DEF Chained, Stamps
    <3> QED BY <1>6, <2>1, <2>3, <3>1, <3>2, <3>4, <3>5, FinishSettles DEF Chained
  <2> QED BY <2>2, <2>3
<1>13. CASE VerifyDropoff(r)
  <2>1. p \in Packages /\ pkg[p] \in PackageDoc /\ seen \in PackageDoc
        /\ req[r].step = "verifySave" /\ req[r].to = "DROPOFF"
    BY <1>1, <1>13 DEF VerifyDropoff, PackageSteps
  <2>2. CASE ~Exists(p)
    BY <1>5, <1>13, <2>2 DEF VerifyDropoff
  <2>3. CASE Exists(p)
    <3> DEFINE newPhase == Written(pkg[p].phase, seen.phase, FALSE)
               newPaid == Written(pkg[p].paid, seen.paid, TRUE)
               doc == [pkg[p] EXCEPT !.status = "DELIVERED", !.stamps = @ \cup {"deliveredAt"},
                                     !.phase = newPhase, !.paid = newPaid]
    <3>1. pkg' = [pkg EXCEPT ![p] = doc]
      BY <1>2, <1>13, <2>1, <2>3 DEF VerifyDropoff
    <3>2. /\ doc.status = "DELIVERED" /\ doc.stamps = pkg[p].stamps \cup {"deliveredAt"}
          /\ doc.driverId = pkg[p].driverId
      <4> HIDE DEF newPhase, newPaid, p
      <4> QED BY <2>1 DEF PackageDoc
    <3>3. /\ Chained(seen) /\ seen.stamps \subseteq pkg[p].stamps
          /\ seen.status = "ARRIVED_AT_DROPOFF"
          /\ Chained(pkg[p]) /\ pkg[p].stamps \subseteq Stamps
      BY <1>4, <2>1, <2>3 DEF SeenInv, SeenSteps, PackageDoc
    <3>4. \A s \in Requests : req'[s] = req[s] \/ Settled(req'[s])
      <4>1. Finish(r) \/ Goto(r, "payLoad")
        BY <1>13, <2>3 DEF VerifyDropoff, Continue, AfterStatus
      <4> QED BY <4>1, FinishSettles, GotoSettles
    <3> HIDE DEF doc, p, seen
    <3>5. doc.stamps = Stamps
      BY <3>2, <3>3 DEF Chained, RequiredStamps, Stamps
    <3>6. "acceptedAt" \in doc.stamps => doc.driverId # NoDriver
      BY <3>2, <3>3 DEF Chained
    <3>7. Chained(doc)
      BY <3>2, <3>5, <3>6 DEF Chained, RequiredStamps
    <3> QED BY <1>6, <2>1, <2>3, <3>1, <3>2, <3>4, <3>7
  <2> QED BY <2>2, <2>3
<1>14. CASE StatusSave(r)
  <2>1. p \in Packages /\ pkg[p] \in PackageDoc /\ req[r].to = "FAILED"
    BY <1>1, <1>4, <1>14 DEF StatusSave, PackageSteps, SeenInv
  <2>2. CASE ~Exists(p)
    BY <1>5, <1>14, <2>2 DEF StatusSave
  <2>3. CASE Exists(p)
    <3> DEFINE status == Written(pkg[p].status, seen.status, "FAILED")
               phase == Written(pkg[p].phase, seen.phase, FALSE)
               doc == [pkg[p] EXCEPT !.status = status, !.phase = phase]
    <3>1. pkg' = [pkg EXCEPT ![p] = doc]
      BY <1>2, <1>14, <2>1, <2>3 DEF StatusSave
    <3>2. /\ doc.status \in {pkg[p].status, "FAILED"} /\ doc.stamps = pkg[p].stamps
          /\ doc.driverId = pkg[p].driverId /\ doc.paid = pkg[p].paid
      <4>1. status \in {pkg[p].status, "FAILED"}
        BY DEF Written
      <4> HIDE DEF status, phase, p
      <4> QED BY <2>1, <4>1 DEF PackageDoc
    <3>3. \A s \in Requests : req'[s] = req[s] \/ Settled(req'[s])
      <4>1. Finish(r) \/ Goto(r, "payLoad") \/ Goto(r, "release")
        BY <1>14, <2>1, <2>3 DEF StatusSave, Continue, AfterStatus
      <4> QED BY <4>1, FinishSettles, GotoSettles
    <3>4. Chained(pkg[p])
      BY <1>4, <2>1
    <3> HIDE DEF doc, p
    <3>5. Chained(doc) /\ doc.status \notin {"ABSENT", "REMOVED"}
      BY <2>3, <3>2, <3>4 DEF Chained, RequiredStamps, Exists
    <3> QED BY <1>6, <2>1, <2>3, <3>1, <3>2, <3>3, <3>5
  <2> QED BY <2>2, <2>3
<1>15. CASE AcceptFind(r) \/ AcceptReserve(r) \/ AcceptLose(r)
  <2>1. UNCHANGED pkg
    BY <1>15 DEF AcceptFind, AcceptReserve, AcceptLose
  <2>2. \/ Finish(r)
        \/ Goto(r, "release")
        \/ \E t \in {clock} : req' = [req EXCEPT ![r].step = "acceptReserve", ![r].at = t]
        \/ \E t \in req[r].at..clock : req' = [req EXCEPT ![r].step = "acceptClaim", ![r].at = t]
    BY <1>15 DEF AcceptFind, AcceptReserve, AcceptLose
  <2>3. \A s \in Requests : req'[s] = req[s] \/ Settled(req'[s])
    <3>1. CASE Finish(r) \/ Goto(r, "release")
      BY <3>1, FinishSettles, GotoSettles
    <3>2. ASSUME NEW t, NEW step \in {"acceptReserve", "acceptClaim"},
                 req' = [req EXCEPT ![r].step = step, ![r].at = t]
          PROVE  \A s \in Requests : req'[s] = req[s] \/ Settled(req'[s])
      BY <3>2 DEF TypeInv, TypeOK, RequestState, Settled, SeenSteps
    <3> QED BY <2>2, <3>1, <3>2
  <2> QED BY <2>1, <2>3, NoWriteKeeps
<1>16. CASE Release(r) \/ PaySave(r) \/ DriverStatusSave(r) \/ AvailabilitySave(r)
  BY <1>5, <1>16 DEF Release, PaySave, DriverStatusSave, AvailabilitySave
<1>17. CASE PayLoad(r)
  <2>1. UNCHANGED pkg /\ req' = [req EXCEPT ![r].step = "paySave", ![r].me = drv[req[r].d]]
    BY <1>17 DEF PayLoad
  <2>2. \A s \in Requests : req'[s] = req[s] \/ Settled(req'[s])
    BY <2>1 DEF TypeInv, TypeOK, RequestState, Settled, SeenSteps
  <2> QED BY <2>1, <2>2, NoWriteKeeps
<1> QED BY <1>7, <1>8, <1>9, <1>10, <1>11, <1>12, <1>13, <1>14, <1>15, <1>16, <1>17 DEF Resume

LEMMA NextHandover ==
    ASSUME AdminStatuses \subseteq {"FAILED"}, TypeInv, TypeInv', HandoverInv, [Next]_vars
    PROVE  HandoverInv'
<1>1. pkg \in [Packages -> PackageDoc]
  BY DEF TypeInv, TypeOK
<1>2. ASSUME NEW p \in Packages, NEW service \in {"EXPRESS", "WAREHOUSE"},
             NEW price \in Prices, Create(p, service, price)
      PROVE  HandoverInv'
  <2>1. /\ pkg[p].status = "ABSENT" /\ UNCHANGED req
        /\ pkg'[p].status = "PENDING" /\ pkg'[p].stamps = {} /\ pkg'[p].paid = FALSE
        /\ \A q \in Packages \ {p} : pkg'[q] = pkg[q]
    BY <1>1, <1>2 DEF Create, NoPackage
  <2>2. \A q \in Packages : Chained(pkg[q])'
    BY <2>1 DEF HandoverInv, Chained, RequiredStamps
  <2>3. ASSUME NEW s \in Requests PROVE SeenInv(s)'
    <3>1. SeenInv(s)
      BY DEF HandoverInv
    <3>2. CASE req[s].step \in SeenSteps
      <4>1. req[s].p \in Packages \ {p}
        BY <2>1, <3>1, <3>2, SeenPackages DEF SeenInv
      <4> QED BY <2>1, <3>1, <4>1 DEF SeenInv, Exists, Chained
    <3>3. CASE req[s].step \notin SeenSteps
      BY <2>1, <3>1, <3>3 DEF SeenInv, SeenSteps
    <3> QED BY <3>2, <3>3
  <2> QED BY <2>2, <2>3 DEF HandoverInv
<1>3. ASSUME NEW p \in Packages, Remove(p)
      PROVE  HandoverInv'
  <2>1. /\ Exists(p) /\ UNCHANGED req /\ pkg'[p] = NoPackage("REMOVED")
        /\ \A q \in Packages \ {p} : pkg'[q] = pkg[q]
    BY <1>1, <1>3 DEF Remove
  <2>2. pkg'[p].status = "REMOVED" /\ Chained(pkg'[p])
    BY <2>1, ChainedTrivially DEF NoPackage
  <2>3. ~Exists(p)'
    BY <2>2 DEF Exists
  <2> QED BY <2>1, <2>2, <2>3, SeenPackages, WriteKeeps
<1>4. ASSUME NEW r \in Requests, Begin(r) \/ Resume(r)
      PROVE  HandoverInv'
  BY <1>4, BeginHandover, ResumeHandover
<1>5. CASE Tick \/ UNCHANGED vars
  BY <1>5, NoWriteKeeps DEF Tick, vars
<1>6. CASE Crash
  <2>1. UNCHANGED pkg /\ \A s \in Requests : Settled(req'[s])
    BY <1>6, IdleType DEF Crash, Settled, SeenSteps
  <2> QED BY <2>1, NoWriteKeeps
<1> QED BY <1>2, <1>3, <1>4, <1>5, <1>6 DEF Next

\* Every hand-over is proved by the scans and arrivals that lead to it,
\* whatever the handlers of packages.service.ts interleave, crash or lose, as
\* long as administrators force no status but FAILED.
THEOREM HandoverCorrect ==
    ASSUME AdminStatuses \subseteq {"FAILED"}
    PROVE  Spec => []HandoverChain
<1>1. Init => HandoverInv
  <2> SUFFICES ASSUME Init PROVE HandoverInv
    OBVIOUS
  <2>1. \A p \in Packages : Chained(pkg[p])
    BY ChainedTrivially DEF Init
  <2>2. \A r \in Requests : SeenInv(r)
    BY IdleType DEF Init, SeenInv, SeenSteps
  <2> QED BY <2>1, <2>2 DEF HandoverInv
<1>2. TypeInv /\ TypeInv' /\ HandoverInv /\ [Next]_vars => HandoverInv'
  BY NextHandover
<1>3. TypeInv /\ HandoverInv => HandoverChain
  <2> SUFFICES ASSUME HandoverInv, NEW p \in Packages,
                      pkg[p].status \in DOMAIN RequiredStamps
               PROVE  /\ RequiredStamps[pkg[p].status] \subseteq pkg[p].stamps
                      /\ pkg[p].driverId # NoDriver
    BY DEF HandoverInv, HandoverChain, Chained
  <2> QED BY DEF HandoverInv, Chained, RequiredStamps, Stamps
<1> QED BY <1>1, <1>2, <1>3, InitType, NextType, PTL DEF Spec

-----------------------------------------------------------------------------
(* Matching.  NoDoubleBooking is not inductive: that no second handler can  *)
(* reserve a driver follows from the driver being ON_TRIP as long as he     *)
(* carries a booking or a reservation of him is in flight, because the      *)
(* reservation is filtered on AVAILABLE and the release is the only step    *)
(* that makes anyone AVAILABLE again.  That needs an instance in which no    *)
(* trip ends and no driver switches his availability: both may set a driver *)
(* free who carries a booking, and a driver may take the next one then.     *)

MatchingOnly ==
    Operations \cap {"DROPOFF", "updateStatus", "driverStatus", "availability"} = {}

HoldSteps == {"acceptClaim", "release"}

\* The steps at which handlers stand in such an instance.
MatchingSteps ==
    {"idle", "acceptFind", "acceptReserve", "acceptClaim", "release", "retrySave",
     "updateSave", "cancelWrite", "syncSave", "verifySave"}

MatchingSlot(slot) ==
    slot.step \in MatchingSteps /\ (slot.step = "verifySave" => slot.to = "PICKUP")

BookedIsOnTrip ==
    \A d \in Drivers :
        (\/ \E p \in Packages : pkg[p].driverId = d
         \/ \E r \in Requests : Holds(r, d)) => drv[d].availability = "ON_TRIP"

MatchInv ==
    /\ NoDoubleBooking
    /\ BookedIsOnTrip
    /\ \A r \in Requests : MatchingSlot(req[r])

\* The converse, for ReservationAccounted.
AccountInv ==
    /\ ReservationAccounted
    /\ \A p \in Packages : pkg[p].status = "ABSENT" => pkg[p].driverId = NoDriver

\* A step that neither gives nor takes a driver.
Quiet(r) ==
    /\ UNCHANGED drv
    /\ \A p \in Packages : /\ pkg'[p].driverId = pkg[p].driverId
                           /\ pkg'[p].status = "ABSENT" => pkg[p].status = "ABSENT"
    /\ \A s \in Requests \ {r} : req'[s] = req[s]
    /\ req[r].step \in HoldSteps <=> req'[r].step \in HoldSteps
    /\ req'[r].step \in HoldSteps => req'[r].d = req[r].d
    /\ MatchingSlot(req'[r])

LEMMA QuietHolds ==
    ASSUME NEW r \in Requests, Quiet(r)
    PROVE  \A s \in Requests, d \in Drivers : Holds(s, d)' <=> Holds(s, d)
<1>1. ASSUME NEW s \in Requests, NEW d \in Drivers PROVE Holds(s, d)' <=> Holds(s, d)
  <2>1. CASE s = r
    BY <2>1 DEF Quiet, Holds, HoldSteps
  <2>2. CASE s # r
    BY <2>2 DEF Quiet, Holds
  <2> QED BY <2>1, <2>2
<1> QED BY <1>1

\* As long as the drivers stay as they are, fewer bookings and fewer
\* reservations never break the matching.
LEMMA FewerKeep ==
    ASSUME MatchInv, UNCHANGED drv,
           \A p \in Packages : pkg'[p].driverId \in {pkg[p].driverId, NoDriver},
           \A s \in Requests, d \in Drivers : Holds(s, d)' => Holds(s, d)
    PROVE  NoDoubleBooking' /\ BookedIsOnTrip'
<1>1. \A p \in Packages, d \in Drivers : pkg'[p].driverId = d => pkg[p].driverId = d
  BY ExpressAssumption
<1>2. NoDoubleBooking'
  BY <1>1 DEF MatchInv, NoDoubleBooking
<1>3. BookedIsOnTrip'
  BY <1>1 DEF MatchInv, BookedIsOnTrip
<1> QED BY <1>2, <1>3

LEMMA QuietMatching ==
    ASSUME MatchInv, NEW r \in Requests, Quiet(r)
    PROVE  MatchInv'
<1>1. NoDoubleBooking' /\ BookedIsOnTrip'
  BY QuietHolds, FewerKeep DEF Quiet
<1>2. \A s \in Requests : MatchingSlot(req[s])'
  BY DEF MatchInv, Quiet, MatchingSlot
<1> QED BY <1>1, <1>2 DEF MatchInv

LEMMA QuietAccount ==
    ASSUME AccountInv, NEW r \in Requests, Quiet(r)
    PROVE  AccountInv'
<1>1. \A s \in Requests, d \in Drivers : Holds(s, d)' <=> Holds(s, d)
  BY QuietHolds
<1>2. ReservationAccounted'
  BY <1>1 DEF AccountInv, ReservationAccounted, Quiet
<1> QED BY <1>2 DEF AccountInv, Quiet

LEMMA BeginQuiet ==
    ASSUME MatchingOnly, TypeInv, NEW r \in Requests, Begin(r)
    PROVE  Quiet(r)
<1>1. /\ UNCHANGED <<pkg, drv>> /\ req[r].step = "idle"
      /\ \A s \in Requests \ {r} : req'[s] = req[s]
  BY DEF Begin, BeginUpdate, BeginCancel, BeginRetry, BeginAccept, BeginSync, BeginVerify,
         BeginUpdateStatus, BeginDriverStatus, BeginAvailability, Start, TypeInv, TypeOK
<1>2. SUFFICES MatchingSlot(req'[r]) /\ req'[r].step \notin HoldSteps
  BY <1>1, <1>2 DEF Quiet, HoldSteps
<1>3. req \in [Requests -> RequestState] /\ Idle \in RequestState
  BY IdleType DEF TypeInv, TypeOK
<1>4. ASSUME NEW p \in Packages, BeginUpdate(r, p) PROVE req'[r].step = "updateSave"
  BY <1>3, <1>4 DEF BeginUpdate, Start, RequestState
<1>5. ASSUME NEW p \in Packages, BeginCancel(r, p) PROVE req'[r].step = "cancelWrite"
  BY <1>3, <1>5 DEF BeginCancel, Start, RequestState
<1>6. ASSUME NEW p \in Packages, BeginRetry(r, p) PROVE req'[r].step = "retrySave"
  BY <1>3, <1>6 DEF BeginRetry, Start, RequestState
<1>7. ASSUME NEW p \in Packages, NEW d \in Drivers, BeginAccept(r, p, d)
      PROVE  req'[r].step = "acceptFind"
  BY <1>3, <1>7 DEF BeginAccept, Start, RequestState
<1>8. ASSUME NEW p \in Packages, BeginSync(r, p) PROVE req'[r].step = "syncSave"
  BY <1>3, <1>8 DEF BeginSync, Start, RequestState
<1>9. ASSUME NEW p \in Packages, NEW purpose \in {"PICKUP", "DROPOFF"},
             BeginVerify(r, p, purpose)
      PROVE  req'[r].step = "verifySave" /\ req'[r].to = "PICKUP"
  <2>1. purpose = "PICKUP"
    BY <1>9 DEF BeginVerify, MatchingOnly
  <2> QED BY <1>3, <1>9, <2>1 DEF BeginVerify, Start, RequestState
<1>10. ASSUME NEW p \in Packages, NEW status \in ForcedStatuses, BeginUpdateStatus(r, p, status)
       PROVE  FALSE
  BY <1>10 DEF BeginUpdateStatus, MatchingOnly
<1>11. ASSUME NEW d \in Drivers, NEW to \in {"AVAILABLE", "OFFLINE", "none"},
              BeginDriverStatus(r, d, to)
       PROVE  FALSE
  BY <1>11 DEF BeginDriverStatus, MatchingOnly
<1>12. ASSUME NEW d \in Drivers, NEW to \in Availability, BeginAvailability(r, d, to)
       PROVE  FALSE
  BY <1>12 DEF BeginAvailability, MatchingOnly
<1>13. \/ req'[r].step \in {"updateSave", "cancelWrite", "retrySave", "acceptFind", "syncSave"}
       \/ req'[r].step = "verifySave" /\ req'[r].to = "PICKUP"
  BY <1>4, <1>5, <1>6, <1>7, <1>8, <1>9, <1>10, <1>11, <1>12 DEF Begin, ForcedStatuses
<1> QED BY <1>13 DEF MatchingSlot, MatchingSteps, HoldSteps

\* A handler that ends releases nothing by itself.
LEMMA FinishQuiet ==
    ASSUME TypeInv, NEW r \in Requests, req[r].step \in PackageSteps \ HoldSteps, Finish(r),
           UNCHANGED drv,
           \A p \in Packages : /\ pkg'[p].driverId = pkg[p].driverId
                               /\ pkg'[p].status = "ABSENT" => pkg[p].status = "ABSENT"
    PROVE  Quiet(r)
<1>1. req'[r] = Idle /\ \A s \in Requests \ {r} : req'[s] = req[s]
  BY DEF Finish, TypeInv, TypeOK
<1>2. req'[r].step = "idle"
  BY <1>1, IdleType
<1> QED BY <1>1, <1>2 DEF Quiet, HoldSteps, MatchingSlot, MatchingSteps

\* The saves before and during a trip leave the driver's name alone.
LEMMA SavesQuiet ==
    ASSUME TypeInv, NEW r \in Requests,
           \/ \E price \in Prices, edits \in BOOLEAN : UpdateSave(r, price, edits)
           \/ CancelWrite(r)
           \/ \E changed \in BOOLEAN : RetrySave(r, changed)
           \/ SyncSave(r)
           \/ VerifyPickup(r)
    PROVE  Quiet(r)
<1> DEFINE p == req[r].p
<1>1. req[r].step \in PackageSteps \ HoldSteps /\ Finish(r) /\ UNCHANGED drv
  BY DEF UpdateSave, CancelWrite, RetrySave, SyncSave, VerifyPickup, PackageSteps, HoldSteps
<1>2. p \in Packages /\ pkg \in [Packages -> PackageDoc] /\ pkg[p] \in PackageDoc
  BY <1>1, SlotTypes DEF TypeInv, TypeOK
<1>3. ASSUME NEW doc \in PackageDoc, pkg' = [pkg EXCEPT ![p] = doc],
             doc.driverId = pkg[p].driverId, doc.status # "ABSENT"
      PROVE  Quiet(r)
  BY <1>1, <1>2, <1>3, FinishQuiet
<1>4. ASSUME pkg' = pkg PROVE Quiet(r)
  BY <1>1, <1>4, FinishQuiet
<1> HIDE DEF p
<1>5. ASSUME NEW price \in Prices, NEW edits \in BOOLEAN, UpdateSave(r, price, edits), Exists(p)
      PROVE  \A q \in Packages : /\ pkg'[q].driverId = pkg[q].driverId
                                 /\ pkg'[q].status = pkg[q].status
  <2> DEFINE newPrice == Written(pkg[p].price, req[r].seen.price, price)
             newPaid == IF edits THEN req[r].seen.paid ELSE pkg[p].paid
  <2>1. pkg' = [pkg EXCEPT ![p].price = newPrice, ![p].paid = newPaid]
    BY <1>2, <1>5 DEF UpdateSave, p
  <2> HIDE DEF newPrice, newPaid
  <2> QED BY <1>2, <2>1 DEF PackageDoc
<1>6. ASSUME NEW price \in Prices, NEW edits \in BOOLEAN, UpdateSave(r, price, edits)
      PROVE  Quiet(r)
  <2>1. CASE Exists(p)
    BY <1>1, <1>5, <1>6, <2>1, FinishQuiet
  <2>2. CASE ~Exists(p)
    BY <1>4, <1>6, <2>2 DEF UpdateSave, p
  <2> QED BY <2>1, <2>2
<1>7. CASE CancelWrite(r)
  <2>1. \/ pkg' = pkg
        \/ pkg' = [pkg EXCEPT ![p].status = "CANCELLED"]
    BY <1>7 DEF CancelWrite, p
  <2> QED BY <1>1, <1>2, <2>1, FinishQuiet DEF PackageDoc
<1>8. ASSUME NEW changed \in BOOLEAN, RetrySave(r, changed) PROVE Quiet(r)
  <2> DEFINE expiry == req[r].at + BroadcastDuration
             attempt == req[r].seen.attempt + 1
             version == IF changed THEN pkg[p].v + 1 ELSE pkg[p].v
  <2>1. \/ pkg' = pkg
        \/ pkg' = [pkg EXCEPT ![p].expiresAt = expiry, ![p].attempt = attempt, ![p].v = version]
    BY <1>2, <1>8 DEF RetrySave, p
  <2> HIDE DEF expiry, attempt, version
  <2>2. \A q \in Packages : /\ pkg'[q].driverId = pkg[q].driverId
                            /\ pkg'[q].status = pkg[q].status
    BY <1>2, <2>1 DEF PackageDoc
  <2> QED BY <1>1, <2>2, FinishQuiet
<1>9. CASE SyncSave(r)
  <2> DEFINE arrival == Arrival(req[r].seen.status)
             stamp == ArrivalStamp(req[r].seen.status)
  <2>1. \/ pkg' = pkg
        \/ pkg' = [pkg EXCEPT ![p].status = arrival, ![p].stamps = @ \cup {stamp},
                              ![p].phase = FALSE]
    BY <1>9 DEF SyncSave, p
  <2>2. arrival # "ABSENT"
    BY DEF Arrival
  <2> HIDE DEF arrival, stamp
  <2>3. \A q \in Packages : /\ pkg'[q].driverId = pkg[q].driverId
                            /\ pkg'[q].status = "ABSENT" => pkg[q].status = "ABSENT"
    BY <1>2, <2>1, <2>2 DEF PackageDoc
  <2> QED BY <1>1, <2>3, FinishQuiet
<1>10. CASE VerifyPickup(r)
  <2>1. \/ pkg' = pkg
        \/ pkg' = [pkg EXCEPT ![p].status = "IN_TRANSIT", ![p].stamps = @ \cup {"pickedUpAt"},
                              ![p].phase = TRUE]
    BY <1>10 DEF VerifyPickup, p
  <2>2. \A q \in Packages : /\ pkg'[q].driverId = pkg[q].driverId
                            /\ pkg'[q].status = "ABSENT" => pkg[q].status = "ABSENT"
    BY <1>2, <2>1 DEF PackageDoc
  <2> QED BY <1>1, <2>2, FinishQuiet
<1> QED BY <1>6, <1>7, <1>8, <1>9, <1>10

LEMMA AcceptFindQuiet ==
    ASSUME TypeInv, NEW r \in Requests, AcceptFind(r)
    PROVE  Quiet(r)
<1>1. req[r].step = "acceptFind" /\ UNCHANGED <<pkg, drv>> /\ req \in [Requests -> RequestState]
  BY DEF AcceptFind, TypeInv, TypeOK
<1>2. CASE CanClaim(req[r].p, clock)
  <2>1. /\ req'[r].step = "acceptReserve" /\ req'[r].d = req[r].d
        /\ \A s \in Requests \ {r} : req'[s] = req[s]
    BY <1>1, <1>2 DEF AcceptFind, RequestState
  <2> QED BY <1>1, <2>1 DEF Quiet, HoldSteps, MatchingSlot, MatchingSteps
<1>3. CASE ~CanClaim(req[r].p, clock)
  BY <1>1, <1>3, FinishQuiet DEF AcceptFind, PackageSteps, HoldSteps
<1> QED BY <1>2, <1>3

\* The reservation: the driver was AVAILABLE, so he carried nothing and no
\* other handler held him; now this one does.
LEMMA ReserveMatching ==
    ASSUME TypeInv, MatchInv, NEW r \in Requests, AcceptReserve(r)
    PROVE  MatchInv' /\ (AccountInv => AccountInv')
<1> DEFINE d == req[r].d
<1>1. /\ UNCHANGED pkg /\ req[r].step = "acceptReserve"
      /\ d \in Drivers /\ drv[d] \in DriverDoc /\ drv \in [Drivers -> DriverDoc]
      /\ req \in [Requests -> RequestState] /\ req[r] \in RequestState
  BY SlotTypes DEF AcceptReserve, DriverSteps, TypeInv, TypeOK
<1>2. CASE UNCHANGED drv /\ Finish(r)
  <2>1. Quiet(r)
    BY <1>1, <1>2, FinishQuiet DEF PackageSteps, HoldSteps
  <2> QED BY <2>1, QuietMatching, QuietAccount
<1>3. ASSUME NEW acceptedAt \in req[r].at..clock, CanReserve(d),
             drv' = [drv EXCEPT ![d].availability = "ON_TRIP"],
             req' = [req EXCEPT ![r].step = "acceptClaim", ![r].at = acceptedAt]
      PROVE  MatchInv' /\ (AccountInv => AccountInv')
  <2>1. /\ req'[r].step = "acceptClaim" /\ req'[r].d = d
        /\ \A s \in Requests \ {r} : req'[s] = req[s]
    BY <1>1, <1>3 DEF RequestState
  <2>2. /\ drv'[d].availability = "ON_TRIP"
        /\ \A e \in Drivers \ {d} : drv'[e].availability = drv[e].availability
    BY <1>1, <1>3 DEF DriverDoc
  <2>3. /\ \A p \in Packages : pkg[p].driverId # d
        /\ \A s \in Requests : ~Holds(s, d)
    BY <1>1, <1>3 DEF CanReserve, MatchInv, BookedIsOnTrip
  <2> HIDE DEF d
  <2>4. /\ \A e \in Drivers : Holds(r, e)' <=> e = d
        /\ \A e \in Drivers : ~Holds(r, e)
        /\ \A s \in Requests \ {r}, e \in Drivers : Holds(s, e)' <=> Holds(s, e)
    BY <1>1, <2>1 DEF Holds
  <2>5. NoDoubleBooking'
    <3>1. ASSUME NEW e \in Drivers, NEW s \in Requests, NEW t \in Requests,
                 Holds(s, e)', Holds(t, e)'
          PROVE  s = t
      <4>1. CASE e = d
        BY <2>3, <2>4, <3>1, <4>1
      <4>2. CASE e # d
        <5>1. Holds(s, e) /\ Holds(t, e)
          BY <2>4, <3>1, <4>2
        <5> QED BY <5>1 DEF MatchInv, NoDoubleBooking
      <4> QED BY <4>1, <4>2
    <3>2. ASSUME NEW e \in Drivers, NEW s \in Requests, NEW p \in Packages, Holds(s, e)'
          PROVE  pkg'[p].driverId # e
      <4>1. CASE e = d
        BY <1>1, <2>3, <4>1
      <4>2. CASE e # d
        <5>1. Holds(s, e)
          BY <2>4, <3>2, <4>2
        <5> QED BY <1>1, <5>1 DEF MatchInv, NoDoubleBooking
      <4> QED BY <4>1, <4>2
    <3>3. \A e \in Drivers : \A p, q \in Packages :
              pkg'[p].driverId = e /\ pkg'[q].driverId = e => p = q
      BY <1>1 DEF MatchInv, NoDoubleBooking
    <3> QED BY <3>1, <3>2, <3>3 DEF NoDoubleBooking
  <2>6. BookedIsOnTrip'
    <3>1. ASSUME NEW e \in Drivers \ {d},
                 (\E p \in Packages : pkg'[p].driverId = e) \/ (\E s \in Requests : Holds(s, e)')
          PROVE  drv'[e].availability = "ON_TRIP"
      <4>1. (\E p \in Packages : pkg[p].driverId = e) \/ (\E s \in Requests : Holds(s, e))
        BY <1>1, <2>4, <3>1
      <4> QED BY <2>2, <4>1 DEF MatchInv, BookedIsOnTrip
    <3> QED BY <2>2, <3>1 DEF BookedIsOnTrip
  <2>7. \A s \in Requests : MatchingSlot(req[s])'
    BY <2>1 DEF MatchInv, MatchingSlot, MatchingSteps
  <2>8. ASSUME AccountInv PROVE AccountInv'
    <3>1. ASSUME NEW e \in Drivers \ {d}, drv'[e].availability = "ON_TRIP"
          PROVE  (\E p \in Packages : pkg'[p].driverId = e) \/ (\E s \in Requests : Holds(s, e)')
      <4>1. (\E p \in Packages : pkg[p].driverId = e) \/ (\E s \in Requests : Holds(s, e))
        BY <2>2, <2>8, <3>1 DEF AccountInv, ReservationAccounted
      <4> QED BY <1>1, <2>4, <4>1
    <3>2. \A e \in Drivers : e = d => Holds(r, e)' /\ r \in Requests
      BY <2>4
    <3>3. ASSUME NEW e \in Drivers
          PROVE  drv'[e].availability = "ON_TRIP" <=>
                     (\E p \in Packages : pkg'[p].driverId = e) \/ (\E s \in Requests : Holds(s, e)')
      BY <2>6, <3>1, <3>2 DEF BookedIsOnTrip
    <3>4. ReservationAccounted'
      BY <3>3 DEF ReservationAccounted
    <3> QED BY <1>1, <2>8, <3>4 DEF AccountInv
  <2> QED BY <2>5, <2>6, <2>7, <2>8 DEF MatchInv
<1> QED BY <1>2, <1>3 DEF AcceptReserve

\* The claim turns the handler's reservation into a booking of the same driver.
LEMMA ClaimMatching ==
    ASSUME TypeInv, MatchInv, NEW r \in Requests, AcceptClaim(r)
    PROVE  MatchInv' /\ (AccountInv => AccountInv')
<1>1. PICK d \in Drivers, p \in Packages : d = req[r].d /\ p = req[r].p
  BY SlotTypes DEF AcceptClaim, PackageSteps, DriverSteps
<1>2. /\ UNCHANGED drv /\ req[r].step = "acceptClaim" /\ Finish(r)
      /\ pkg[p].driverId = NoDriver /\ pkg[p].status = "PENDING"
      /\ pkg \in [Packages -> PackageDoc] /\ req \in [Requests -> RequestState]
  BY <1>1 DEF AcceptClaim, CanClaim, TypeInv, TypeOK
<1>3. /\ pkg'[p].driverId = d /\ pkg'[p].status = "ACCEPTED"
      /\ \A q \in Packages \ {p} : pkg'[q] = pkg[q]
  BY <1>1, <1>2 DEF AcceptClaim, PackageDoc
<1>4. req'[r].step = "idle" /\ \A s \in Requests \ {r} : req'[s] = req[s]
  BY <1>2, IdleType DEF Finish
<1>5. /\ \A e \in Drivers : ~Holds(r, e)' /\ (Holds(r, e) <=> e = d)
      /\ \A s \in Requests \ {r}, e \in Drivers : Holds(s, e)' <=> Holds(s, e)
  BY <1>1, <1>2, <1>4 DEF Holds
<1>6. /\ \A q \in Packages : pkg[q].driverId # d
      /\ \A s \in Requests \ {r} : ~Holds(s, d)
      /\ drv[d].availability = "ON_TRIP"
  BY <1>5 DEF MatchInv, NoDoubleBooking, BookedIsOnTrip
<1>7. NoDoubleBooking'
  <2>1. ASSUME NEW e \in Drivers, NEW q \in Packages, NEW q2 \in Packages,
               pkg'[q].driverId = e, pkg'[q2].driverId = e
        PROVE  q = q2
    BY <1>3, <1>6, <2>1 DEF MatchInv, NoDoubleBooking
  <2>2. ASSUME NEW e \in Drivers, NEW s \in Requests, NEW t \in Requests,
               Holds(s, e)', Holds(t, e)'
        PROVE  s = t
    BY <1>5, <2>2 DEF MatchInv, NoDoubleBooking
  <2>3. ASSUME NEW e \in Drivers, NEW s \in Requests, NEW q \in Packages, Holds(s, e)'
        PROVE  pkg'[q].driverId # e
    <3>1. Holds(s, e) /\ s # r /\ e # d
      BY <1>5, <1>6, <2>3
    <3> QED BY <1>3, <3>1 DEF MatchInv, NoDoubleBooking
  <2> QED BY <2>1, <2>2, <2>3 DEF NoDoubleBooking
<1>8. BookedIsOnTrip'
  <2>1. ASSUME NEW e \in Drivers \ {d},
               (\E q \in Packages : pkg'[q].driverId = e) \/ (\E s \in Requests : Holds(s, e)')
        PROVE  drv'[e].availability = "ON_TRIP"
    <3>1. (\E q \in Packages : pkg[q].driverId = e) \/ (\E s \in Requests : Holds(s, e))
      BY <1>3, <1>5, <2>1
    <3> QED BY <1>2, <3>1 DEF MatchInv, BookedIsOnTrip
  <2> QED BY <1>2, <1>6, <2>1 DEF BookedIsOnTrip
<1>9. \A s \in Requests : MatchingSlot(req[s])'
  BY <1>4 DEF MatchInv, MatchingSlot, MatchingSteps
<1>10. ASSUME AccountInv PROVE AccountInv'
  <2>1. ASSUME NEW e \in Drivers \ {d}, drv'[e].availability = "ON_TRIP"
        PROVE  (\E q \in Packages : pkg'[q].driverId = e) \/ (\E s \in Requests : Holds(s, e)')
    <3>1. (\E q \in Packages : pkg[q].driverId = e) \/ (\E s \in Requests : Holds(s, e))
      BY <1>2, <1>10, <2>1 DEF AccountInv, ReservationAccounted
    <3>2. ASSUME NEW q \in Packages, pkg[q].driverId = e PROVE pkg'[q].driverId = e
      BY <1>2, <1>3, <3>2, ExpressAssumption
    <3>3. ASSUME NEW s \in Requests, Holds(s, e) PROVE Holds(s, e)'
      <4>1. s # r
        BY <1>5, <2>1, <3>3
      <4> QED BY <1>5, <3>3, <4>1
    <3> QED BY <3>1, <3>2, <3>3
  <2>2. ReservationAccounted'
    BY <1>3, <1>8, <2>1 DEF ReservationAccounted, BookedIsOnTrip
  <2> QED BY <1>3, <1>10, <2>2 DEF AccountInv
<1> QED BY <1>7, <1>8, <1>9, <1>10 DEF MatchInv

\* The compensation of a lost race frees a driver whom only this handler held.
LEMMA ReleaseMatching ==
    ASSUME TypeInv, MatchInv, NEW r \in Requests, Release(r)
    PROVE  MatchInv' /\ (AccountInv => AccountInv')
<1>1. PICK d \in Drivers : d = req[r].d
  BY SlotTypes DEF Release, DriverSteps
<1>2. /\ UNCHANGED pkg /\ req[r].step = "release" /\ Finish(r)
      /\ drv \in [Drivers -> DriverDoc] /\ req \in [Requests -> RequestState]
  BY DEF Release, TypeInv, TypeOK
<1>3. req'[r].step = "idle" /\ \A s \in Requests \ {r} : req'[s] = req[s]
  BY <1>2, IdleType DEF Finish
<1>4. /\ \A e \in Drivers : ~Holds(r, e)' /\ (Holds(r, e) <=> e = d)
      /\ \A s \in Requests \ {r}, e \in Drivers : Holds(s, e)' <=> Holds(s, e)
  BY <1>1, <1>2, <1>3 DEF Holds
<1>5. /\ \A q \in Packages : pkg[q].driverId # d
      /\ \A s \in Requests \ {r} : ~Holds(s, d)
      /\ drv[d].availability = "ON_TRIP"
  BY <1>4 DEF MatchInv, NoDoubleBooking, BookedIsOnTrip
<1>6. /\ drv'[d].availability = "AVAILABLE"
      /\ \A e \in Drivers \ {d} : drv'[e].availability = drv[e].availability
  <2>1. drv' = [drv EXCEPT ![d].availability = "AVAILABLE"]
    BY <1>1, <1>2, <1>5 DEF Release
  <2> QED BY <1>2, <2>1 DEF DriverDoc
<1>7. \A s \in Requests, e \in Drivers : Holds(s, e)' => Holds(s, e) /\ e # d
  BY <1>4, <1>5
<1>8. NoDoubleBooking'
  BY <1>2, <1>7 DEF MatchInv, NoDoubleBooking
<1>9. BookedIsOnTrip'
  <2>1. ASSUME NEW e \in Drivers,
               (\E q \in Packages : pkg'[q].driverId = e) \/ (\E s \in Requests : Holds(s, e)')
        PROVE  drv'[e].availability = "ON_TRIP"
    <3>1. e # d /\ ((\E q \in Packages : pkg[q].driverId = e) \/ (\E s \in Requests : Holds(s, e)))
      BY <1>2, <1>5, <1>7, <2>1
    <3> QED BY <1>6, <3>1 DEF MatchInv, BookedIsOnTrip
  <2> QED BY <2>1 DEF BookedIsOnTrip
<1>10. \A s \in Requests : MatchingSlot(req[s])'
  BY <1>3 DEF MatchInv, MatchingSlot, MatchingSteps
<1>11. ASSUME AccountInv PROVE AccountInv'
  <2>1. ASSUME NEW e \in Drivers, drv'[e].availability = "ON_TRIP"
        PROVE  (\E q \in Packages : pkg'[q].driverId = e) \/ (\E s \in Requests : Holds(s, e)')
    <3>1. e # d
      BY <1>6, <2>1
    <3>2. (\E q \in Packages : pkg[q].driverId = e) \/ (\E s \in Requests : Holds(s, e))
      BY <1>6, <1>11, <2>1, <3>1 DEF AccountInv, ReservationAccounted
    <3>3. ASSUME NEW s \in Requests, Holds(s, e) PROVE Holds(s, e)'
      <4>1. s # r
        BY <1>4, <3>1, <3>3
      <4> QED BY <1>4, <3>3, <4>1
    <3> QED BY <1>2, <3>2, <3>3
  <2>2. ReservationAccounted'
    BY <1>9, <2>1 DEF ReservationAccounted, BookedIsOnTrip
  <2> QED BY <1>2, <1>11, <2>2 DEF AccountInv
<1> QED BY <1>8, <1>9, <1>10, <1>11 DEF MatchInv

LEMMA LoseQuiet ==
    ASSUME TypeInv, NEW r \in Requests, AcceptLose(r)
    PROVE  Quiet(r)
<1>1. /\ UNCHANGED <<pkg, drv>> /\ req[r].step = "acceptClaim"
      /\ req \in [Requests -> RequestState] /\ req' = [req EXCEPT ![r].step = "release"]
  BY DEF AcceptLose, Goto, TypeInv, TypeOK
<1>2. /\ req'[r].step = "release" /\ req'[r].d = req[r].d
      /\ \A s \in Requests \ {r} : req'[s] = req[s]
  BY <1>1 DEF RequestState
<1> QED BY <1>1, <1>2 DEF Quiet, HoldSteps, MatchingSlot, MatchingSteps

LEMMA ResumeMatching ==
    ASSUME TypeInv, MatchInv, NEW r \in Requests, Resume(r)
    PROVE  MatchInv' /\ (AccountInv => AccountInv')
<1>1. ASSUME Quiet(r) PROVE MatchInv' /\ (AccountInv => AccountInv')
  BY <1>1, QuietMatching, QuietAccount
<1>2. req[r].step \in MatchingSteps /\ (req[r].step = "verifySave" => req[r].to = "PICKUP")
  BY DEF MatchInv, MatchingSlot
<1>3. ~VerifyDropoff(r) /\ ~StatusSave(r) /\ ~PayLoad(r) /\ ~PaySave(r)
      /\ ~DriverStatusSave(r) /\ ~AvailabilitySave(r)
  BY <1>2 DEF MatchingSteps, VerifyDropoff, StatusSave, PayLoad, PaySave, DriverStatusSave,
              AvailabilitySave
<1> QED BY <1>1, <1>3, SavesQuiet, AcceptFindQuiet, LoseQuiet, ReserveMatching, ClaimMatching,
           ReleaseMatching DEF Resume

LEMMA NextMatching ==
    ASSUME MatchingOnly, TypeInv, MatchInv, [Next]_vars
    PROVE  /\ MatchInv'
           /\ "remove" \notin Operations /\ MaxCrashes = 0 /\ AccountInv => AccountInv'
<1>1. ASSUME NEW r \in Requests, Begin(r)
      PROVE  MatchInv' /\ (AccountInv => AccountInv')
  BY <1>1, BeginQuiet, QuietMatching, QuietAccount
<1>2. ASSUME UNCHANGED <<drv, req>>,
             \A p \in Packages : pkg'[p].driverId \in {pkg[p].driverId, NoDriver}
      PROVE  MatchInv'
  <2>1. NoDoubleBooking' /\ BookedIsOnTrip'
    BY <1>2, FewerKeep DEF Holds
  <2>2. \A s \in Requests : MatchingSlot(req[s])'
    BY <1>2 DEF MatchInv, MatchingSlot
  <2> QED BY <2>1, <2>2 DEF MatchInv
<1>3. ASSUME UNCHANGED <<drv, req>>, AccountInv,
             \A p \in Packages : /\ pkg'[p].driverId = pkg[p].driverId
                                 /\ pkg'[p].status = "ABSENT" => pkg[p].status = "ABSENT"
      PROVE  AccountInv'
  BY <1>3 DEF AccountInv, ReservationAccounted, Holds
<1>4. ASSUME NEW p \in Packages, NEW service \in {"EXPRESS", "WAREHOUSE"},
             NEW price \in Prices, Create(p, service, price)
      PROVE  MatchInv' /\ (AccountInv => AccountInv')
  <2>1. /\ UNCHANGED <<drv, req>> /\ pkg[p].status = "ABSENT"
        /\ pkg'[p].driverId = NoDriver /\ pkg'[p].status = "PENDING"
        /\ \A q \in Packages \ {p} : pkg'[q] = pkg[q]
    BY <1>4 DEF Create, NoPackage, TypeInv, TypeOK
  <2>2. MatchInv'
    BY <1>2, <2>1
  <2>3. ASSUME AccountInv PROVE AccountInv'
    <3>1. pkg[p].driverId = NoDriver
      BY <2>1, <2>3 DEF AccountInv
    <3> QED BY <1>3, <2>1, <2>3, <3>1
  <2> QED BY <2>2, <2>3
<1>5. ASSUME NEW p \in Packages, Remove(p)
      PROVE  MatchInv' /\ "remove" \in Operations
  <2>1. UNCHANGED <<drv, req>> /\ "remove" \in Operations
    BY <1>5 DEF Remove
  <2>2. \A q \in Packages : pkg'[q].driverId \in {pkg[q].driverId, NoDriver}
    BY <1>5 DEF Remove, NoPackage, TypeInv, TypeOK
  <2> QED BY <1>2, <2>1, <2>2
<1>6. CASE Tick \/ UNCHANGED vars
  <2>1. UNCHANGED <<pkg, drv, req>>
    BY <1>6 DEF Tick, vars
  <2> QED BY <1>2, <1>3, <2>1
<1>7. ASSUME Crash
      PROVE  MatchInv' /\ MaxCrashes # 0
  <2>1. UNCHANGED <<pkg, drv>> /\ \A s \in Requests : req'[s].step = "idle"
    BY <1>7, IdleType DEF Crash
  <2>2. NoDoubleBooking' /\ BookedIsOnTrip'
    BY <2>1, FewerKeep DEF Holds
  <2>3. \A s \in Requests : MatchingSlot(req[s])'
    BY <2>1 DEF MatchingSlot, MatchingSteps
  <2>4. MaxCrashes # 0
    <3>1. crashes \in Nat /\ crashes < MaxCrashes /\ MaxCrashes \in Nat
      BY <1>7, ExpressAssumption DEF Crash, TypeInv, TypeOK
    <3> QED BY <3>1
  <2> QED BY <2>2, <2>3, <2>4 DEF MatchInv
<1> QED BY <1>1, <1>4, <1>5, <1>6, <1>7, ResumeMatching DEF Next

LEMMA InitMatching == Init => MatchInv /\ AccountInv
<1> SUFFICES ASSUME Init PROVE MatchInv /\ AccountInv
  OBVIOUS
<1>1. \A p \in Packages : pkg[p].driverId = NoDriver
  BY DEF Init, NoPackage
<1>2. \A r \in Requests : req[r].step = "idle"
  BY IdleType DEF Init
<1>3. \A d \in Drivers : drv[d].availability # "ON_TRIP"
  <2>1. \A d \in Drivers :
            \/ drv[d] = NewDriver
            \/ drv[d] = [NewDriver EXCEPT !.availability = "AVAILABLE", !.online = TRUE]
    BY DEF Init
  <2>2. /\ NewDriver.availability = "OFFLINE"
        /\ [NewDriver EXCEPT !.availability = "AVAILABLE", !.online = TRUE].availability
               = "AVAILABLE"
    BY DEF NewDriver
  <2> QED BY <2>1, <2>2
<1>4. \A d \in Drivers : /\ \A r \in Requests : ~Holds(r, d)
                         /\ \A p \in Packages : pkg[p].driverId # d
  BY <1>1, <1>2, ExpressAssumption DEF Holds
<1>5. MatchInv
  BY <1>2, <1>4 DEF MatchInv, NoDoubleBooking, BookedIsOnTrip, MatchingSlot, MatchingSteps
<1>6. AccountInv
  BY <1>1, <1>3, <1>4 DEF AccountInv, ReservationAccounted
<1> QED BY <1>5, <1>6

\* Whatever the handlers interleave, crash or lose, no driver is booked twice
\* and no reservation is given up under a driver who carries a booking: for
\* every set of drivers, bookings and handlers, until a trip ends or a driver
\* switches his own availability (acceptPackage, packages.service.ts:426).
THEOREM BookedOnce ==
    ASSUME MatchingOnly
    PROVE  Spec => []NoDoubleBooking
<1>1. Init => MatchInv
  BY InitMatching
<1>2. TypeInv /\ MatchInv /\ [Next]_vars => MatchInv'
  BY NextMatching
<1>3. MatchInv => NoDoubleBooking
  BY DEF MatchInv
<1> QED BY <1>1, <1>2, <1>3, InitType, NextType, PTL DEF Spec

\* A driver is ON_TRIP exactly while he carries a booking or a handler holds
\* his reservation, as long as no process dies and no booking is hard-deleted.
THEOREM ReservationsAccounted ==
    ASSUME MatchingOnly, "remove" \notin Operations, MaxCrashes = 0
    PROVE  Spec => []ReservationAccounted
<1>1. Init => MatchInv /\ AccountInv
  BY InitMatching
<1>2. TypeInv /\ MatchInv /\ AccountInv /\ [Next]_vars => MatchInv' /\ AccountInv'
  BY NextMatching
<1>3. AccountInv => ReservationAccounted
  BY DEF AccountInv
<1> QED BY <1>1, <1>2, <1>3, InitType, NextType, PTL DEF Spec

-----------------------------------------------------------------------------
(* Payouts.  A payout adds a price to a balance that was read earlier, and   *)
(* a status change writes back one that was, so that nothing can be said of  *)
(* the balance alone.  The invariant counts, for each driver, the payouts    *)
(* still on their way: with them neither his balance nor any balance that a  *)
(* suspended handler has read of him is more than what he has earned.       *)

PaySteps == {"payLoad", "paySave"}

\* What the handler is still to add to the balance of d.
Owed(slot, d) == IF slot.step \in PaySteps /\ slot.d = d THEN slot.seen.price ELSE 0

OwedBy(d) == [r \in Requests |-> Owed(req[r], d)]

Due(d) == SumFunctionOnSet(OwedBy(d), Requests)

PayInv ==
    \A d \in Drivers :
        /\ drv[d].balance + Due(d) <= payouts[d]
        /\ \A r \in Requests : req[r].d = d => req[r].me.balance + Due(d) <= payouts[d]

LEMMA OwedNat ==
    ASSUME NEW slot \in RequestState, NEW d \in Drivers
    PROVE  Owed(slot, d) \in Nat
<1>1. slot.seen \in PackageDoc
  BY DEF RequestState
<1>2. slot.seen.price \in Prices \cup {0}
  BY <1>1 DEF PackageDoc
<1>3. Prices \cup {0} \subseteq Nat
  BY ExpressAssumption
<1>4. slot.seen.price \in Nat
  BY <1>2, <1>3
<1> QED BY <1>4 DEF Owed

LEMMA DueNat ==
    ASSUME TypeInv, NEW d \in Drivers
    PROVE  Due(d) \in Nat
<1>1. IsFiniteSet(Requests)
  BY ExpressAssumption
<1> DEFINE f == OwedBy(d)
<1>2. \A r \in Requests : f[r] \in Nat
  BY OwedNat DEF OwedBy, TypeInv, TypeOK
<1> HIDE DEF f
<1>3. SumFunctionOnSet(f, Requests) \in Nat
  BY <1>1, <1>2, SumNat
<1> QED BY <1>3 DEF Due, f

\* What one handler's step does to the payouts on their way.
LEMMA DueStep ==
    ASSUME TypeInv, TypeInv', NEW d \in Drivers, NEW r \in Requests,
           \A s \in Requests \ {r} : Owed(req'[s], d) = Owed(req[s], d)
    PROVE  Due(d)' = Due(d) - Owed(req[r], d) + Owed(req'[r], d)
<1>1. IsFiniteSet(Requests)
  BY ExpressAssumption
<1> DEFINE f == [s \in Requests |-> Owed(req[s], d)]
           f2 == [s \in Requests |-> Owed(req'[s], d)]
<1>2. \A s \in Requests : /\ f[s] \in Int /\ f[s] = Owed(req[s], d)
                          /\ f2[s] \in Int /\ f2[s] = Owed(req'[s], d)
                          /\ s # r => f2[s] = f[s]
  BY OwedNat DEF TypeInv, TypeOK
<1>3. Due(d) = SumFunctionOnSet(f, Requests) /\ Due(d)' = SumFunctionOnSet(f2, Requests)
  BY DEF Due, OwedBy
<1> HIDE DEF f, f2
<1>4. SumFunctionOnSet(f2, Requests) = SumFunctionOnSet(f, Requests) - f[r] + f2[r]
  BY <1>1, <1>2, SumChange
<1> QED BY <1>2, <1>3, <1>4

\* A step that writes no balance but one that was read of the same driver, and
\* that entitles a driver to exactly the payouts it starts.
Fair(r) ==
    /\ \A s \in Requests \ {r} : req'[s] = req[s]
    /\ \A d \in Drivers :
           /\ payouts'[d] + Owed(req[r], d) = payouts[d] + Owed(req'[r], d)
           /\ \/ drv'[d].balance = drv[d].balance
              \/ req[r].d = d /\ drv'[d].balance = req[r].me.balance
           /\ req'[r].d = d => \/ req'[r].me.balance = 0
                               \/ req'[r].me.balance = drv[d].balance
                               \/ req[r].d = d /\ req'[r].me.balance = req[r].me.balance

LEMMA Balances ==
    /\ \A doc \in DriverDoc : doc.balance \in Nat
    /\ \A slot \in RequestState : slot.me.balance \in Nat
<1>1. \A doc \in DriverDoc : doc.balance \in Nat
  BY DEF DriverDoc
<1>2. \A slot \in RequestState : slot.me \in DriverDoc
  BY DEF RequestState
<1> QED BY <1>1, <1>2

LEMMA FairPays ==
    ASSUME TypeInv, TypeInv', PayInv, NEW r \in Requests, Fair(r)
    PROVE  PayInv'
<1> SUFFICES ASSUME NEW d \in Drivers
             PROVE  /\ drv'[d].balance + Due(d)' <= payouts'[d]
                    /\ \A s \in Requests : req'[s].d = d =>
                           req'[s].me.balance + Due(d)' <= payouts'[d]
  BY DEF PayInv
<1> DEFINE before == Owed(req[r], d)
           after == Owed(req'[r], d)
           due == Due(d)
           due2 == Due(d)'
<1>1. due2 = due - before + after /\ due \in Nat
  BY DueStep, DueNat DEF Fair
<1>2. before \in Nat /\ after \in Nat
  BY OwedNat DEF TypeInv, TypeOK
<1>3. /\ drv[d].balance \in Nat /\ payouts[d] \in Nat
      /\ drv'[d].balance \in Nat /\ payouts'[d] \in Nat
      /\ \A s \in Requests : req[s].me.balance \in Nat /\ req'[s].me.balance \in Nat
  BY Balances DEF TypeInv, TypeOK
<1>4. payouts'[d] + before = payouts[d] + after
  BY DEF Fair
<1>5. /\ drv[d].balance + due <= payouts[d]
      /\ \A s \in Requests : req[s].d = d => req[s].me.balance + due <= payouts[d]
  BY DEF PayInv
<1> HIDE DEF before, after, due, due2
<1>6. ASSUME NEW b \in Nat, b + due <= payouts[d] PROVE b + due2 <= payouts'[d]
  BY <1>1, <1>2, <1>3, <1>4, <1>6
<1>7. due <= payouts[d]
  BY <1>1, <1>3, <1>5
<1>8. drv'[d].balance + due2 <= payouts'[d]
  BY <1>3, <1>5, <1>6 DEF Fair
<1>9. ASSUME NEW s \in Requests, req'[s].d = d
      PROVE  req'[s].me.balance + due2 <= payouts'[d]
  <2>1. CASE s # r
    <3>1. req'[s] = req[s]
      BY <2>1 DEF Fair
    <3> QED BY <1>3, <1>5, <1>6, <1>9, <3>1
  <2>2. CASE s = r
    <3>1. \/ req'[s].me.balance = 0
          \/ req'[s].me.balance = drv[d].balance
          \/ req[s].d = d /\ req'[s].me.balance = req[s].me.balance
      BY <1>9, <2>2 DEF Fair
    <3>2. req'[s].me.balance + due <= payouts[d]
      BY <1>1, <1>3, <1>5, <1>7, <3>1
    <3> QED BY <1>3, <1>6, <3>2
  <2> QED BY <2>1, <2>2
<1> QED BY <1>8, <1>9 DEF due2

LEMMA BeginFair ==
    ASSUME TypeInv, NEW r \in Requests, Begin(r)
    PROVE  Fair(r)
<1>1. /\ UNCHANGED <<drv, payouts>> /\ req[r].step = "idle"
      /\ \A s \in Requests \ {r} : req'[s] = req[s]
  BY DEF Begin, BeginUpdate, BeginCancel, BeginRetry, BeginAccept, BeginSync, BeginVerify,
         BeginUpdateStatus, BeginDriverStatus, BeginAvailability, Start, TypeInv, TypeOK
<1>2. SUFFICES /\ req'[r].step \notin PaySteps
               /\ \/ req'[r].me.balance = 0
                  \/ req'[r].d \in Drivers /\ req'[r].me = drv[req'[r].d]
  BY <1>1, <1>2, Balances DEF Fair, Owed, PaySteps, TypeInv, TypeOK
<1>3. req \in [Requests -> RequestState] /\ Idle \in RequestState /\ Idle.me.balance = 0
  BY IdleType DEF TypeInv, TypeOK, Idle, NewDriver
<1>4. ASSUME NEW p \in Packages, BeginUpdate(r, p)
      PROVE  req'[r].step = "updateSave" /\ req'[r].me.balance = 0
  BY <1>3, <1>4 DEF BeginUpdate, Start, RequestState
<1>5. ASSUME NEW p \in Packages, BeginCancel(r, p)
      PROVE  req'[r].step = "cancelWrite" /\ req'[r].me.balance = 0
  BY <1>3, <1>5 DEF BeginCancel, Start, RequestState
<1>6. ASSUME NEW p \in Packages, BeginRetry(r, p)
      PROVE  req'[r].step = "retrySave" /\ req'[r].me.balance = 0
  BY <1>3, <1>6 DEF BeginRetry, Start, RequestState
<1>7. ASSUME NEW p \in Packages, NEW d \in Drivers, BeginAccept(r, p, d)
      PROVE  req'[r].step = "acceptFind" /\ req'[r].me.balance = 0
  BY <1>3, <1>7 DEF BeginAccept, Start, RequestState
<1>8. ASSUME NEW p \in Packages, BeginSync(r, p)
      PROVE  req'[r].step = "syncSave" /\ req'[r].me.balance = 0
  BY <1>3, <1>8 DEF BeginSync, Start, RequestState
<1>9. ASSUME NEW p \in Packages, NEW purpose \in {"PICKUP", "DROPOFF"},
             BeginVerify(r, p, purpose)
      PROVE  req'[r].step = "verifySave" /\ req'[r].me.balance = 0
  BY <1>3, <1>9 DEF BeginVerify, Start, RequestState
<1>10. ASSUME NEW p \in Packages, NEW status \in ForcedStatuses, BeginUpdateStatus(r, p, status)
       PROVE  req'[r].step = "statusSave" /\ req'[r].me.balance = 0
  BY <1>3, <1>10 DEF BeginUpdateStatus, Start, RequestState
<1>11. ASSUME NEW d \in Drivers, NEW to \in {"AVAILABLE", "OFFLINE", "none"},
              BeginDriverStatus(r, d, to)
       PROVE  req'[r].step = "onlineSave" /\ req'[r].d = d /\ req'[r].me = drv[d]
  BY <1>3, <1>11 DEF BeginDriverStatus, Start, RequestState
<1>12. ASSUME NEW d \in Drivers, NEW to \in Availability, BeginAvailability(r, d, to)
       PROVE  req'[r].step = "availabilitySave" /\ req'[r].d = d /\ req'[r].me = drv[d]
  BY <1>3, <1>12 DEF BeginAvailability, Start, RequestState
<1> QED BY <1>4, <1>5, <1>6, <1>7, <1>8, <1>9, <1>10, <1>11, <1>12
        DEF Begin, ForcedStatuses, PaySteps

\* A handler that pays nothing ends.
LEMMA FinishFair ==
    ASSUME TypeInv, NEW r \in Requests, req[r].step \notin PaySteps, Finish(r),
           UNCHANGED payouts,
           \A d \in Drivers : \/ drv'[d].balance = drv[d].balance
                              \/ req[r].d = d /\ drv'[d].balance = req[r].me.balance
    PROVE  Fair(r)
<1>1. req'[r] = Idle /\ \A s \in Requests \ {r} : req'[s] = req[s]
  BY DEF Finish, TypeInv, TypeOK
<1>2. Idle.step = "idle" /\ Idle.d = NoDriver
  BY DEF Idle
<1> QED BY <1>1, <1>2, ExpressAssumption, Balances DEF Fair, Owed, PaySteps, TypeInv, TypeOK

\* A handler goes on to a step that pays nothing, the driver documents as they were.
LEMMA GotoFair ==
    ASSUME TypeInv, NEW r \in Requests, NEW step \in Steps \ PaySteps,
           req[r].step \notin PaySteps, UNCHANGED <<drv, payouts>>,
           req'[r].step = step, req'[r].d = req[r].d, req'[r].me = req[r].me,
           \A s \in Requests \ {r} : req'[s] = req[s]
    PROVE  Fair(r)
BY Balances DEF Fair, Owed, TypeInv, TypeOK

\* The commit of a delivery entitles the driver to what the handler will pay.
LEMMA EntitleFair ==
    ASSUME TypeInv, NEW r \in Requests, req[r].step \notin PaySteps, req[r].d \in Drivers,
           Goto(r, "payLoad"), Entitle(req[r].d, req[r].seen.price), UNCHANGED drv
    PROVE  Fair(r)
<1>1. PICK d \in Drivers : d = req[r].d
  OBVIOUS
<1>2. PICK price \in Nat : price = req[r].seen.price
  <2>1. req[r].seen.price \in Prices \cup {0}
    BY SlotTypes DEF PackageDoc
  <2>2. Prices \cup {0} \subseteq Nat
    BY ExpressAssumption
  <2> QED BY <2>1, <2>2
<1>3. /\ req'[r].step = "payLoad" /\ req'[r].d = d /\ req'[r].me = req[r].me
      /\ req'[r].seen.price = price
      /\ \A s \in Requests \ {r} : req'[s] = req[s]
  <2>1. req \in [Requests -> RequestState] /\ req[r] \in RequestState
    BY DEF TypeInv, TypeOK
  <2> QED BY <1>1, <1>2, <2>1 DEF Goto, RequestState
<1>4. /\ payouts \in [Drivers -> Nat] /\ drv' = drv
      /\ payouts' = [payouts EXCEPT ![d] = @ + price]
  BY <1>1, <1>2, ExpressAssumption DEF Entitle, TypeInv, TypeOK
<1>5. ASSUME NEW e \in Drivers
      PROVE  payouts'[e] + Owed(req[r], e) = payouts[e] + Owed(req'[r], e)
  <2>1. Owed(req[r], e) = 0 /\ Owed(req'[r], e) = (IF e = d THEN price ELSE 0)
    BY <1>3 DEF Owed, PaySteps
  <2>2. payouts'[e] = payouts[e] + (IF e = d THEN price ELSE 0) /\ payouts[e] \in Nat
    BY <1>4
  <2> QED BY <2>1, <2>2
<1> QED BY <1>1, <1>3, <1>4, <1>5 DEF Fair

LEMMA CommitsFair ==
    ASSUME TypeInv, NEW r \in Requests, VerifyDropoff(r) \/ StatusSave(r)
    PROVE  Fair(r)
<1>0. /\ req[r].step \in {"verifySave", "statusSave"} /\ UNCHANGED drv
      /\ req[r].d \in Drivers \cup {NoDriver}
  BY SlotTypes DEF VerifyDropoff, StatusSave
<1>1. ASSUME Finish(r), UNCHANGED payouts PROVE Fair(r)
  BY <1>0, <1>1, FinishFair DEF PaySteps
<1>2. ASSUME Goto(r, "payLoad"), req[r].d \in Drivers, Entitle(req[r].d, req[r].seen.price)
      PROVE  Fair(r)
  BY <1>0, <1>2, EntitleFair DEF PaySteps
<1>3. CASE VerifyDropoff(r)
  <2>1. CASE ~Exists(req[r].p)
    BY <1>1, <1>3, <2>1 DEF VerifyDropoff
  <2>2. CASE Exists(req[r].p)
    <3>1. /\ Entitle(req[r].d, req[r].seen.price)
          /\ Continue(r, AfterStatus("DELIVERED", req[r].d))
      BY <1>3, <2>2 DEF VerifyDropoff
    <3>2. CASE req[r].d = NoDriver
      BY <1>1, <3>1, <3>2 DEF Entitle, Continue, AfterStatus
    <3>3. CASE req[r].d # NoDriver
      BY <1>0, <1>2, <3>1, <3>3 DEF Continue, AfterStatus
    <3> QED BY <3>2, <3>3
  <2> QED BY <2>1, <2>2
<1>4. CASE StatusSave(r)
  <2>1. CASE ~Exists(req[r].p)
    BY <1>1, <1>4, <2>1 DEF StatusSave
  <2>2. CASE Exists(req[r].p)
    <3>1. /\ IF req[r].to = "DELIVERED" THEN Entitle(req[r].d, req[r].seen.price)
                                        ELSE UNCHANGED payouts
          /\ Continue(r, AfterStatus(req[r].to, req[r].d))
      BY <1>4, <2>2 DEF StatusSave
    <3>2. CASE req[r].to = "DELIVERED" /\ req[r].d # NoDriver
      BY <1>0, <1>2, <3>1, <3>2 DEF Continue, AfterStatus
    <3>3. CASE req[r].to = "FAILED" /\ req[r].d # NoDriver
      <4>1. Goto(r, "release") /\ UNCHANGED payouts
        BY <3>1, <3>3 DEF Continue, AfterStatus
      <4>2. req \in [Requests -> RequestState] /\ req[r] \in RequestState
        BY DEF TypeInv, TypeOK
      <4>3. /\ req'[r].step = "release" /\ req'[r].d = req[r].d /\ req'[r].me = req[r].me
            /\ \A s \in Requests \ {r} : req'[s] = req[s]
        BY <4>1, <4>2 DEF Goto, RequestState
      <4>4. "release" \in Steps \ PaySteps /\ req[r].step \notin PaySteps
        BY <1>0 DEF Steps, PaySteps
      <4> QED BY <1>0, <4>1, <4>3, <4>4, GotoFair
    <3>4. CASE req[r].d = NoDriver \/ req[r].to \notin {"DELIVERED", "FAILED"}
      <4>1. UNCHANGED payouts
        BY <3>1, <3>4 DEF Entitle
      <4>2. Finish(r)
        BY <3>1, <3>4 DEF Continue, AfterStatus
      <4> QED BY <1>1, <4>1, <4>2
    <3> QED BY <3>2, <3>3, <3>4
  <2> QED BY <2>1, <2>2
<1> QED BY <1>3, <1>4

LEMMA AcceptFair ==
    ASSUME TypeInv, NEW r \in Requests, AcceptFind(r) \/ AcceptReserve(r) \/ AcceptLose(r)
    PROVE  Fair(r)
<1>1. /\ UNCHANGED payouts /\ req \in [Requests -> RequestState] /\ req[r] \in RequestState
      /\ req[r].step \in {"acceptFind", "acceptReserve", "acceptClaim"}
      /\ req[r].step \notin PaySteps
  BY DEF AcceptFind, AcceptReserve, AcceptLose, TypeInv, TypeOK, PaySteps
<1>2. {"acceptReserve", "acceptClaim", "release"} \subseteq Steps \ PaySteps
  BY DEF Steps, PaySteps
<1>3. CASE Finish(r) /\ UNCHANGED drv
  BY <1>1, <1>3, FinishFair
<1>4. CASE AcceptFind(r) /\ ~Finish(r)
  <2>1. req' = [req EXCEPT ![r].step = "acceptReserve", ![r].at = clock] /\ UNCHANGED drv
    BY <1>4 DEF AcceptFind
  <2>2. /\ req'[r].step = "acceptReserve" /\ req'[r].d = req[r].d /\ req'[r].me = req[r].me
        /\ \A s \in Requests \ {r} : req'[s] = req[s]
    BY <1>1, <2>1 DEF RequestState
  <2> QED BY <1>1, <1>2, <2>1, <2>2, GotoFair
<1>5. CASE AcceptLose(r)
  <2>1. req' = [req EXCEPT ![r].step = "release"] /\ UNCHANGED drv
    BY <1>5 DEF AcceptLose, Goto
  <2>2. /\ req'[r].step = "release" /\ req'[r].d = req[r].d /\ req'[r].me = req[r].me
        /\ \A s \in Requests \ {r} : req'[s] = req[s]
    BY <1>1, <2>1 DEF RequestState
  <2> QED BY <1>1, <1>2, <2>1, <2>2, GotoFair
<1>6. CASE AcceptReserve(r) /\ ~(Finish(r) /\ UNCHANGED drv)
  <2>1. PICK acceptedAt \in req[r].at..clock :
            /\ drv' = [drv EXCEPT ![req[r].d].availability = "ON_TRIP"]
            /\ req' = [req EXCEPT ![r].step = "acceptClaim", ![r].at = acceptedAt]
    BY <1>6 DEF AcceptReserve
  <2>2. /\ req'[r].step = "acceptClaim" /\ req'[r].d = req[r].d /\ req'[r].me = req[r].me
        /\ \A s \in Requests \ {r} : req'[s] = req[s]
    BY <1>1, <2>1 DEF RequestState
  <2>3. \A d \in Drivers : drv'[d].balance = drv[d].balance
    BY <2>1 DEF TypeInv, TypeOK, DriverDoc
  <2> QED BY <1>1, <2>2, <2>3 DEF Fair, Owed, PaySteps
<1>7. AcceptFind(r) => UNCHANGED drv
  BY DEF AcceptFind
<1> QED BY <1>3, <1>4, <1>5, <1>6, <1>7

LEMMA DriverWritesFair ==
    ASSUME TypeInv, NEW r \in Requests,
           Release(r) \/ PayLoad(r) \/ DriverStatusSave(r) \/ AvailabilitySave(r)
    PROVE  Fair(r)
<1>1. /\ req[r].d \in Drivers /\ drv \in [Drivers -> DriverDoc] /\ UNCHANGED payouts
      /\ req \in [Requests -> RequestState] /\ req[r] \in RequestState
  BY SlotTypes DEF Release, PayLoad, DriverStatusSave, AvailabilitySave, DriverSteps, TypeInv, TypeOK
<1>2. PICK d \in Drivers : d = req[r].d
  BY <1>1
<1>3. ASSUME Finish(r), req[r].step \notin PaySteps,
             \A e \in Drivers \ {d} : drv'[e] = drv[e],
             drv'[d].balance \in {drv[d].balance, req[r].me.balance}
      PROVE  Fair(r)
  BY <1>1, <1>2, <1>3, FinishFair
<1>4. CASE Release(r)
  <2>1. drv' = [drv EXCEPT ![d].availability = IF @ = "ON_TRIP" THEN "AVAILABLE" ELSE @]
    BY <1>2, <1>4 DEF Release
  <2>2. drv'[d].balance = drv[d].balance
    BY <1>1, <2>1 DEF DriverDoc
  <2> QED BY <1>1, <1>3, <1>4, <2>1, <2>2 DEF Release, PaySteps
<1>5. CASE AvailabilitySave(r)
  <2> DEFINE availability == Written(drv[d].availability, req[r].me.availability, req[r].to)
  <2>1. drv' = [drv EXCEPT ![d].availability = availability]
    BY <1>2, <1>5 DEF AvailabilitySave
  <2> HIDE DEF availability
  <2>2. drv'[d].balance = drv[d].balance
    BY <1>1, <2>1 DEF DriverDoc
  <2> QED BY <1>1, <1>3, <1>5, <2>1, <2>2 DEF AvailabilitySave, PaySteps
<1>6. CASE DriverStatusSave(r)
  <2> DEFINE to == req[r].to
             me == req[r].me
             online == IF to = "none" THEN me.online ELSE to = "AVAILABLE"
             switched == IF to = "none" THEN drv[d].availability
                         ELSE Written(drv[d].availability, me.availability, to)
  <2>1. drv' = [drv EXCEPT ![d].balance = me.balance, ![d].online = online,
                           ![d].availability = switched]
    BY <1>1, <1>2, <1>6 DEF DriverStatusSave
  <2> HIDE DEF online, switched
  <2>2. drv'[d].balance = me.balance
    BY <1>1, <2>1 DEF DriverDoc
  <2> QED BY <1>1, <1>3, <1>6, <2>1, <2>2 DEF DriverStatusSave, PaySteps
<1>7. CASE PayLoad(r)
  <2>1. /\ req' = [req EXCEPT ![r].step = "paySave", ![r].me = drv[d]]
        /\ drv' = drv /\ req[r].step = "payLoad"
    BY <1>2, <1>7 DEF PayLoad
  <2>2. /\ req'[r].step = "paySave" /\ req'[r].d = d /\ req'[r].me = drv[d]
        /\ req'[r].seen = req[r].seen
        /\ \A s \in Requests \ {r} : req'[s] = req[s]
    BY <1>1, <1>2, <2>1 DEF RequestState
  <2>3. \A e \in Drivers : Owed(req'[r], e) = Owed(req[r], e)
    BY <1>2, <2>1, <2>2 DEF Owed, PaySteps
  <2> QED BY <1>1, <2>1, <2>2, <2>3 DEF Fair
<1> QED BY <1>4, <1>5, <1>6, <1>7

\* The payout itself: what the handler adds is no longer on its way.
LEMMA PaySavePays ==
    ASSUME TypeInv, TypeInv', PayInv, NEW r \in Requests, PaySave(r)
    PROVE  PayInv'
<1>1. PICK d \in Drivers : d = req[r].d
  BY SlotTypes DEF PaySave, DriverSteps
<1>2. PICK price \in Nat : price = req[r].seen.price
  <2>1. req[r].seen.price \in Prices \cup {0}
    BY SlotTypes DEF PackageDoc
  <2>2. Prices \cup {0} \subseteq Nat
    BY ExpressAssumption
  <2> QED BY <2>1, <2>2
<1>3. /\ UNCHANGED payouts /\ Finish(r) /\ req[r].step = "paySave"
      /\ drv \in [Drivers -> DriverDoc] /\ req \in [Requests -> RequestState]
  BY DEF PaySave, TypeInv, TypeOK
<1>4. /\ drv'[d].balance = req[r].me.balance + price
      /\ \A e \in Drivers \ {d} : drv'[e] = drv[e]
  <2> DEFINE availability == Written(drv[d].availability, req[r].me.availability, "AVAILABLE")
             balance == req[r].me.balance + price
  <2>1. drv' = [drv EXCEPT ![d].balance = balance, ![d].online = TRUE,
                           ![d].availability = availability]
    BY <1>1, <1>2 DEF PaySave, Credited
  <2> HIDE DEF availability, balance
  <2>2. drv'[d].balance = balance /\ \A e \in Drivers \ {d} : drv'[e] = drv[e]
    BY <1>3, <2>1 DEF DriverDoc
  <2> QED BY <2>2 DEF balance
<1>5. /\ req'[r].step = "idle" /\ req'[r].d = NoDriver
      /\ \A s \in Requests \ {r} : req'[s] = req[s]
  BY <1>3 DEF Finish, Idle
<1>6. \A e \in Drivers : /\ Owed(req'[r], e) = 0
                         /\ Owed(req[r], e) = (IF e = d THEN price ELSE 0)
  BY <1>1, <1>2, <1>3, <1>5 DEF Owed, PaySteps
<1>7. ASSUME NEW e \in Drivers
      PROVE  /\ drv'[e].balance + Due(e)' <= payouts'[e]
             /\ \A s \in Requests : req'[s].d = e =>
                    req'[s].me.balance + Due(e)' <= payouts'[e]
  <2> DEFINE due == Due(e)
             due2 == Due(e)'
  <2>1. due2 = due - (IF e = d THEN price ELSE 0)
    <3>1. due2 = due - Owed(req[r], e) + Owed(req'[r], e)
      BY <1>5, DueStep
    <3>2. due \in Nat
      BY DueNat
    <3> HIDE DEF due, due2
    <3> QED BY <1>6, <3>1, <3>2
  <2>2. /\ due \in Nat /\ drv[e].balance \in Nat /\ payouts[e] \in Nat /\ payouts'[e] = payouts[e]
        /\ \A s \in Requests : req[s].me.balance \in Nat
    BY <1>3, DueNat, Balances DEF TypeInv, TypeOK
  <2>3. /\ drv[e].balance + due <= payouts[e]
        /\ \A s \in Requests : req[s].d = e => req[s].me.balance + due <= payouts[e]
    BY DEF PayInv
  <2> HIDE DEF due, due2
  <2>4. drv'[e].balance + due2 <= payouts'[e]
    BY <1>1, <1>4, <2>1, <2>2, <2>3
  <2>5. ASSUME NEW s \in Requests, req'[s].d = e
        PROVE  req'[s].me.balance + due2 <= payouts'[e]
    <3>1. s # r /\ req'[s] = req[s]
      BY <1>5, <2>5, ExpressAssumption
    <3>2. req[s].me.balance + due <= payouts[e] /\ req[s].me.balance \in Nat
      BY <2>2, <2>3, <2>5, <3>1
    <3> QED BY <2>1, <2>2, <3>1, <3>2
  <2> QED BY <2>4, <2>5 DEF due2
<1> QED BY <1>7 DEF PayInv

LEMMA NextPays ==
    ASSUME TypeInv, TypeInv', PayInv, [Next]_vars
    PROVE  PayInv'
<1>1. ASSUME NEW r \in Requests, Begin(r) PROVE PayInv'
  BY <1>1, BeginFair, FairPays
<1>2. ASSUME NEW r \in Requests, Resume(r) PROVE PayInv'
  <2>1. ASSUME Fair(r) PROVE PayInv'
    BY <2>1, FairPays
  <2>2. ASSUME \/ \E price \in Prices, edits \in BOOLEAN : UpdateSave(r, price, edits)
               \/ CancelWrite(r)
               \/ \E changed \in BOOLEAN : RetrySave(r, changed)
               \/ AcceptClaim(r)
               \/ SyncSave(r)
               \/ VerifyPickup(r)
        PROVE  Fair(r)
    <3>1. Finish(r) /\ UNCHANGED <<drv, payouts>> /\ req[r].step \notin PaySteps
      BY <2>2 DEF UpdateSave, CancelWrite, RetrySave, AcceptClaim, SyncSave, VerifyPickup, PaySteps
    <3> QED BY <3>1, FinishFair
  <2> QED BY <1>2, <2>1, <2>2, AcceptFair, CommitsFair, DriverWritesFair, PaySavePays DEF Resume
<1>3. ASSUME UNCHANGED <<drv, req, payouts>> PROVE PayInv'
  <2>1. \A d \in Drivers : Due(d)' = Due(d)
    BY <1>3 DEF Due, OwedBy
  <2> QED BY <1>3, <2>1 DEF PayInv
<1>4. CASE Crash
  <2>1. /\ UNCHANGED <<drv, payouts>> /\ \A r \in Requests : req'[r] = Idle
    BY <1>4 DEF Crash
  <2>2. ASSUME NEW d \in Drivers
        PROVE  drv'[d].balance + Due(d)' <= payouts'[d]
    <3> DEFINE f == OwedBy(d)'
               due == Due(d)
    <3>1. \A r \in Requests : f[r] = 0
      BY <2>1 DEF OwedBy, Owed, Idle, PaySteps
    <3>2. Due(d)' = SumFunctionOnSet(f, Requests)
      BY DEF Due
    <3>3. IsFiniteSet(Requests)
      BY ExpressAssumption
    <3> HIDE DEF f
    <3>4. Due(d)' = 0
      BY <3>1, <3>2, <3>3, SumZero
    <3>5. due \in Nat /\ drv[d].balance \in Nat /\ payouts[d] \in Nat
          /\ drv[d].balance + due <= payouts[d]
      BY DueNat, Balances DEF PayInv, TypeInv, TypeOK
    <3> HIDE DEF due
    <3> QED BY <2>1, <3>4, <3>5
  <2>3. \A r \in Requests, d \in Drivers : req'[r].d # d
    BY <2>1, ExpressAssumption DEF Idle
  <2> QED BY <2>2, <2>3 DEF PayInv
<1> QED BY <1>1, <1>2, <1>3, <1>4 DEF Next, Create, Remove, Tick, vars

\* No driver is ever paid for more than the deliveries committed for him,
\* whatever payouts and status changes overwrite each other, whoever forces a
\* status, and wherever the process dies: for every instance of the system
\* (completeDriverTrip, packages.service.ts, and users.service.ts).
THEOREM BalancesEarned == Spec => []NoUnearnedBalance
<1>1. Init /\ TypeInv => PayInv
  <2> SUFFICES ASSUME Init, TypeInv PROVE PayInv
    OBVIOUS
  <2>1. \A d \in Drivers : drv[d].balance = 0 /\ payouts[d] = 0
    <3>1. NewDriver.balance = 0
          /\ [NewDriver EXCEPT !.availability = "AVAILABLE", !.online = TRUE].balance = 0
      BY DEF NewDriver
    <3> QED BY <3>1 DEF Init
  <2>2. \A r \in Requests, d \in Drivers : req[r].d # d
    BY ExpressAssumption DEF Init, Idle
  <2>3. ASSUME NEW d \in Drivers PROVE Due(d) = 0
    <3> DEFINE f == OwedBy(d)
    <3>1. \A r \in Requests : f[r] = 0
      BY DEF Init, OwedBy, Owed, Idle, PaySteps
    <3>2. IsFiniteSet(Requests)
      BY ExpressAssumption
    <3> HIDE DEF f
    <3>3. SumFunctionOnSet(f, Requests) = 0
      BY <3>1, <3>2, SumZero
    <3> QED BY <3>3 DEF f, Due
  <2> QED BY <2>1, <2>2, <2>3 DEF PayInv
<1>2. TypeInv /\ TypeInv' /\ PayInv /\ [Next]_vars => PayInv'
  BY NextPays
<1>3. TypeInv /\ PayInv => NoUnearnedBalance
  <2> SUFFICES ASSUME TypeInv, PayInv, NEW d \in Drivers PROVE drv[d].balance <= payouts[d]
    BY DEF NoUnearnedBalance
  <2> DEFINE due == Due(d)
  <2>1. due \in Nat /\ drv[d].balance \in Nat /\ payouts[d] \in Nat
        /\ drv[d].balance + due <= payouts[d]
    BY DueNat, Balances DEF PayInv, TypeInv, TypeOK
  <2> HIDE DEF due
  <2> QED BY <2>1
<1> QED BY <1>1, <1>2, <1>3, InitType, NextType, PTL DEF Spec

=============================================================================
