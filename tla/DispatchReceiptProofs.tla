----------------------- MODULE DispatchReceiptProofs -----------------------
(***************************************************************************)
(* Machine-checked theorems about DispatchReceipt, for every set of         *)
(* receipts, shipments, branches, drivers, request slots and operations.    *)
(***************************************************************************)
EXTENDS DispatchReceipt, FiniteSetTheorems, TLAPS

-----------------------------------------------------------------------------
(* Types.  A handler that saves a receipt or one of its stops was started   *)
(* for that receipt and that stop.                                          *)

ReceiptSteps == {"departSave", "startSave", "arriveSave", "confirmRelease", "confirmSave",
                 "cancelSave"}

StopSteps == {"arriveSave", "confirmRelease", "confirmSave"}

SlotFit(slot) ==
    /\ slot.step \in ReceiptSteps => slot.c \in Receipts
    /\ slot.step \in StopSteps => slot.b \in Branches

TypeInv == TypeOK /\ \A r \in Requests : SlotFit(req[r])

LEMMA NoStopType == NoStop \in StopDoc
BY DEF NoStop, StopDoc, StopStatus

LEMMA NoReceiptType == NoReceipt \in ReceiptDoc
BY NoStopType DEF NoReceipt, ReceiptDoc

LEMMA IdleType == Idle \in RequestState /\ SlotFit(Idle)
<1>1. "idle" \in Steps /\ "PENDING" \in StopStatus /\ "idle" \notin ReceiptSteps \cup StopSteps
  BY DEF Steps, StopStatus, ReceiptSteps, StopSteps
<1> QED
  BY <1>1, NoReceiptType DEF Idle, RequestState, SlotFit

LEMMA CargoType ==
    ASSUME NEW doc \in ReceiptDoc
    PROVE  Cargo(doc) \subseteq Shipments
<1>1. \A b \in Branches : doc.stops[b].shipmentIds \subseteq Shipments
  <2>1. \A b \in Branches : doc.stops[b] \in StopDoc
    BY DEF ReceiptDoc
  <2> QED BY <2>1 DEF StopDoc
<1> QED BY <1>1 DEF Cargo

\* What every handler finds in its slot and in the collections.
LEMMA Loaded ==
    ASSUME TypeInv, NEW r \in Requests
    PROVE  /\ req \in [Requests -> RequestState] /\ req[r] \in RequestState
           /\ SlotFit(req[r])
           /\ receipt \in [Receipts -> ReceiptDoc]
           /\ shipment \in [Shipments -> ShipmentDoc]
           /\ driver \in [Drivers -> {"AVAILABLE", "ON_TRIP"}]
BY DEF TypeInv, TypeOK

\* One slot changes, to something that fits.
LEMMA SlotType ==
    ASSUME TypeInv, NEW r \in Requests, NEW slot \in RequestState, SlotFit(slot),
           req' = [req EXCEPT ![r] = slot]
    PROVE  req' \in [Requests -> RequestState] /\ \A s \in Requests : SlotFit(req[s])'
<1>1. req \in [Requests -> RequestState] /\ \A s \in Requests : SlotFit(req[s])
  BY DEF TypeInv, TypeOK
<1>2. \A s \in Requests : req'[s] = IF s = r THEN slot ELSE req[s]
  BY <1>1
<1>3. ASSUME NEW s \in Requests PROVE SlotFit(req[s])'
  <2>1. SlotFit(req'[s])
    BY <1>1, <1>2
  <2> QED BY <2>1 DEF SlotFit
<1> QED BY <1>1, <1>3

LEMMA FinishType ==
    ASSUME TypeInv, NEW r \in Requests, Finish(r)
    PROVE  req' \in [Requests -> RequestState] /\ \A s \in Requests : SlotFit(req[s])'
BY IdleType, SlotType DEF Finish

LEMMA GotoType ==
    ASSUME TypeInv, NEW r \in Requests, NEW step \in Steps, Goto(r, step),
           step \in ReceiptSteps => req[r].c \in Receipts,
           step \in StopSteps => req[r].b \in Branches
    PROVE  req' \in [Requests -> RequestState] /\ \A s \in Requests : SlotFit(req[s])'
<1> DEFINE slot == [req[r] EXCEPT !.step = step]
<1>1. req' = [req EXCEPT ![r] = slot]
  BY Loaded DEF Goto
<1>2. slot \in RequestState
  BY Loaded DEF RequestState
<1>3. slot.step = step /\ slot.c = req[r].c /\ slot.b = req[r].b
  BY Loaded DEF RequestState
<1>4. SlotFit(slot)
  BY <1>3 DEF SlotFit
<1> HIDE DEF slot
<1> QED BY <1>1, <1>2, <1>4, SlotType

\* updateMany leaves the receipt and the stop of its handler alone.
LEMMA SweepType ==
    ASSUME TypeInv, NEW r \in Requests, NEW s \in Shipments,
           NEW next \in Steps \ (ReceiptSteps \cup StopSteps), Sweep(r, s, next)
    PROVE  req' \in [Requests -> RequestState] /\ \A q \in Requests : SlotFit(req[q])'
<1> DEFINE rest == req[r].todo \ {s}
           step == IF rest = {} THEN next ELSE req[r].step
           slot == [req[r] EXCEPT !.todo = rest, !.step = step]
<1>1. CASE rest = {} /\ next = "idle"
  BY <1>1, FinishType DEF Sweep
<1>2. CASE ~(rest = {} /\ next = "idle")
  <2>1. req' = [req EXCEPT ![r].todo = rest, ![r].step = step]
    BY <1>2, Loaded DEF Sweep
  <2>2. req[r] \in RequestState /\ SlotFit(req[r])
    BY Loaded
  <2>3. rest \in SUBSET Shipments /\ step \in Steps
    BY <2>2 DEF RequestState
  <2>4. step \notin ReceiptSteps \cup StopSteps \/ step = req[r].step
    OBVIOUS
  <2> HIDE DEF rest, step
  <2>5. req' = [req EXCEPT ![r] = slot]
    BY <2>1, Loaded
  <2>6. slot \in RequestState
    BY <2>2, <2>3 DEF RequestState
  <2>7. slot.step = step /\ slot.c = req[r].c /\ slot.b = req[r].b
    BY <2>2 DEF RequestState
  <2>8. SlotFit(slot)
    BY <2>2, <2>4, <2>7 DEF SlotFit
  <2> HIDE DEF slot
  <2> QED BY <2>5, <2>6, <2>8, SlotType
<1> QED BY <1>1, <1>2

-----------------------------------------------------------------------------
(* Documents that are made and written                                      *)

LEMMA NewReceiptType ==
    ASSUME NEW order \in Orders, NEW load \in SUBSET Shipments,
           NEW d \in Drivers \cup {None}, NEW optimized \in BOOLEAN
    PROVE  NewReceipt(d, optimized, StopsFor(order, load)) \in ReceiptDoc
<1>1. \A b \in Branches : order[b] \in Nat
  BY ReceiptAssumption, FS_CardinalityType DEF Orders
<1>2. StopsFor(order, load) \in [Branches -> StopDoc]
  <2> DEFINE cargo(b) == {s \in load : Destination[s] = b}
  <2>1. ASSUME NEW b \in Branches
        PROVE  [NoStop EXCEPT !.stopOrder = order[b], !.shipmentIds = cargo(b)] \in StopDoc
    <3>1. cargo(b) \in SUBSET Shipments
      OBVIOUS
    <3> HIDE DEF cargo
    <3> QED BY <1>1, <3>1, NoStopType DEF StopDoc
  <2> QED BY <2>1 DEF StopsFor
<1> QED BY <1>2 DEF NewReceipt, NoReceipt, ReceiptDoc

\* A handler whose only effect is on its slot.
LEMMA OnlySlot ==
    ASSUME TypeInv, req' \in [Requests -> RequestState], \A s \in Requests : SlotFit(req[s])',
           UNCHANGED <<receipt, shipment, driver, crashes>>
    PROVE  TypeInv'
BY DEF TypeInv, TypeOK

\* A handler that writes one receipt.
LEMMA ReceiptWritten ==
    ASSUME TypeInv, NEW c, NEW doc \in ReceiptDoc, receipt' = [receipt EXCEPT ![c] = doc],
           req' \in [Requests -> RequestState], \A s \in Requests : SlotFit(req[s])',
           UNCHANGED <<shipment, driver, crashes>>
    PROVE  TypeInv'
BY DEF TypeInv, TypeOK

\* A handler that writes one shipment.
LEMMA ShipmentWritten ==
    ASSUME TypeInv, NEW s, NEW doc \in ShipmentDoc, shipment' = [shipment EXCEPT ![s] = doc],
           req' \in [Requests -> RequestState], \A q \in Requests : SlotFit(req[q])',
           UNCHANGED <<receipt, driver, crashes>>
    PROVE  TypeInv'
BY DEF TypeInv, TypeOK

\* A handler that writes the availability of one driver.
LEMMA DriverWritten ==
    ASSUME TypeInv, NEW d, NEW value \in {"AVAILABLE", "ON_TRIP"},
           driver' = [driver EXCEPT ![d] = value],
           req' \in [Requests -> RequestState], \A q \in Requests : SlotFit(req[q])',
           UNCHANGED <<receipt, shipment, crashes>>
    PROVE  TypeInv'
BY DEF TypeInv, TypeOK

\* What updateMany makes of a shipment.
LEMMA ShipmentTypes ==
    ASSUME TypeInv, NEW s \in Shipments
    PROVE  /\ \A c \in Receipts \cup {None}, d \in Drivers \cup {None} :
                  AssignedTo(c, d) \in ShipmentDoc
           /\ \A status \in ShipmentStatus :
                  [shipment[s] EXCEPT !.status = status] \in ShipmentDoc
           /\ [status |-> "CREATED", receiptId |-> None, driverId |-> None] \in ShipmentDoc
<1>1. shipment[s] \in ShipmentDoc
  BY DEF TypeInv, TypeOK
<1> QED BY <1>1 DEF AssignedTo, ShipmentDoc, ShipmentStatus

-----------------------------------------------------------------------------
(* Making a receipt                                                         *)

LEMMA CreateType ==
    ASSUME TypeInv, NEW r \in Requests,
           \/ \E d \in Drivers : BeginCreate(r, d)
           \/ \E load \in SUBSET Shipments : CreateCheck(r, load)
           \/ \E c \in Receipts, order \in Orders : CreateInsert(r, c, order)
           \/ \E s \in Shipments : CreateLink(r, s)
           \/ CreateReserve(r)
    PROVE  TypeInv'
<1>0. /\ {"createCheck", "createInsert", "createLink", "createReserve"} \subseteq
             Steps \ (ReceiptSteps \cup StopSteps)
      /\ req[r] \in RequestState /\ req \in [Requests -> RequestState]
  BY Loaded DEF Steps, ReceiptSteps, StopSteps
<1>1. ASSUME NEW d \in Drivers, BeginCreate(r, d) PROVE TypeInv'
  <2> DEFINE slot == [Idle EXCEPT !.step = "createCheck", !.d = d]
  <2>1. req' = [req EXCEPT ![r] = slot] /\ UNCHANGED <<receipt, shipment, driver, crashes>>
    BY <1>1 DEF BeginCreate, Start
  <2>2. slot \in RequestState /\ slot.step = "createCheck"
    BY <1>0, IdleType DEF RequestState
  <2> HIDE DEF slot
  <2> QED BY <1>0, <2>1, <2>2, SlotType, OnlySlot DEF SlotFit
<1>2. ASSUME NEW load \in SUBSET Shipments, CreateCheck(r, load) PROVE TypeInv'
  <2> DEFINE slot == [req[r] EXCEPT !.step = "createInsert", !.load = load]
  <2>1. UNCHANGED <<receipt, shipment, driver, crashes>>
    BY <1>2 DEF CreateCheck
  <2>2. CASE Finish(r)
    BY <2>1, <2>2, FinishType, OnlySlot
  <2>3. CASE req' = [req EXCEPT ![r].step = "createInsert", ![r].load = load]
    <3>1. req' = [req EXCEPT ![r] = slot]
      BY <1>0, <2>3
    <3>2. slot \in RequestState /\ slot.step = "createInsert"
      BY <1>0 DEF RequestState
    <3> HIDE DEF slot
    <3> QED BY <1>0, <2>1, <3>1, <3>2, SlotType, OnlySlot DEF SlotFit
  <2> QED BY <1>2, <2>2, <2>3 DEF CreateCheck
<1>3. ASSUME NEW c \in Receipts, NEW order \in Orders, CreateInsert(r, c, order) PROVE TypeInv'
  <2> DEFINE load == req[r].load
             doc == NewReceipt(req[r].d, FALSE, StopsFor(order, load))
             slot == [req[r] EXCEPT !.step = "createLink", !.c = c, !.load = {}, !.todo = load]
  <2>1. receipt' = [receipt EXCEPT ![c] = doc] /\ UNCHANGED <<shipment, driver, crashes>>
    BY <1>3 DEF CreateInsert
  <2>2. req' = [req EXCEPT ![r] = slot]
    BY <1>0, <1>3 DEF CreateInsert
  <2>3. load \in SUBSET Shipments /\ req[r].d \in Drivers \cup {None}
    BY <1>0 DEF RequestState
  <2>4. doc \in ReceiptDoc
    BY <2>3, NewReceiptType
  <2>5. slot \in RequestState /\ slot.step = "createLink"
    BY <1>0, <2>3 DEF RequestState
  <2> HIDE DEF slot, doc
  <2> QED BY <1>0, <2>1, <2>2, <2>4, <2>5, SlotType, ReceiptWritten DEF SlotFit
<1>4. ASSUME NEW s \in Shipments, CreateLink(r, s) PROVE TypeInv'
  <2>1. /\ Sweep(r, s, "createReserve")
        /\ shipment' = [shipment EXCEPT ![s] = AssignedTo(req[r].c, req[r].d)]
        /\ UNCHANGED <<receipt, driver, crashes>>
    BY <1>4 DEF CreateLink
  <2>2. AssignedTo(req[r].c, req[r].d) \in ShipmentDoc
    <3>1. req[r].c \in Receipts \cup {None} /\ req[r].d \in Drivers \cup {None}
      BY <1>0 DEF RequestState
    <3> QED BY <3>1, ShipmentTypes
  <2> QED BY <1>0, <2>1, <2>2, SweepType, ShipmentWritten
<1>5. ASSUME CreateReserve(r) PROVE TypeInv'
  BY <1>5, FinishType, DriverWritten DEF CreateReserve
<1> QED BY <1>1, <1>2, <1>3, <1>4, <1>5

LEMMA PlanType ==
    ASSUME TypeInv, NEW r \in Requests,
           \/ \E load \in SUBSET Shipments : BeginPlan(r, load)
           \/ PlanFleet(r)
           \/ \E c \in Receipts, d \in Drivers, order \in Orders : PlanRoute(r, c, d, order)
           \/ PlanEnd(r)
           \/ \E s \in Shipments : PlanClaim(r, s)
           \/ PlanDelete(r)
           \/ PlanReserve(r)
    PROVE  TypeInv'
<1>0. /\ {"planFleet", "planRoute", "planClaim", "planDelete", "planReserve"} \subseteq
             Steps \ (ReceiptSteps \cup StopSteps)
      /\ req[r] \in RequestState /\ req \in [Requests -> RequestState]
  BY Loaded DEF Steps, ReceiptSteps, StopSteps
<1>1. ASSUME NEW load \in SUBSET Shipments, BeginPlan(r, load) PROVE TypeInv'
  <2> DEFINE slot == [Idle EXCEPT !.step = "planFleet", !.load = load]
  <2>1. req' = [req EXCEPT ![r] = slot] /\ UNCHANGED <<receipt, shipment, driver, crashes>>
    BY <1>1 DEF BeginPlan, Start
  <2>2. slot \in RequestState /\ slot.step = "planFleet"
    BY <1>0, IdleType DEF RequestState
  <2> HIDE DEF slot
  <2> QED BY <1>0, <2>1, <2>2, SlotType, OnlySlot DEF SlotFit
<1>2. ASSUME PlanFleet(r) PROVE TypeInv'
  <2> DEFINE fleet == {d \in Drivers : driver[d] = "AVAILABLE"}
             slot == [req[r] EXCEPT !.step = "planRoute", !.fleet = fleet]
  <2>1. UNCHANGED <<receipt, shipment, driver, crashes>>
    BY <1>2 DEF PlanFleet
  <2>2. CASE Finish(r)
    BY <2>1, <2>2, FinishType, OnlySlot
  <2>3. CASE req' = [req EXCEPT ![r].step = "planRoute", ![r].fleet = fleet]
    <3>1. fleet \in SUBSET Drivers
      OBVIOUS
    <3> HIDE DEF fleet
    <3>2. req' = [req EXCEPT ![r] = slot]
      BY <1>0, <2>3
    <3>3. slot \in RequestState /\ slot.step = "planRoute"
      BY <1>0, <3>1 DEF RequestState
    <3> HIDE DEF slot
    <3> QED BY <1>0, <2>1, <3>2, <3>3, SlotType, OnlySlot DEF SlotFit
  <2> QED BY <1>2, <2>2, <2>3 DEF PlanFleet
<1>3. ASSUME NEW c \in Receipts, NEW d \in Drivers, NEW order \in Orders,
             PlanRoute(r, c, d, order)
      PROVE  TypeInv'
  <2> DEFINE cargo == {s \in req[r].load : order[Destination[s]] > 0}
             load == req[r].load \ cargo
             fleet == req[r].fleet \ {d}
             doc == NewReceipt(d, TRUE, StopsFor(order, cargo))
             slot == [req[r] EXCEPT !.step = "planClaim", !.c = c, !.d = d, !.load = load,
                                    !.fleet = fleet, !.todo = cargo]
  <2>1. receipt' = [receipt EXCEPT ![c] = doc] /\ UNCHANGED <<shipment, driver, crashes>>
    BY <1>3 DEF PlanRoute
  <2>2. req' = [req EXCEPT ![r].step = "planClaim", ![r].c = c, ![r].d = d,
                           ![r].load = load, ![r].fleet = fleet, ![r].todo = cargo]
    BY <1>3 DEF PlanRoute
  <2>3. cargo \in SUBSET Shipments /\ load \in SUBSET Shipments /\ fleet \in SUBSET Drivers
    BY <1>0 DEF RequestState
  <2> HIDE DEF cargo, load, fleet
  <2>4. doc \in ReceiptDoc
    BY <2>3, NewReceiptType
  <2>5. req' = [req EXCEPT ![r] = slot]
    BY <1>0, <2>2
  <2>6. slot \in RequestState /\ slot.step = "planClaim"
    BY <1>0, <2>3 DEF RequestState
  <2> HIDE DEF slot, doc
  <2> QED BY <1>0, <2>1, <2>4, <2>5, <2>6, SlotType, ReceiptWritten DEF SlotFit
<1>4. ASSUME PlanEnd(r) PROVE TypeInv'
  BY <1>4, FinishType, OnlySlot DEF PlanEnd
<1>5. ASSUME NEW s \in Shipments, PlanClaim(r, s) PROVE TypeInv'
  <2> DEFINE todo == req[r].todo \ {s}
             failed == req[r].failed \/ ~Claimable(s)
             step == IF req[r].todo # {s} THEN req[r].step
                     ELSE IF failed THEN "planDelete" ELSE "planReserve"
             slot == [req[r] EXCEPT !.todo = todo, !.failed = failed, !.step = step]
  <2>1. req' = [req EXCEPT ![r].todo = todo, ![r].failed = failed, ![r].step = step]
    BY <1>0, <1>5 DEF PlanClaim
  <2>2. todo \in SUBSET Shipments /\ failed \in BOOLEAN
    BY <1>0 DEF RequestState
  <2>3. step \in Steps \ (ReceiptSteps \cup StopSteps)
    BY <1>0, <1>5 DEF PlanClaim
  <2> HIDE DEF todo, failed, step
  <2>4. req' = [req EXCEPT ![r] = slot]
    BY <1>0, <2>1
  <2>5. slot \in RequestState /\ slot.step = step
    BY <1>0, <2>2, <2>3 DEF RequestState
  <2>6. SlotFit(slot)
    BY <2>3, <2>5 DEF SlotFit
  <2> HIDE DEF slot
  <2>7. CASE Claimable(s)
    <3>1. AssignedTo(req[r].c, req[r].d) \in ShipmentDoc
      <4>1. req[r].c \in Receipts \cup {None} /\ req[r].d \in Drivers \cup {None}
        BY <1>0 DEF RequestState
      <4> QED BY <4>1, ShipmentTypes
    <3>2. shipment' = [shipment EXCEPT ![s] = AssignedTo(req[r].c, req[r].d)]
          /\ UNCHANGED <<receipt, driver, crashes>>
      BY <1>5, <2>7 DEF PlanClaim
    <3> QED BY <2>4, <2>5, <2>6, <3>1, <3>2, SlotType, ShipmentWritten
  <2>8. CASE ~Claimable(s)
    <3>1. UNCHANGED <<receipt, shipment, driver, crashes>>
      BY <1>5, <2>8 DEF PlanClaim
    <3> QED BY <2>4, <2>5, <2>6, <3>1, SlotType, OnlySlot
  <2> QED BY <2>7, <2>8
<1>6. ASSUME PlanDelete(r) PROVE TypeInv'
  <2> DEFINE doc == [NoReceipt EXCEPT !.status = "DELETED"]
  <2>1. doc \in ReceiptDoc
    BY NoReceiptType DEF ReceiptDoc
  <2>2. /\ receipt' = [receipt EXCEPT ![req[r].c] = doc] /\ Finish(r)
        /\ UNCHANGED <<shipment, driver, crashes>>
    BY <1>6 DEF PlanDelete
  <2> HIDE DEF doc
  <2> QED BY <2>1, <2>2, FinishType, ReceiptWritten
<1>7. ASSUME PlanReserve(r) PROVE TypeInv'
  <2> DEFINE slot == [req[r] EXCEPT !.step = "planRoute", !.c = None, !.d = None]
  <2>1. /\ driver' = [driver EXCEPT ![req[r].d] = "ON_TRIP"]
        /\ UNCHANGED <<receipt, shipment, crashes>>
    BY <1>7 DEF PlanReserve
  <2>2. req' = [req EXCEPT ![r] = slot]
    BY <1>0, <1>7 DEF PlanReserve
  <2>3. slot \in RequestState /\ slot.step = "planRoute"
    BY <1>0 DEF RequestState
  <2> HIDE DEF slot
  <2> QED BY <1>0, <2>1, <2>2, <2>3, SlotType, DriverWritten DEF SlotFit
<1> QED BY <1>1, <1>2, <1>3, <1>4, <1>5, <1>6, <1>7

-----------------------------------------------------------------------------
(* The trip and its cancellation                                            *)

\* The handlers that only start: what they keep is what they loaded.
LEMMA BeginType ==
    ASSUME TypeInv, NEW r \in Requests, NEW c \in Receipts,
           \/ BeginDepart(r, c) \/ BeginStart(r, c) \/ BeginCancel(r, c)
           \/ \E b \in Branches :
                  \/ BeginArrive(r, c, b) \/ BeginSync(r, c, b)
                  \/ \E result \in {"CONFIRMED", "PARTIAL"}, listed \in BOOLEAN :
                         BeginConfirm(r, c, b, result, listed)
    PROVE  TypeInv'
<1>0. receipt[c] \in ReceiptDoc /\ ReceiptSteps \cup StopSteps \subseteq Steps
  BY Loaded DEF Steps, ReceiptSteps, StopSteps
<1>1. ASSUME NEW step \in ReceiptSteps \ StopSteps,
             Start(r, [Idle EXCEPT !.step = step, !.c = c, !.seen = receipt[c]]),
             UNCHANGED <<receipt, shipment, driver, crashes>>
      PROVE  TypeInv'
  <2> DEFINE slot == [Idle EXCEPT !.step = step, !.c = c, !.seen = receipt[c]]
  <2>1. req' = [req EXCEPT ![r] = slot]
    BY <1>1 DEF Start
  <2>2. slot \in RequestState /\ slot.step = step /\ slot.c = c
    BY <1>0, IdleType DEF RequestState
  <2> HIDE DEF slot
  <2> QED BY <1>0, <1>1, <2>1, <2>2, SlotType, OnlySlot DEF SlotFit
<1>2. ASSUME NEW b \in Branches,
             Start(r, [Idle EXCEPT !.step = "arriveSave", !.c = c, !.b = b, !.seen = receipt[c]]),
             UNCHANGED <<receipt, shipment, driver, crashes>>
      PROVE  TypeInv'
  <2> DEFINE slot == [Idle EXCEPT !.step = "arriveSave", !.c = c, !.b = b, !.seen = receipt[c]]
  <2>1. req' = [req EXCEPT ![r] = slot]
    BY <1>2 DEF Start
  <2>2. slot \in RequestState /\ slot.c = c /\ slot.b = b
    BY <1>0, IdleType DEF RequestState, Steps
  <2> HIDE DEF slot
  <2> QED BY <1>2, <2>1, <2>2, SlotType, OnlySlot DEF SlotFit
<1>3. ASSUME NEW b \in Branches, NEW result \in {"CONFIRMED", "PARTIAL"}, NEW listed \in BOOLEAN,
             BeginConfirm(r, c, b, result, listed)
      PROVE  TypeInv'
  <2> DEFINE step == IF AllStopsDone(receipt[c], b) THEN "confirmRelease" ELSE "confirmSave"
             slot == [Idle EXCEPT !.step = step, !.c = c, !.b = b, !.result = result,
                                  !.listed = listed, !.seen = receipt[c]]
  <2>1. req' = [req EXCEPT ![r] = slot] /\ UNCHANGED <<receipt, shipment, driver, crashes>>
    BY <1>3 DEF BeginConfirm, Start
  <2>2. step \in Steps /\ result \in StopStatus
    BY DEF Steps, StopStatus
  <2> HIDE DEF step
  <2>3. slot \in RequestState /\ slot.c = c /\ slot.b = b
    BY <1>0, <2>2, IdleType DEF RequestState
  <2> HIDE DEF slot
  <2> QED BY <2>1, <2>3, SlotType, OnlySlot DEF SlotFit
<1>4. {"departSave", "startSave", "cancelSave"} \subseteq ReceiptSteps \ StopSteps
  BY DEF ReceiptSteps, StopSteps
<1>5. CASE BeginDepart(r, c)
  BY <1>1, <1>4, <1>5 DEF BeginDepart
<1>6. CASE BeginStart(r, c)
  BY <1>1, <1>4, <1>6 DEF BeginStart
<1>7. CASE BeginCancel(r, c)
  BY <1>1, <1>4, <1>7 DEF BeginCancel
<1>8. ASSUME NEW b \in Branches, BeginArrive(r, c, b) \/ BeginSync(r, c, b)
      PROVE  TypeInv'
  BY <1>2, <1>8 DEF BeginArrive, BeginSync
<1> QED BY <1>3, <1>5, <1>6, <1>7, <1>8

\* A save that changes the status of the receipt, and the updateMany after it.
LEMMA StatusSavedType ==
    ASSUME TypeInv, NEW r \in Requests, req[r].step \in ReceiptSteps,
           NEW status \in {"IN_TRANSIT", "CANCELLED"},
           NEW step \in Steps \ (ReceiptSteps \cup StopSteps),
           receipt' = [receipt EXCEPT ![req[r].c].status = status],
           req' = [req EXCEPT ![r].step = step, ![r].todo = Cargo(req[r].seen)],
           UNCHANGED <<shipment, driver, crashes>>
    PROVE  TypeInv'
<1> DEFINE c == req[r].c
           doc == [receipt[c] EXCEPT !.status = status]
           todo == Cargo(req[r].seen)
           slot == [req[r] EXCEPT !.step = step, !.todo = todo]
<1>1. c \in Receipts /\ receipt[c] \in ReceiptDoc /\ req[r] \in RequestState
  BY Loaded DEF SlotFit
<1>2. todo \in SUBSET Shipments
  <2>1. req[r].seen \in ReceiptDoc
    BY <1>1 DEF RequestState
  <2> QED BY <2>1, CargoType
<1>3. receipt' = [receipt EXCEPT ![c] = doc]
  BY <1>1, Loaded
<1>4. doc \in ReceiptDoc
  BY <1>1 DEF ReceiptDoc
<1> HIDE DEF todo, doc
<1>5. req' = [req EXCEPT ![r] = slot]
  BY Loaded DEF todo
<1>6. slot \in RequestState /\ slot.step = step
  BY <1>1, <1>2 DEF RequestState
<1> HIDE DEF slot
<1> QED BY <1>3, <1>4, <1>5, <1>6, SlotType, ReceiptWritten DEF SlotFit

\* The handlers that sweep the shipments of a receipt or of one stop.
LEMMA SweepsType ==
    ASSUME TypeInv, NEW r \in Requests, NEW s \in Shipments,
           DepartShipments(r, s) \/ ArriveShipments(r, s) \/ CancelShipments(r, s)
    PROVE  TypeInv'
<1>0. /\ {"idle", "cancelRelease"} \subseteq Steps \ (ReceiptSteps \cup StopSteps)
      /\ {"IN_TRANSIT", "RECEIVED_AT_RECEIVER_WAREHOUSE"} \subseteq ShipmentStatus
  BY DEF Steps, ReceiptSteps, StopSteps, ShipmentStatus
<1>1. ASSUME NEW status \in ShipmentStatus, shipment' = [shipment EXCEPT ![s].status = status],
             Sweep(r, s, "idle"), UNCHANGED <<receipt, driver, crashes>>
      PROVE  TypeInv'
  <2> DEFINE doc == [shipment[s] EXCEPT !.status = status]
  <2>1. shipment' = [shipment EXCEPT ![s] = doc]
    BY <1>1, Loaded
  <2>2. doc \in ShipmentDoc
    BY ShipmentTypes
  <2> HIDE DEF doc
  <2> QED BY <1>0, <1>1, <2>1, <2>2, SweepType, ShipmentWritten
<1>2. CASE CancelShipments(r, s)
  <2> DEFINE doc == [status |-> "CREATED", receiptId |-> None, driverId |-> None]
  <2>1. /\ shipment' = [shipment EXCEPT ![s] = doc] /\ Sweep(r, s, "cancelRelease")
        /\ UNCHANGED <<receipt, driver, crashes>>
    BY <1>2 DEF CancelShipments
  <2>2. doc \in ShipmentDoc
    BY ShipmentTypes
  <2> HIDE DEF doc
  <2> QED BY <1>0, <2>1, <2>2, SweepType, ShipmentWritten
<1> QED BY <1>0, <1>1, <1>2 DEF DepartShipments, ArriveShipments

\* The handlers that save a receipt without touching its stops, and those that
\* release its driver.
LEMMA TripSaveType ==
    ASSUME TypeInv, NEW r \in Requests,
           \/ DepartSave(r) \/ StartSave(r) \/ CancelSave(r)
           \/ ConfirmRelease(r) \/ CancelRelease(r)
    PROVE  TypeInv'
<1>1. CASE DepartSave(r) \/ CancelSave(r)
  <2>1. /\ {"departShipments", "cancelShipments"} \subseteq Steps \ (ReceiptSteps \cup StopSteps)
        /\ req[r].step \in ReceiptSteps
    BY <1>1 DEF Steps, ReceiptSteps, StopSteps, DepartSave, CancelSave
  <2>2. CASE Finish(r) /\ UNCHANGED receipt
    BY <1>1, <2>2, FinishType, OnlySlot DEF DepartSave, CancelSave
  <2>3. CASE Exists(req[r].c)
    BY <1>1, <2>1, <2>3, StatusSavedType DEF DepartSave, CancelSave
  <2> QED BY <1>1, <2>2, <2>3 DEF DepartSave, CancelSave
<1>2. CASE StartSave(r)
  <2> DEFINE c == req[r].c
             doc == [receipt[c] EXCEPT !.started = TRUE, !.segment = TRUE]
  <2>1. Finish(r) /\ UNCHANGED <<shipment, driver, crashes>>
    BY <1>2 DEF StartSave
  <2>2. CASE ~Exists(c)
    BY <1>2, <2>1, <2>2, FinishType, OnlySlot DEF StartSave
  <2>3. CASE Exists(c)
    <3>1. c \in Receipts /\ receipt[c] \in ReceiptDoc
      BY <1>2, Loaded DEF StartSave, SlotFit, ReceiptSteps
    <3>2. receipt' = [receipt EXCEPT ![c] = doc]
      BY <1>2, <2>3, <3>1, Loaded DEF StartSave
    <3>3. doc \in ReceiptDoc
      BY <3>1 DEF ReceiptDoc
    <3> HIDE DEF doc
    <3> QED BY <2>1, <3>2, <3>3, FinishType, ReceiptWritten
  <2> QED BY <2>2, <2>3
<1>3. CASE ConfirmRelease(r)
  <2>1. /\ "confirmSave" \in Steps /\ req[r].c \in Receipts /\ req[r].b \in Branches
    BY <1>3, Loaded DEF ConfirmRelease, SlotFit, Steps, ReceiptSteps, StopSteps
  <2> QED BY <1>3, <2>1, GotoType, DriverWritten DEF ConfirmRelease
<1>4. CASE CancelRelease(r)
  BY <1>4, FinishType, DriverWritten DEF CancelRelease
<1> QED BY <1>1, <1>2, <1>3, <1>4

\* The document a save of the arrival at stop b of the receipt c leaves.
Arrived(c, b, seen) ==
    [receipt[c] EXCEPT !.stops[b].status = "ARRIVED",
                       !.segment = Written(@, seen.segment, FALSE)]

LEMMA ArrivedType ==
    ASSUME TypeInv, NEW c \in Receipts, NEW b \in Branches, NEW seen
    PROVE  Arrived(c, b, seen) \in ReceiptDoc
<1> DEFINE stop == [receipt[c].stops[b] EXCEPT !.status = "ARRIVED"]
           stops == [receipt[c].stops EXCEPT ![b] = stop]
           segment == Written(receipt[c].segment, seen.segment, FALSE)
<1>1. receipt[c] \in ReceiptDoc
  BY DEF TypeInv, TypeOK
<1>2. receipt[c].stops \in [Branches -> StopDoc] /\ receipt[c].segment \in BOOLEAN
  BY <1>1 DEF ReceiptDoc
<1>3. stop \in StopDoc
  BY <1>2 DEF StopDoc, StopStatus
<1>4. stops \in [Branches -> StopDoc]
  BY <1>2, <1>3
<1>5. segment \in BOOLEAN
  BY <1>2, Zenon DEF Written
<1>6. Arrived(c, b, seen) = [receipt[c] EXCEPT !.stops = stops, !.segment = segment]
  BY <1>1, <1>2 DEF Arrived, ReceiptDoc
<1> HIDE DEF stops, segment
<1> QED BY <1>1, <1>4, <1>5, <1>6 DEF ReceiptDoc

LEMMA ArriveType ==
    ASSUME TypeInv, NEW r \in Requests, ArriveSave(r)
    PROVE  TypeInv'
<1> DEFINE c == req[r].c
           b == req[r].b
           seen == req[r].seen
           todo == seen.stops[b].shipmentIds
           slot == [req[r] EXCEPT !.step = "arriveShipments", !.todo = todo]
<1>1. /\ c \in Receipts /\ b \in Branches
      /\ req[r] \in RequestState /\ seen \in ReceiptDoc
  <2>1. req[r] \in RequestState /\ SlotFit(req[r]) /\ req[r].step = "arriveSave"
    BY Loaded DEF ArriveSave
  <2> QED BY <2>1 DEF SlotFit, RequestState, ReceiptSteps, StopSteps
<1>2. CASE ~SameVersion(r)
  BY <1>2, FinishType, OnlySlot DEF ArriveSave
<1>3. CASE SameVersion(r)
  <2>1. receipt' = [receipt EXCEPT ![c] = Arrived(c, b, seen)]
        /\ UNCHANGED <<shipment, driver, crashes>>
    BY <1>1, <1>3, Loaded DEF ArriveSave, Arrived
  <2>2. todo \in SUBSET Shipments
    <3>1. seen.stops[b] \in StopDoc
      BY <1>1 DEF ReceiptDoc
    <3> QED BY <3>1 DEF StopDoc
  <2>3. req' = [req EXCEPT ![r] = slot]
    BY <1>1, <1>3, Loaded DEF ArriveSave
  <2> HIDE DEF todo
  <2>4. slot \in RequestState /\ slot.step = "arriveShipments"
    BY <1>1, <2>2 DEF RequestState, Steps
  <2>5. SlotFit(slot)
    BY <2>4 DEF SlotFit, ReceiptSteps, StopSteps
  <2> HIDE DEF slot
  <2> QED BY <1>1, <2>1, <2>3, <2>4, <2>5, ArrivedType, SlotType, ReceiptWritten
<1> QED BY <1>2, <1>3

\* The fields of a confirmed receipt.
LEMMA ConfirmedFields ==
    ASSUME TypeInv, NEW r \in Requests, NEW doc \in ReceiptDoc, req[r].b \in Branches
    PROVE  LET b == req[r].b
               new == Confirmed(doc, r)
           IN  /\ new \in ReceiptDoc
               /\ new.status \in {doc.status, "COMPLETED"}
               /\ new.status # doc.status => AllStopsDone(req[r].seen, b)
               /\ new.stops = [doc.stops EXCEPT
                                 ![b] = [@ EXCEPT !.status = req[r].result, !.confirmed = TRUE]]
               /\ new.v = VersionAfter(doc.v, req[r].listed)
<1> DEFINE b == req[r].b
           seen == req[r].seen
           done == AllStopsDone(seen, b)
           stop == [doc.stops[b] EXCEPT !.status = req[r].result, !.confirmed = TRUE]
           stops == [doc.stops EXCEPT ![b] = stop]
           status == IF done THEN Written(doc.status, seen.status, "COMPLETED") ELSE doc.status
           segment == IF done THEN Written(doc.segment, seen.segment, FALSE) ELSE TRUE
           version == VersionAfter(doc.v, req[r].listed)
<1>1. req[r].result \in StopStatus
  <2>1. req[r] \in RequestState
    BY Loaded
  <2> QED BY <2>1 DEF RequestState
<1>2. doc.stops \in [Branches -> StopDoc] /\ doc.segment \in BOOLEAN /\ doc.v \in Nat
  BY DEF ReceiptDoc
<1>3. stop \in StopDoc
  BY <1>1, <1>2 DEF StopDoc
<1>4. stops \in [Branches -> StopDoc]
  BY <1>2, <1>3
<1>5. status \in {doc.status, "COMPLETED"} /\ (status # doc.status => done)
  BY DEF Written
<1>6. segment \in BOOLEAN
  BY <1>2, Zenon DEF Written
<1>7. version \in Nat
  BY <1>2 DEF VersionAfter
<1>8. Confirmed(doc, r) =
        [doc EXCEPT !.status = status, !.stops = stops, !.segment = segment, !.v = version]
  BY DEF Confirmed, ReceiptDoc
<1> HIDE DEF stops, status, segment, version
<1>9. /\ Confirmed(doc, r).status = status /\ Confirmed(doc, r).stops = stops
      /\ Confirmed(doc, r).v = version
  BY <1>8 DEF ReceiptDoc
<1>10. Confirmed(doc, r) \in ReceiptDoc
  BY <1>4, <1>5, <1>6, <1>7, <1>8 DEF ReceiptDoc
<1> QED BY <1>5, <1>9, <1>10 DEF stops, version

LEMMA ConfirmType ==
    ASSUME TypeInv, NEW r \in Requests, ConfirmSave(r)
    PROVE  TypeInv'
<1> DEFINE c == req[r].c
           b == req[r].b
<1>1. c \in Receipts /\ b \in Branches
  <2>1. SlotFit(req[r]) /\ req[r].step = "confirmSave"
    BY Loaded DEF ConfirmSave
  <2> QED BY <2>1 DEF SlotFit, ReceiptSteps, StopSteps
<1>2. Finish(r) /\ UNCHANGED <<shipment, driver, crashes>>
  BY DEF ConfirmSave
<1>3. CASE ~SameVersion(r)
  BY <1>2, <1>3, FinishType, OnlySlot DEF ConfirmSave
<1>4. CASE SameVersion(r)
  <2>1. receipt' = [receipt EXCEPT ![c] = Confirmed(receipt[c], r)]
    BY <1>4 DEF ConfirmSave
  <2>2. Confirmed(receipt[c], r) \in ReceiptDoc
    BY <1>1, Loaded, ConfirmedFields
  <2> QED BY <1>2, <2>1, <2>2, FinishType, ReceiptWritten
<1> QED BY <1>3, <1>4

LEMMA CrashType ==
    ASSUME TypeInv, Crash
    PROVE  TypeInv'
<1>1. req' \in [Requests -> RequestState] /\ \A s \in Requests : SlotFit(req[s])'
  BY IdleType DEF Crash, SlotFit
<1>2. crashes' \in 0..MaxCrashes
  BY ReceiptAssumption DEF TypeInv, TypeOK, Crash
<1> QED BY <1>1, <1>2 DEF TypeInv, TypeOK, Crash

LEMMA NextType ==
    ASSUME TypeInv, [Next]_vars
    PROVE  TypeInv'
<1>1. CASE UNCHANGED vars
  BY <1>1 DEF TypeInv, TypeOK, SlotFit, vars
<1>2. ASSUME NEW r \in Requests, Make(r) PROVE TypeInv'
  BY <1>2, CreateType, PlanType DEF Make
<1>3. ASSUME NEW r \in Requests, Trip(r) PROVE TypeInv'
  BY <1>3, BeginType, SweepsType, TripSaveType, ArriveType, ConfirmType DEF Trip
<1> QED BY <1>1, <1>2, <1>3, CrashType DEF Next

LEMMA InitType == Init => TypeInv
<1> SUFFICES ASSUME Init PROVE TypeInv
  OBVIOUS
<1>1. \A c \in Receipts : NoReceipt \in ReceiptDoc
  BY NoReceiptType
<1>2. receipt \in [Receipts -> ReceiptDoc] /\ req \in [Requests -> RequestState]
  BY <1>1, IdleType DEF Init
<1>3. \A r \in Requests : SlotFit(req[r])
  BY IdleType DEF Init
<1>4. shipment \in [Shipments -> ShipmentDoc]
  BY DEF Init, ShipmentDoc, ShipmentStatus
<1> QED BY <1>2, <1>3, <1>4, ReceiptAssumption DEF Init, TypeInv, TypeOK

LEMMA TypeInvHolds == Spec => []TypeInv
BY InitType, NextType, PTL DEF Spec

\* Receipts, shipments, drivers and suspended handlers keep their types through
\* every operation, and whatever a crash interrupts (dispatch-receipt.service.ts).
THEOREM ReceiptTypeCorrect == Spec => []TypeOK
<1>1. TypeInv => TypeOK
  BY DEF TypeInv
<1> QED BY <1>1, TypeInvHolds, PTL

-----------------------------------------------------------------------------
(* StopsArriveInOrder and CompletedConfirmed, for every set of receipts,    *)
(* shipments, branches, drivers, request slots and operations.              *)
(*                                                                         *)
(* Reports and confirmations are saved from receipts that others changed    *)
(* since, and only some of these saves are refused by the version test.     *)
(* The inductive invariant says why the others do no harm: the route of a   *)
(* receipt is fixed, no stop becomes pending again and no confirmation is   *)
(* taken back, so what a handler saw done still is when it saves.           *)

\* What each receipt satisfies, and so what every handler loads.
Sound(doc) ==
    /\ \A b \in Branches, e \in Branches :
           /\ 0 < doc.stops[e].stopOrder /\ doc.stops[e].stopOrder < doc.stops[b].stopOrder
           /\ doc.stops[b].status # "PENDING"
           => doc.stops[e].status # "PENDING"
    /\ \A b \in Branches : Done(doc.stops[b].status) => doc.stops[b].confirmed
    /\ doc.status = "COMPLETED" =>
           \A b \in Branches : doc.stops[b].stopOrder > 0 => doc.stops[b].confirmed
    /\ doc.status = "ABSENT" => \A b \in Branches : doc.stops[b].status = "PENDING"

\* How the stops of a receipt change while it exists.
Progress(old, new) ==
    \A b \in Branches :
        /\ new[b].stopOrder = old[b].stopOrder
        /\ old[b].status # "PENDING" => new[b].status # "PENDING"
        /\ old[b].confirmed => new[b].confirmed

\* A handler that will save a stop: the receipt it loaded has only progressed,
\* and the stop it is about was next, or had been reached, in what it loaded.
SeenInv(slot) ==
    slot.step \in StopSteps =>
        /\ receipt[slot.c].status # "ABSENT"
        /\ Sound(slot.seen)
        /\ Exists(slot.c) => Progress(slot.seen.stops, receipt[slot.c].stops)
        /\ slot.step = "arriveSave" =>
               \A e \in Before(slot.seen, slot.b) : slot.seen.stops[e].status # "PENDING"
        /\ slot.step # "arriveSave" =>
               slot.seen.stops[slot.b].status # "PENDING" /\ slot.result # "PENDING"

StopInv ==
    /\ \A c \in Receipts : Sound(receipt[c])
    /\ \A r \in Requests : SeenInv(req[r])

-----------------------------------------------------------------------------
(* What the handlers do to the invariant                                    *)

LEMMA ProgressSelf ==
    ASSUME NEW stops
    PROVE  Progress(stops, stops)
BY DEF Progress

LEMMA ProgressOn ==
    ASSUME NEW old, NEW mid, NEW new, Progress(old, mid), Progress(mid, new)
    PROVE  Progress(old, new)
BY DEF Progress

\* A handler that writes no receipt.
LEMMA NoReceiptWritten ==
    ASSUME StopInv, UNCHANGED receipt,
           \A s \in Requests : \/ req'[s] = req[s]
                               \/ req'[s].step \notin StopSteps
                               \/ SeenInv(req'[s])
    PROVE  StopInv'
<1>1. \A c \in Receipts : Sound(receipt[c])'
  BY DEF StopInv, Sound
<1>2. ASSUME NEW s \in Requests PROVE SeenInv(req[s])'
  <2>1. SeenInv(req'[s])
    BY DEF StopInv, SeenInv
  <2> QED BY <2>1 DEF SeenInv, Exists, Sound, Progress, Before, Route
<1> QED BY <1>1, <1>2 DEF StopInv

\* A handler that writes one receipt and is done with its stops.
LEMMA OneReceiptWritten ==
    ASSUME TypeInv, StopInv, NEW c \in Receipts, NEW doc, receipt' = [receipt EXCEPT ![c] = doc],
           Sound(doc), doc.status # "ABSENT",
           \/ receipt[c].status = "ABSENT"
           \/ doc.status = "DELETED"
           \/ Exists(c) /\ Progress(receipt[c].stops, doc.stops),
           \A s \in Requests : req'[s] = req[s] \/ req'[s].step \notin StopSteps
    PROVE  StopInv'
<1>1. \A e \in Receipts : receipt'[e] = IF e = c THEN doc ELSE receipt[e]
  BY DEF TypeInv, TypeOK
<1>2. ASSUME NEW e \in Receipts PROVE Sound(receipt[e])'
  <2>1. Sound(receipt'[e])
    BY <1>1 DEF StopInv
  <2> QED BY <2>1 DEF Sound
<1>3. ASSUME NEW s \in Requests PROVE SeenInv(req[s])'
  <2> SUFFICES ASSUME req'[s].step \in StopSteps PROVE SeenInv(req[s])'
    BY DEF SeenInv
  <2> DEFINE slot == req[s]
  <2>1. req'[s] = slot /\ slot.step \in StopSteps
    OBVIOUS
  <2>2. SeenInv(slot) /\ slot.c \in Receipts
    BY <2>1 DEF StopInv, TypeInv, SlotFit, ReceiptSteps, StopSteps
  <2>3. receipt'[slot.c].status # "ABSENT"
    BY <1>1, <2>1, <2>2 DEF SeenInv
  <2>4. Exists(slot.c)' => Progress(slot.seen.stops, receipt'[slot.c].stops)
    <3>1. CASE slot.c # c
      BY <1>1, <2>1, <2>2, <3>1 DEF SeenInv, Exists
    <3>2. CASE slot.c = c
      BY <1>1, <2>1, <2>2, <3>2, ProgressOn DEF SeenInv, Exists
    <3> QED BY <3>1, <3>2
  <2>5. Sound(req[s].seen)'
    <3>1. Sound(slot.seen)
      BY <2>1, <2>2 DEF SeenInv
    <3> HIDE DEF slot
    <3> QED BY <2>1, <3>1 DEF Sound, slot
  <2>6. (req[s].step = "arriveSave" =>
            \A e \in Before(req[s].seen, req[s].b) : req[s].seen.stops[e].status # "PENDING")'
    BY <2>1, <2>2 DEF SeenInv, Before, Route
  <2>7. (Exists(req[s].c) => Progress(req[s].seen.stops, receipt[req[s].c].stops))'
    BY <2>1, <2>4 DEF Progress, Exists
  <2>8. (req[s].step # "arriveSave" =>
            req[s].seen.stops[req[s].b].status # "PENDING" /\ req[s].result # "PENDING")'
    BY <2>1, <2>2 DEF SeenInv
  <2> QED BY <2>1, <2>3, <2>5, <2>6, <2>7, <2>8 DEF SeenInv
<1> QED BY <1>2, <1>3 DEF StopInv

\* The receipts that are made, and the ones that are dropped.
LEMMA NewSound ==
    ASSUME NEW d, NEW optimized, NEW order, NEW load
    PROVE  /\ Sound(NewReceipt(d, optimized, StopsFor(order, load)))
           /\ NewReceipt(d, optimized, StopsFor(order, load)).status = "CREATED"
<1> DEFINE stops == StopsFor(order, load)
           doc == NewReceipt(d, optimized, stops)
<1>1. \A b \in Branches : stops[b].status = "PENDING" /\ stops[b].confirmed = FALSE
  BY DEF StopsFor, NoStop
<1> HIDE DEF stops
<1>2. doc.stops = stops /\ doc.status = "CREATED"
  BY DEF NewReceipt, NoReceipt
<1> HIDE DEF doc
<1>3. Sound(doc)
  BY <1>1, <1>2 DEF Sound, Done
<1> QED BY <1>2, <1>3 DEF doc, stops

LEMMA NoReceiptSound ==
    Sound(NoReceipt) /\ Sound([NoReceipt EXCEPT !.status = "DELETED"])
BY DEF Sound, NoReceipt, NoStop, Done

\* A new status other than COMPLETED, or a started simulation.
LEMMA StopsUntouched ==
    ASSUME NEW old, NEW new, Sound(old), new.stops = old.stops,
           new.status = old.status \/ new.status \notin {"COMPLETED", "ABSENT"}
    PROVE  Sound(new) /\ Progress(old.stops, new.stops)
BY ProgressSelf DEF Sound

-----------------------------------------------------------------------------
(* The handlers that have nothing to do with stops                          *)

\* No slot is left with a stop to save that it did not have before.
Settled == \A s \in Requests : req'[s] = req[s] \/ req'[s].step \notin StopSteps

LEMMA FinishSettles ==
    ASSUME TypeInv, NEW r \in Requests, Finish(r)
    PROVE  Settled
BY Loaded DEF Settled, Finish, Idle, StopSteps

LEMMA StepSettles ==
    ASSUME TypeInv, NEW r \in Requests, NEW step, step \notin StopSteps, req'[r].step = step,
           \A s \in Requests \ {r} : req'[s] = req[s]
    PROVE  Settled
BY DEF Settled

LEMMA SweepSettles ==
    ASSUME TypeInv, NEW r \in Requests, NEW s, NEW next, next \notin StopSteps, Sweep(r, s, next),
           req[r].step \notin StopSteps
    PROVE  Settled
<1>1. CASE Finish(r)
  BY <1>1, FinishSettles
<1>2. CASE ~Finish(r)
  <2> DEFINE rest == req[r].todo \ {s}
             step == IF rest = {} THEN next ELSE req[r].step
  <2>1. req' = [req EXCEPT ![r].todo = rest, ![r].step = step]
    BY <1>2, Loaded DEF Sweep
  <2>2. step \notin StopSteps
    OBVIOUS
  <2> HIDE DEF rest, step
  <2>3. req'[r].step = step /\ \A q \in Requests \ {r} : req'[q] = req[q]
    BY <2>1, Loaded DEF RequestState
  <2> QED BY <2>2, <2>3, StepSettles
<1> QED BY <1>1, <1>2

LEMMA MakeSettles ==
    ASSUME TypeInv, NEW r \in Requests, Make(r)
    PROVE  Settled
<1>0. req \in [Requests -> RequestState] /\ req[r] \in RequestState
  BY Loaded
<1>1. ASSUME NEW d \in Drivers, BeginCreate(r, d) PROVE Settled
  <2>1. req'[r].step = "createCheck" /\ \A s \in Requests \ {r} : req'[s] = req[s]
    BY <1>0, <1>1 DEF BeginCreate, Start, Idle
  <2> QED BY <2>1, StepSettles DEF StopSteps
<1>2. ASSUME NEW load, CreateCheck(r, load) PROVE Settled
  <2>1. CASE Finish(r)
    BY <2>1, FinishSettles
  <2>2. CASE req' = [req EXCEPT ![r].step = "createInsert", ![r].load = load]
    <3>1. req'[r].step = "createInsert" /\ \A s \in Requests \ {r} : req'[s] = req[s]
      BY <1>0, <2>2 DEF RequestState
    <3> QED BY <3>1, StepSettles DEF StopSteps
  <2> QED BY <1>2, <2>1, <2>2 DEF CreateCheck
<1>3. ASSUME NEW load, BeginPlan(r, load) PROVE Settled
  <2>1. req'[r].step = "planFleet" /\ \A s \in Requests \ {r} : req'[s] = req[s]
    BY <1>0, <1>3 DEF BeginPlan, Start, Idle
  <2> QED BY <2>1, StepSettles DEF StopSteps
<1>4. ASSUME NEW c, NEW order, CreateInsert(r, c, order) PROVE Settled
  <2>1. req'[r].step = "createLink" /\ \A s \in Requests \ {r} : req'[s] = req[s]
    BY <1>0, <1>4 DEF CreateInsert, RequestState
  <2> QED BY <2>1, StepSettles DEF StopSteps
<1>5. ASSUME NEW s, CreateLink(r, s) PROVE Settled
  BY <1>5, SweepSettles DEF CreateLink, StopSteps
<1>6. CASE CreateReserve(r) \/ PlanEnd(r) \/ PlanDelete(r)
  BY <1>6, FinishSettles DEF CreateReserve, PlanEnd, PlanDelete
<1>7. CASE PlanFleet(r)
  <2> DEFINE fleet == {d \in Drivers : driver[d] = "AVAILABLE"}
  <2>1. CASE Finish(r)
    BY <2>1, FinishSettles
  <2>2. CASE req' = [req EXCEPT ![r].step = "planRoute", ![r].fleet = fleet]
    <3> HIDE DEF fleet
    <3>1. req'[r].step = "planRoute" /\ \A s \in Requests \ {r} : req'[s] = req[s]
      BY <1>0, <2>2 DEF RequestState
    <3> QED BY <3>1, StepSettles DEF StopSteps
  <2> QED BY <1>7, <2>1, <2>2 DEF PlanFleet
<1>8. ASSUME NEW c, NEW d, NEW order, PlanRoute(r, c, d, order) PROVE Settled
  <2> DEFINE cargo == {s \in req[r].load : order[Destination[s]] > 0}
             load == req[r].load \ cargo
             fleet == req[r].fleet \ {d}
  <2>1. req' = [req EXCEPT ![r].step = "planClaim", ![r].c = c, ![r].d = d,
                           ![r].load = load, ![r].fleet = fleet, ![r].todo = cargo]
    BY <1>8 DEF PlanRoute
  <2> HIDE DEF cargo, load, fleet
  <2>2. req'[r].step = "planClaim" /\ \A s \in Requests \ {r} : req'[s] = req[s]
    BY <1>0, <2>1 DEF RequestState
  <2> QED BY <2>2, StepSettles DEF StopSteps
<1>9. ASSUME NEW s, PlanClaim(r, s) PROVE Settled
  <2> DEFINE todo == req[r].todo \ {s}
             failed == req[r].failed \/ ~Claimable(s)
             step == IF req[r].todo # {s} THEN req[r].step
                     ELSE IF failed THEN "planDelete" ELSE "planReserve"
  <2>1. req' = [req EXCEPT ![r].todo = todo, ![r].failed = failed, ![r].step = step]
    BY <1>0, <1>9 DEF PlanClaim
  <2>2. step \notin StopSteps
    BY <1>9 DEF PlanClaim, StopSteps
  <2> HIDE DEF todo, failed, step
  <2>3. req'[r].step = step /\ \A q \in Requests \ {r} : req'[q] = req[q]
    BY <1>0, <2>1 DEF RequestState
  <2> QED BY <2>2, <2>3, StepSettles
<1>10. CASE PlanReserve(r)
  <2>1. req'[r].step = "planRoute" /\ \A s \in Requests \ {r} : req'[s] = req[s]
    BY <1>0, <1>10 DEF PlanReserve, RequestState
  <2> QED BY <2>1, StepSettles DEF StopSteps
<1> QED
  BY <1>1, <1>2, <1>3, <1>4, <1>5, <1>6, <1>7, <1>8, <1>9, <1>10 DEF Make

LEMMA TripSettles ==
    ASSUME TypeInv, NEW r \in Requests,
           \/ \E c \in Receipts : BeginDepart(r, c) \/ BeginStart(r, c) \/ BeginCancel(r, c)
           \/ \E s \in Shipments :
                  DepartShipments(r, s) \/ ArriveShipments(r, s) \/ CancelShipments(r, s)
           \/ DepartSave(r) \/ StartSave(r) \/ ArriveSave(r) \/ ConfirmSave(r)
           \/ CancelSave(r) \/ CancelRelease(r)
    PROVE  Settled
<1>0. req \in [Requests -> RequestState] /\ req[r] \in RequestState
  BY Loaded
<1>1. ASSUME NEW c \in Receipts, BeginDepart(r, c) \/ BeginStart(r, c) \/ BeginCancel(r, c)
      PROVE  Settled
  <2>1. ASSUME NEW step, step \notin StopSteps,
               Start(r, [Idle EXCEPT !.step = step, !.c = c, !.seen = receipt[c]])
        PROVE  Settled
    <3>1. req'[r].step = step /\ \A s \in Requests \ {r} : req'[s] = req[s]
      BY <1>0, <2>1 DEF Start, Idle
    <3> QED BY <2>1, <3>1, StepSettles
  <2>2. {"departSave", "startSave", "cancelSave"} \cap StopSteps = {}
    BY DEF StopSteps
  <2> QED BY <1>1, <2>1, <2>2 DEF BeginDepart, BeginStart, BeginCancel
<1>2. ASSUME NEW s \in Shipments,
             DepartShipments(r, s) \/ ArriveShipments(r, s) \/ CancelShipments(r, s)
      PROVE  Settled
  BY <1>2, SweepSettles DEF DepartShipments, ArriveShipments, CancelShipments, StopSteps
<1>3. CASE Finish(r)
  BY <1>3, FinishSettles
<1>4. ASSUME NEW step, step \notin StopSteps, NEW todo,
             req' = [req EXCEPT ![r].step = step, ![r].todo = todo]
      PROVE  Settled
  <2>1. req'[r].step = step /\ \A s \in Requests \ {r} : req'[s] = req[s]
    BY <1>0, <1>4 DEF RequestState
  <2> QED BY <1>4, <2>1, StepSettles
<1>5. CASE ArriveSave(r)
  <2>1. "arriveShipments" \notin StopSteps
    BY DEF StopSteps
  <2> QED BY <1>3, <1>4, <1>5, <2>1 DEF ArriveSave
<1>6. CASE DepartSave(r) \/ CancelSave(r)
  <2>1. {"departShipments", "cancelShipments"} \cap StopSteps = {}
    BY DEF StopSteps
  <2> QED BY <1>3, <1>4, <1>6, <2>1 DEF DepartSave, CancelSave
<1>7. CASE StartSave(r) \/ ConfirmSave(r) \/ CancelRelease(r)
  BY <1>3, <1>7 DEF StartSave, ConfirmSave, CancelRelease
<1> QED BY <1>1, <1>2, <1>5, <1>6, <1>7

\* Making receipts: the new ones have no stop behind them.
LEMMA MakeStop ==
    ASSUME TypeInv, StopInv, NEW r \in Requests, Make(r)
    PROVE  StopInv'
<1>0. Settled
  BY MakeSettles
<1>1. ASSUME UNCHANGED receipt PROVE StopInv'
  BY <1>0, <1>1, NoReceiptWritten DEF Settled
<1>2. ASSUME NEW c \in Receipts, NEW order \in Orders, CreateInsert(r, c, order) PROVE StopInv'
  <2> DEFINE doc == NewReceipt(req[r].d, FALSE, StopsFor(order, req[r].load))
  <2>1. receipt' = [receipt EXCEPT ![c] = doc] /\ receipt[c].status = "ABSENT"
    BY <1>2 DEF CreateInsert
  <2>2. Sound(doc) /\ doc.status # "ABSENT"
    BY NewSound
  <2> HIDE DEF doc
  <2> QED BY <1>0, <2>1, <2>2, OneReceiptWritten DEF Settled
<1>3. ASSUME NEW c \in Receipts, NEW d \in Drivers, NEW order \in Orders,
             PlanRoute(r, c, d, order)
      PROVE  StopInv'
  <2> DEFINE cargo == {s \in req[r].load : order[Destination[s]] > 0}
             doc == NewReceipt(d, TRUE, StopsFor(order, cargo))
  <2>1. receipt' = [receipt EXCEPT ![c] = doc] /\ receipt[c].status = "ABSENT"
    BY <1>3 DEF PlanRoute
  <2>2. Sound(doc) /\ doc.status # "ABSENT"
    <3> HIDE DEF cargo
    <3> QED BY NewSound
  <2> HIDE DEF doc
  <2> QED BY <1>0, <2>1, <2>2, OneReceiptWritten DEF Settled
<1>4. CASE PlanDelete(r)
  <2> DEFINE doc == [NoReceipt EXCEPT !.status = "DELETED"]
  <2>1. receipt' = [receipt EXCEPT ![req[r].c] = doc]
    BY <1>4 DEF PlanDelete
  <2>2. Sound(doc) /\ doc.status = "DELETED"
    BY NoReceiptSound DEF NoReceipt
  <2> HIDE DEF doc
  <2>3. CASE req[r].c \in Receipts
    BY <1>0, <2>1, <2>2, <2>3, OneReceiptWritten DEF Settled
  <2>4. CASE req[r].c \notin Receipts
    <3>1. receipt' = receipt
      BY <2>1, <2>4, Loaded
    <3> QED BY <1>1, <3>1
  <2> QED BY <2>3, <2>4
<1>5. ASSUME ~\E c \in Receipts, order \in Orders : CreateInsert(r, c, order),
             ~\E c \in Receipts, d \in Drivers, order \in Orders : PlanRoute(r, c, d, order),
             ~PlanDelete(r)
      PROVE  UNCHANGED receipt
  BY <1>5 DEF Make, BeginCreate, CreateCheck, BeginPlan, CreateLink, CreateReserve, PlanFleet,
              PlanEnd, PlanClaim, PlanReserve
<1> QED BY <1>1, <1>2, <1>3, <1>4, <1>5

-----------------------------------------------------------------------------
(* The trip                                                                 *)

\* Handlers that start on a stop: what they load is sound, and has progressed
\* from itself.
LEMMA BeginStop ==
    ASSUME TypeInv, StopInv, NEW r \in Requests, NEW c \in Receipts, NEW b \in Branches,
           \/ BeginArrive(r, c, b) \/ BeginSync(r, c, b)
           \/ \E result \in {"CONFIRMED", "PARTIAL"}, listed \in BOOLEAN :
                  BeginConfirm(r, c, b, result, listed)
    PROVE  StopInv'
<1>0. /\ req \in [Requests -> RequestState]
      /\ receipt[c] \in ReceiptDoc /\ Sound(receipt[c])
      /\ Progress(receipt[c].stops, receipt[c].stops)
  BY Loaded, ProgressSelf DEF StopInv
<1>1. ASSUME NEW slot, req' = [req EXCEPT ![r] = slot], UNCHANGED receipt,
             slot.c = c, slot.b = b, slot.seen = receipt[c], receipt[c].status # "ABSENT",
             slot.step = "arriveSave" =>
                 \A e \in Before(receipt[c], b) : receipt[c].stops[e].status # "PENDING",
             slot.step # "arriveSave" =>
                 receipt[c].stops[b].status # "PENDING" /\ slot.result # "PENDING"
      PROVE  StopInv'
  <2>1. SeenInv(slot)
    BY <1>0, <1>1 DEF SeenInv
  <2>2. req'[r] = slot /\ \A s \in Requests \ {r} : req'[s] = req[s]
    BY <1>0, <1>1
  <2> QED BY <1>1, <2>1, <2>2, NoReceiptWritten
<1>2. ASSUME Start(r, [Idle EXCEPT !.step = "arriveSave", !.c = c, !.b = b, !.seen = receipt[c]]),
             UNCHANGED receipt, receipt[c].status # "ABSENT",
             \A e \in Before(receipt[c], b) : receipt[c].stops[e].status # "PENDING"
      PROVE  StopInv'
  <2> DEFINE slot == [Idle EXCEPT !.step = "arriveSave", !.c = c, !.b = b, !.seen = receipt[c]]
  <2>1. req' = [req EXCEPT ![r] = slot]
    BY <1>2 DEF Start
  <2>2. slot.step = "arriveSave" /\ slot.c = c /\ slot.b = b /\ slot.seen = receipt[c]
    BY DEF Idle
  <2> HIDE DEF slot
  <2> QED BY <1>1, <1>2, <2>1, <2>2
<1>3. CASE BeginArrive(r, c, b)
  BY <1>2, <1>3 DEF BeginArrive, MayArrive, Done
<1>4. CASE BeginSync(r, c, b)
  BY <1>2, <1>4 DEF BeginSync, NextPending
<1>5. ASSUME NEW result \in {"CONFIRMED", "PARTIAL"}, NEW listed \in BOOLEAN,
             BeginConfirm(r, c, b, result, listed)
      PROVE  StopInv'
  <2> DEFINE step == IF AllStopsDone(receipt[c], b) THEN "confirmRelease" ELSE "confirmSave"
             slot == [Idle EXCEPT !.step = step, !.c = c, !.b = b, !.result = result,
                                  !.listed = listed, !.seen = receipt[c]]
  <2>1. /\ req' = [req EXCEPT ![r] = slot] /\ UNCHANGED receipt
        /\ receipt[c].stops[b].status = "ARRIVED" /\ receipt[c].status # "ABSENT"
    BY <1>0, <1>5 DEF BeginConfirm, Start, Sound
  <2>2. step # "arriveSave"
    OBVIOUS
  <2> HIDE DEF step
  <2>3. slot.step = step /\ slot.c = c /\ slot.b = b /\ slot.seen = receipt[c]
        /\ slot.result = result
    BY DEF Idle
  <2> HIDE DEF slot
  <2> QED BY <1>1, <2>1, <2>2, <2>3
<1> QED BY <1>3, <1>4, <1>5

\* What the handler in slot r finds when it saves a stop.
LEMMA StopSlot ==
    ASSUME TypeInv, StopInv, NEW r \in Requests, req[r].step \in StopSteps
    PROVE  /\ req[r].c \in Receipts /\ req[r].b \in Branches /\ req[r] \in RequestState
           /\ receipt[req[r].c] \in ReceiptDoc /\ Sound(receipt[req[r].c])
           /\ SeenInv(req[r])
BY Loaded DEF StopInv, SlotFit, ReceiptSteps, StopSteps

\* The driver is released before the receipt is saved; the slot is otherwise
\* the same.
LEMMA ReleaseStop ==
    ASSUME TypeInv, StopInv, NEW r \in Requests, ConfirmRelease(r)
    PROVE  StopInv'
<1> DEFINE slot == [req[r] EXCEPT !.step = "confirmSave"]
<1>1. req[r].step = "confirmRelease" /\ req[r].step \in StopSteps /\ UNCHANGED receipt
  BY DEF ConfirmRelease, StopSteps
<1>2. SeenInv(req[r]) /\ req[r] \in RequestState
  BY <1>1, StopSlot
<1>3. req' = [req EXCEPT ![r] = slot]
  BY Loaded DEF ConfirmRelease, Goto
<1>4. /\ slot.step = "confirmSave" /\ slot.c = req[r].c /\ slot.b = req[r].b
      /\ slot.seen = req[r].seen /\ slot.result = req[r].result
  BY <1>2 DEF RequestState
<1> HIDE DEF slot
<1>5. SeenInv(slot)
  BY <1>1, <1>2, <1>4 DEF SeenInv
<1>6. req'[r] = slot /\ \A s \in Requests \ {r} : req'[s] = req[s]
  BY <1>3, Loaded
<1> QED BY <1>1, <1>5, <1>6, NoReceiptWritten

\* The fields of a receipt whose stop b was reached.
LEMMA ArrivedFields ==
    ASSUME TypeInv, NEW c \in Receipts, NEW b \in Branches, NEW seen
    PROVE  /\ Arrived(c, b, seen).status = receipt[c].status
           /\ Arrived(c, b, seen).stops =
                  [receipt[c].stops EXCEPT ![b] = [@ EXCEPT !.status = "ARRIVED"]]
           /\ Arrived(c, b, seen).v = receipt[c].v
<1>1. receipt[c] \in ReceiptDoc
  BY DEF TypeInv, TypeOK
<1> QED BY <1>1 DEF Arrived, ReceiptDoc

LEMMA ArriveStop ==
    ASSUME TypeInv, StopInv, NEW r \in Requests, ArriveSave(r)
    PROVE  StopInv'
<1> DEFINE c == req[r].c
           b == req[r].b
           seen == req[r].seen
           old == receipt[c].stops
           doc == Arrived(c, b, seen)
<1>0. Settled
  BY TripSettles
<1>1. /\ c \in Receipts /\ b \in Branches /\ receipt[c] \in ReceiptDoc /\ Sound(receipt[c])
      /\ SeenInv(req[r]) /\ req[r].step = "arriveSave" /\ req[r].step \in StopSteps
  BY StopSlot DEF ArriveSave, StopSteps
<1>2. CASE ~SameVersion(r)
  BY <1>0, <1>2, NoReceiptWritten DEF ArriveSave, Settled
<1>3. CASE SameVersion(r)
  <2>1. receipt' = [receipt EXCEPT ![c] = doc]
    BY <1>1, <1>3, Loaded DEF ArriveSave, Arrived
  <2>2. Exists(c) /\ Progress(seen.stops, old)
    BY <1>1, <1>3 DEF SameVersion, SeenInv
  <2>3. old \in [Branches -> StopDoc]
    BY <1>1 DEF ReceiptDoc
  <2>4. /\ doc.status = receipt[c].status
        /\ doc.stops = [old EXCEPT ![b] = [@ EXCEPT !.status = "ARRIVED"]]
    BY <1>1, ArrivedFields
  <2> HIDE DEF doc, old
  <2>5. \A e \in Branches :
            /\ doc.stops[e].stopOrder = old[e].stopOrder
            /\ doc.stops[e].confirmed = old[e].confirmed
            /\ doc.stops[e].status = IF e = b THEN "ARRIVED" ELSE old[e].status
    BY <1>1, <2>3, <2>4 DEF StopDoc
  <2>6. doc.status = receipt[c].status
    BY <2>4
  <2>7. \A e \in Branches : 0 < old[e].stopOrder /\ old[e].stopOrder < old[b].stopOrder
                                => old[e].status # "PENDING"
    BY <1>1, <2>2 DEF SeenInv, Before, Route, Progress
  <2> HIDE DEF doc, old
  <2>8. Progress(old, doc.stops)
    BY <2>5 DEF Progress
  <2>9. Sound(doc)
    <3>1. /\ \A e \in Branches, g \in Branches :
                 /\ 0 < old[g].stopOrder /\ old[g].stopOrder < old[e].stopOrder
                 /\ old[e].status # "PENDING"
                 => old[g].status # "PENDING"
          /\ \A e \in Branches : Done(old[e].status) => old[e].confirmed
          /\ receipt[c].status = "COMPLETED" =>
                 \A e \in Branches : old[e].stopOrder > 0 => old[e].confirmed
      BY <1>1 DEF Sound, old
    <3>2. doc.status # "ABSENT"
      BY <2>2, <2>6 DEF Exists
    <3>3. ASSUME NEW e \in Branches, NEW g \in Branches, doc.stops[e].status # "PENDING",
                 0 < doc.stops[g].stopOrder, doc.stops[g].stopOrder < doc.stops[e].stopOrder
          PROVE  doc.stops[g].status # "PENDING"
      <4>1. CASE e = b
        BY <2>5, <2>7, <3>3, <4>1
      <4>2. CASE e # b
        BY <2>5, <3>1, <3>3, <4>2
      <4> QED BY <4>1, <4>2
    <3>4. \A e \in Branches : Done(doc.stops[e].status) => doc.stops[e].confirmed
      BY <2>5, <3>1 DEF Done
    <3>5. doc.status = "COMPLETED" =>
              \A e \in Branches : doc.stops[e].stopOrder > 0 => doc.stops[e].confirmed
      BY <2>5, <2>6, <3>1
    <3> QED BY <3>2, <3>3, <3>4, <3>5 DEF Sound
  <2>10. doc.status # "ABSENT"
    BY <2>2, <2>6 DEF Exists
  <2> QED BY <1>0, <1>1, <2>1, <2>2, <2>8, <2>9, <2>10, OneReceiptWritten DEF Settled, old
<1> QED BY <1>2, <1>3

LEMMA ConfirmStop ==
    ASSUME TypeInv, StopInv, NEW r \in Requests, ConfirmSave(r)
    PROVE  StopInv'
<1> DEFINE c == req[r].c
           b == req[r].b
           seen == req[r].seen
           old == receipt[c].stops
           doc == Confirmed(receipt[c], r)
<1>0. Settled
  BY TripSettles
<1>1. /\ c \in Receipts /\ b \in Branches /\ receipt[c] \in ReceiptDoc /\ Sound(receipt[c])
      /\ SeenInv(req[r]) /\ req[r].step = "confirmSave" /\ req[r].step \in StopSteps
  BY StopSlot DEF ConfirmSave, StopSteps
<1>2. CASE ~SameVersion(r)
  BY <1>0, <1>2, NoReceiptWritten DEF ConfirmSave, Settled
<1>3. CASE SameVersion(r)
  <2>1. receipt' = [receipt EXCEPT ![c] = doc]
    BY <1>3 DEF ConfirmSave
  <2>2. /\ Exists(c) /\ Progress(seen.stops, old) /\ Sound(seen)
        /\ seen.stops[b].status # "PENDING" /\ req[r].result # "PENDING"
    BY <1>1, <1>3 DEF SameVersion, SeenInv
  <2>3. old \in [Branches -> StopDoc]
    BY <1>1 DEF ReceiptDoc
  <2>4. /\ doc.status \in {receipt[c].status, "COMPLETED"}
        /\ doc.status # receipt[c].status => AllStopsDone(seen, b)
        /\ doc.stops = [old EXCEPT ![b] = [@ EXCEPT !.status = req[r].result, !.confirmed = TRUE]]
    BY <1>1, ConfirmedFields
  <2> HIDE DEF doc, old
  <2>5. \A e \in Branches :
            /\ doc.stops[e].stopOrder = old[e].stopOrder
            /\ doc.stops[e].confirmed = IF e = b THEN TRUE ELSE old[e].confirmed
            /\ doc.stops[e].status = IF e = b THEN req[r].result ELSE old[e].status
    BY <1>1, <2>3, <2>4 DEF StopDoc
  <2>6. old[b].status # "PENDING"
    BY <1>1, <2>2 DEF Progress
  <2>7. Progress(old, doc.stops)
    BY <2>2, <2>5 DEF Progress
  <2>8. /\ \A e \in Branches, g \in Branches :
               /\ 0 < old[g].stopOrder /\ old[g].stopOrder < old[e].stopOrder
               /\ old[e].status # "PENDING"
               => old[g].status # "PENDING"
        /\ \A e \in Branches : Done(old[e].status) => old[e].confirmed
        /\ receipt[c].status = "COMPLETED" =>
               \A e \in Branches : old[e].stopOrder > 0 => old[e].confirmed
    BY <1>1 DEF Sound, old
  <2>9. doc.status # "ABSENT"
    BY <2>2, <2>4 DEF Exists
  <2>10. Sound(doc)
    <3>1. ASSUME NEW e \in Branches, NEW g \in Branches, doc.stops[e].status # "PENDING",
                 0 < doc.stops[g].stopOrder, doc.stops[g].stopOrder < doc.stops[e].stopOrder
          PROVE  doc.stops[g].status # "PENDING"
      <4>1. old[e].status # "PENDING"
        BY <2>5, <2>6, <3>1
      <4>2. old[g].status # "PENDING"
        BY <2>5, <2>8, <3>1, <4>1
      <4> QED BY <2>2, <2>5, <4>2
    <3>2. \A e \in Branches : Done(doc.stops[e].status) => doc.stops[e].confirmed
      BY <2>5, <2>8 DEF Done
    <3>3. ASSUME doc.status = "COMPLETED", NEW e \in Branches, doc.stops[e].stopOrder > 0
          PROVE  doc.stops[e].confirmed
      <4>1. CASE doc.status = receipt[c].status
        BY <2>5, <2>8, <3>3, <4>1
      <4>2. CASE e = b
        BY <2>5, <4>2
      <4>3. CASE doc.status # receipt[c].status /\ e # b
        <5>1. e \in Route(seen)
          BY <2>2, <2>5, <3>3 DEF Route, Progress
        <5>2. Done(seen.stops[e].status)
          BY <2>4, <4>3, <5>1 DEF AllStopsDone
        <5>3. seen.stops[e].confirmed
          BY <2>2, <5>2 DEF Sound
        <5>4. old[e].confirmed
          BY <2>2, <5>3 DEF Progress
        <5> QED BY <2>5, <4>3, <5>4
      <4> QED BY <4>1, <4>2, <4>3
    <3> QED BY <2>9, <3>1, <3>2, <3>3 DEF Sound
  <2> QED BY <1>0, <1>1, <2>1, <2>2, <2>7, <2>9, <2>10, OneReceiptWritten DEF Settled, old
<1> QED BY <1>2, <1>3

\* The saves that leave the stops alone, and the handlers without a save.
LEMMA TripStop ==
    ASSUME TypeInv, StopInv, NEW r \in Requests, Trip(r)
    PROVE  StopInv'
<1>1. ASSUME UNCHANGED receipt, Settled PROVE StopInv'
  BY <1>1, NoReceiptWritten DEF Settled
<1>2. ASSUME NEW c \in Receipts, BeginDepart(r, c) \/ BeginStart(r, c) \/ BeginCancel(r, c)
      PROVE  StopInv'
  BY <1>1, <1>2, TripSettles DEF BeginDepart, BeginStart, BeginCancel
<1>3. ASSUME NEW s \in Shipments,
             DepartShipments(r, s) \/ ArriveShipments(r, s) \/ CancelShipments(r, s)
      PROVE  StopInv'
  BY <1>1, <1>3, TripSettles DEF DepartShipments, ArriveShipments, CancelShipments
<1>4. CASE CancelRelease(r)
  BY <1>1, <1>4, TripSettles DEF CancelRelease
<1>5. ASSUME NEW doc, Exists(req[r].c), req[r].step \in ReceiptSteps,
             receipt' = [receipt EXCEPT ![req[r].c] = doc],
             doc.stops = receipt[req[r].c].stops, Settled,
             \/ doc.status = receipt[req[r].c].status
             \/ doc.status \in {"IN_TRANSIT", "CANCELLED"}
      PROVE  StopInv'
  <2> DEFINE c == req[r].c
  <2>1. c \in Receipts /\ Sound(receipt[c]) /\ receipt[c].status # "ABSENT"
    BY <1>5, Loaded DEF StopInv, SlotFit, Exists
  <2>2. Sound(doc) /\ Progress(receipt[c].stops, doc.stops) /\ doc.status # "ABSENT"
    BY <1>5, <2>1, StopsUntouched
  <2> HIDE DEF c
  <2>3. receipt' = [receipt EXCEPT ![c] = doc] /\ Exists(c)
    BY <1>5 DEF c
  <2> QED BY <1>5, <2>1, <2>2, <2>3, OneReceiptWritten DEF Settled
<1>6. CASE DepartSave(r) \/ CancelSave(r) \/ StartSave(r)
  <2> DEFINE c == req[r].c
  <2>1. Settled /\ req[r].step \in ReceiptSteps
    BY <1>6, TripSettles DEF DepartSave, CancelSave, StartSave, ReceiptSteps
  <2>2. c \in Receipts /\ receipt[c] \in ReceiptDoc
    BY <2>1, Loaded DEF SlotFit
  <2>3. CASE ~Exists(c)
    BY <1>1, <1>6, <2>1, <2>3 DEF DepartSave, CancelSave, StartSave
  <2>4. ASSUME Exists(c), NEW status \in {"IN_TRANSIT", "CANCELLED"},
               receipt' = [receipt EXCEPT ![c].status = status]
        PROVE  StopInv'
    <3> DEFINE doc == [receipt[c] EXCEPT !.status = status]
    <3>1. receipt' = [receipt EXCEPT ![c] = doc]
      BY <2>2, <2>4, Loaded
    <3>2. doc.status = status /\ doc.stops = receipt[c].stops
      BY <2>2 DEF ReceiptDoc
    <3> HIDE DEF doc
    <3> QED BY <1>5, <2>1, <2>4, <3>1, <3>2
  <2>5. CASE Exists(c) /\ StartSave(r)
    <3> DEFINE doc == [receipt[c] EXCEPT !.started = TRUE, !.segment = TRUE]
    <3>1. receipt' = [receipt EXCEPT ![c] = doc]
      BY <2>2, <2>5, Loaded DEF StartSave
    <3>2. doc.status = receipt[c].status /\ doc.stops = receipt[c].stops
      BY <2>2 DEF ReceiptDoc
    <3> HIDE DEF doc
    <3> QED BY <1>5, <2>1, <2>5, <3>1, <3>2
  <2> QED BY <1>6, <2>3, <2>4, <2>5 DEF DepartSave, CancelSave
<1> QED
  BY <1>2, <1>3, <1>4, <1>6, BeginStop, ReleaseStop, ArriveStop, ConfirmStop DEF Trip

LEMMA NextStop ==
    ASSUME TypeInv, StopInv, [Next]_vars
    PROVE  StopInv'
<1>1. CASE UNCHANGED vars
  BY <1>1, NoReceiptWritten DEF vars
<1>2. CASE Crash
  BY <1>2, NoReceiptWritten DEF Crash, Idle, StopSteps
<1> QED BY <1>1, <1>2, MakeStop, TripStop DEF Next

LEMMA InitStop == Init => StopInv
BY NoReceiptSound DEF Init, StopInv, SeenInv, Idle, StopSteps

LEMMA StopInvHolds == Spec => []StopInv
BY InitStop, NextStop, TypeInvHolds, PTL DEF Spec

\* Trucks reach the stops of any route in order, for any number of concurrent
\* reports, polls and confirmations: dispatch-receipt.service.ts:536 and :594.
THEOREM StopOrder == Spec => []StopsArriveInOrder
<1>1. StopInv => StopsArriveInOrder
  BY DEF StopInv, Sound, StopsArriveInOrder, Route, Before
<1> QED BY <1>1, StopInvHolds, PTL

\* A receipt with any number of destination branches completes only when each
\* of them has confirmed its stop: dispatch-receipt.service.ts:683.
THEOREM CompletionConfirmed == Spec => []CompletedConfirmed
<1>1. StopInv => CompletedConfirmed
  BY DEF StopInv, Sound, CompletedConfirmed, Route
<1> QED BY <1>1, StopInvHolds, PTL

-----------------------------------------------------------------------------
(* MissingReportKept and ConfirmedBeforeNext.  Nothing in the code compares  *)
(* a stop with what the handler loaded; only the version test can refuse a   *)
(* save, and only a confirmation that lists shipments makes a new version.   *)
(* So the invariant relates versions to reports: a receipt in the version a  *)
(* handler loaded has no report of missing shipments that it did not see.    *)

\* What a receipt says compared with an earlier state of it.
Fresh(old, new) ==
    /\ old.v <= new.v
    /\ old.v = new.v =>
           \A b \in Branches : new.stops[b].status = "PARTIAL" => old.stops[b].status = "PARTIAL"

\* ConfirmedBeforeNext, for one receipt.
Ordered(doc) ==
    \A b \in Branches, e \in Branches :
        /\ 0 < doc.stops[e].stopOrder /\ doc.stops[e].stopOrder < doc.stops[b].stopOrder
        /\ doc.stops[b].status # "PENDING"
        => doc.stops[e].confirmed

ByHand == "sync" \notin Operations

LoadInv(slot) ==
    slot.step \in StopSteps =>
        /\ slot.seen.stops[slot.b].status # "PARTIAL"
        /\ slot.result = "PARTIAL" => slot.listed
        /\ Exists(slot.c) => Fresh(slot.seen, receipt[slot.c])
        /\ slot.step = "arriveSave" /\ ByHand =>
               \A e \in Before(slot.seen, slot.b) : slot.seen.stops[e].confirmed

VersionInv ==
    /\ ByHand => \A c \in Receipts : Ordered(receipt[c])
    /\ \A r \in Requests : LoadInv(req[r])

\* The step of MissingReportKept.
ReportsKept ==
    \A c \in Receipts, b \in Branches :
        (receipt[c].stops[b].status = "PARTIAL" /\ receipt'[c].status # "DELETED")
            => receipt'[c].stops[b].status = "PARTIAL"

LEMMA FreshSelf ==
    ASSUME NEW doc \in ReceiptDoc
    PROVE  Fresh(doc, doc)
<1>1. doc.v \in Nat
  BY DEF ReceiptDoc
<1> QED BY <1>1 DEF Fresh

LEMMA FreshOn ==
    ASSUME NEW old \in ReceiptDoc, NEW mid \in ReceiptDoc, NEW new \in ReceiptDoc,
           Fresh(old, mid), Fresh(mid, new)
    PROVE  Fresh(old, new)
<1>1. old.v \in Nat /\ mid.v \in Nat /\ new.v \in Nat
  BY DEF ReceiptDoc
<1>2. /\ old.v <= mid.v /\ mid.v <= new.v
      /\ old.v = mid.v => \A b \in Branches :
             mid.stops[b].status = "PARTIAL" => old.stops[b].status = "PARTIAL"
      /\ mid.v = new.v => \A b \in Branches :
             new.stops[b].status = "PARTIAL" => mid.stops[b].status = "PARTIAL"
  BY DEF Fresh
<1>3. old.v <= new.v /\ (old.v = new.v => old.v = mid.v /\ mid.v = new.v)
  BY <1>1, <1>2
<1> QED BY <1>2, <1>3 DEF Fresh

LEMMA VersionUnwritten ==
    ASSUME VersionInv, UNCHANGED receipt,
           \A s \in Requests : \/ req'[s] = req[s]
                               \/ req'[s].step \notin StopSteps
                               \/ LoadInv(req'[s])
    PROVE  VersionInv' /\ ReportsKept
<1>1. (ByHand => \A c \in Receipts : Ordered(receipt[c]))'
  BY DEF VersionInv, ByHand, Ordered
<1>2. ASSUME NEW s \in Requests PROVE LoadInv(req[s])'
  <2>1. LoadInv(req'[s])
    BY DEF VersionInv, LoadInv
  <2> QED BY <2>1 DEF LoadInv, Exists, Fresh, Before, Route, ByHand
<1>3. ReportsKept
  BY DEF ReportsKept
<1> QED BY <1>1, <1>2, <1>3 DEF VersionInv

LEMMA VersionWritten ==
    ASSUME TypeInv, StopInv, VersionInv, NEW c \in Receipts, NEW doc \in ReceiptDoc,
           receipt' = [receipt EXCEPT ![c] = doc],
           ByHand => Ordered(doc),
           \/ receipt[c].status = "ABSENT"
           \/ doc.status = "DELETED"
           \/ /\ Exists(c) /\ Fresh(receipt[c], doc)
              /\ \A b \in Branches : receipt[c].stops[b].status = "PARTIAL"
                                         => doc.stops[b].status = "PARTIAL",
           \A s \in Requests : req'[s] = req[s] \/ req'[s].step \notin StopSteps
    PROVE  VersionInv' /\ ReportsKept
<1>1. \A e \in Receipts : receipt'[e] = IF e = c THEN doc ELSE receipt[e]
  BY DEF TypeInv, TypeOK
<1>2. (ByHand => \A e \in Receipts : Ordered(receipt[e]))'
  <2>1. ByHand => \A e \in Receipts : Ordered(receipt'[e])
    BY <1>1 DEF VersionInv
  <2> QED BY <2>1 DEF Ordered, ByHand
<1>3. ASSUME NEW s \in Requests PROVE LoadInv(req[s])'
  <2> SUFFICES ASSUME req'[s].step \in StopSteps PROVE LoadInv(req[s])'
    BY DEF LoadInv
  <2>1. PICK slot \in RequestState : slot = req[s] /\ req'[s] = slot
    BY Loaded
  <2>2. LoadInv(slot) /\ SeenInv(slot) /\ slot.c \in Receipts /\ slot.step \in StopSteps
    BY <2>1 DEF VersionInv, StopInv, TypeInv, SlotFit, ReceiptSteps, StopSteps
  <2>3. slot.seen \in ReceiptDoc /\ receipt[slot.c] \in ReceiptDoc
    BY <2>2, Loaded DEF RequestState
  <2>4. receipt[slot.c].status # "ABSENT"
    BY <2>2 DEF SeenInv
  <2>5. receipt'[slot.c].status \notin {"ABSENT", "DELETED"} => Fresh(slot.seen, receipt'[slot.c])
    <3>1. CASE slot.c # c
      BY <1>1, <2>2, <3>1 DEF LoadInv, Exists
    <3>2. CASE slot.c = c
      <4>1. CASE doc.status = "DELETED"
        BY <1>1, <3>2, <4>1
      <4>2. CASE Exists(c) /\ Fresh(receipt[c], doc)
        <5>1. Fresh(slot.seen, receipt[c])
          BY <2>2, <3>2, <4>2 DEF LoadInv
        <5>2. Fresh(slot.seen, doc)
          BY <2>3, <3>2, <4>2, <5>1, FreshOn
        <5> QED BY <1>1, <3>2, <5>2
      <4> QED BY <2>4, <3>2, <4>1, <4>2
    <3> QED BY <3>1, <3>2
  <2>6. LoadInv(slot)'
    BY <2>2, <2>5 DEF LoadInv, Exists, Fresh, Before, Route, ByHand
  <2> QED BY <2>1, <2>6 DEF LoadInv, Exists, Fresh, Before, Route, ByHand
<1>4. ReportsKept
  <2>1. ASSUME NEW b \in Branches, receipt[c].stops[b].status = "PARTIAL", doc.status # "DELETED"
        PROVE  doc.stops[b].status = "PARTIAL"
    <3>1. receipt[c].status # "ABSENT"
      BY <2>1 DEF StopInv, Sound
    <3> QED BY <2>1, <3>1
  <2> QED BY <1>1, <2>1 DEF ReportsKept
<1> QED BY <1>2, <1>3, <1>4 DEF VersionInv

LEMMA NewOrdered ==
    ASSUME NEW d, NEW optimized, NEW order, NEW load
    PROVE  Ordered(NewReceipt(d, optimized, StopsFor(order, load)))
<1> DEFINE stops == StopsFor(order, load)
           doc == NewReceipt(d, optimized, stops)
<1>1. \A b \in Branches : stops[b].status = "PENDING"
  BY DEF StopsFor, NoStop
<1> HIDE DEF stops
<1>2. doc.stops = stops
  BY DEF NewReceipt, NoReceipt
<1> HIDE DEF doc
<1>3. Ordered(doc)
  BY <1>1, <1>2 DEF Ordered
<1> QED BY <1>3 DEF doc, stops

LEMMA MakeVersion ==
    ASSUME TypeInv, StopInv, VersionInv, NEW r \in Requests, Make(r)
    PROVE  VersionInv' /\ ReportsKept
<1>0. Settled
  BY MakeSettles
<1>1. ASSUME UNCHANGED receipt PROVE VersionInv' /\ ReportsKept
  BY <1>0, <1>1, VersionUnwritten DEF Settled
<1>2. ASSUME NEW c \in Receipts, NEW order \in Orders, CreateInsert(r, c, order)
      PROVE  VersionInv' /\ ReportsKept
  <2> DEFINE doc == NewReceipt(req[r].d, FALSE, StopsFor(order, req[r].load))
  <2>1. receipt' = [receipt EXCEPT ![c] = doc] /\ receipt[c].status = "ABSENT"
    BY <1>2 DEF CreateInsert
  <2>2. Ordered(doc)
    BY NewOrdered
  <2>3. doc \in ReceiptDoc
    <3>1. req[r].load \in SUBSET Shipments /\ req[r].d \in Drivers \cup {None}
      BY Loaded DEF RequestState
    <3> QED BY <3>1, NewReceiptType
  <2> HIDE DEF doc
  <2> QED BY <1>0, <2>1, <2>2, <2>3, VersionWritten DEF Settled
<1>3. ASSUME NEW c \in Receipts, NEW d \in Drivers, NEW order \in Orders,
             PlanRoute(r, c, d, order)
      PROVE  VersionInv' /\ ReportsKept
  <2> DEFINE cargo == {s \in req[r].load : order[Destination[s]] > 0}
             doc == NewReceipt(d, TRUE, StopsFor(order, cargo))
  <2>1. receipt' = [receipt EXCEPT ![c] = doc] /\ receipt[c].status = "ABSENT"
    BY <1>3 DEF PlanRoute
  <2>2. cargo \in SUBSET Shipments
    BY Loaded DEF RequestState
  <2> HIDE DEF cargo
  <2>3. Ordered(doc)
    BY NewOrdered
  <2>4. doc \in ReceiptDoc
    BY <2>2, NewReceiptType
  <2> HIDE DEF doc
  <2> QED BY <1>0, <2>1, <2>3, <2>4, VersionWritten DEF Settled
<1>4. CASE PlanDelete(r)
  <2> DEFINE doc == [NoReceipt EXCEPT !.status = "DELETED"]
  <2>1. receipt' = [receipt EXCEPT ![req[r].c] = doc]
    BY <1>4 DEF PlanDelete
  <2>2. Ordered(doc) /\ doc.status = "DELETED" /\ doc \in ReceiptDoc
    <3>1. doc \in ReceiptDoc /\ doc.status = "DELETED" /\ doc.stops = NoReceipt.stops
      BY NoReceiptType DEF ReceiptDoc
    <3>2. \A b \in Branches : NoReceipt.stops[b].status = "PENDING"
      BY DEF NoReceipt, NoStop
    <3> HIDE DEF doc
    <3> QED BY <3>1, <3>2 DEF Ordered
  <2> HIDE DEF doc
  <2>3. CASE req[r].c \in Receipts
    BY <1>0, <2>1, <2>2, <2>3, VersionWritten DEF Settled
  <2>4. CASE req[r].c \notin Receipts
    <3>1. receipt' = receipt
      BY <2>1, <2>4, Loaded
    <3> QED BY <1>1, <3>1
  <2> QED BY <2>3, <2>4
<1>5. ASSUME ~\E c \in Receipts, order \in Orders : CreateInsert(r, c, order),
             ~\E c \in Receipts, d \in Drivers, order \in Orders : PlanRoute(r, c, d, order),
             ~PlanDelete(r)
      PROVE  UNCHANGED receipt
  BY <1>5 DEF Make, BeginCreate, CreateCheck, BeginPlan, CreateLink, CreateReserve, PlanFleet,
              PlanEnd, PlanClaim, PlanReserve
<1> QED BY <1>1, <1>2, <1>3, <1>4, <1>5

\* What a handler that starts on a stop loads is the newest version, and the
\* stop has no report in it.
LEMMA BeginVersion ==
    ASSUME TypeInv, StopInv, VersionInv, NEW r \in Requests, NEW c \in Receipts, NEW b \in Branches,
           \/ BeginArrive(r, c, b) \/ BeginSync(r, c, b)
           \/ \E result \in {"CONFIRMED", "PARTIAL"}, listed \in BOOLEAN :
                  BeginConfirm(r, c, b, result, listed)
    PROVE  VersionInv' /\ ReportsKept
<1>0. /\ req \in [Requests -> RequestState] /\ UNCHANGED receipt
      /\ receipt[c] \in ReceiptDoc /\ Sound(receipt[c]) /\ Fresh(receipt[c], receipt[c])
  BY Loaded, FreshSelf DEF StopInv, BeginArrive, BeginSync, BeginConfirm
<1>1. ASSUME NEW slot, req' = [req EXCEPT ![r] = slot],
             slot.c = c, slot.b = b, slot.seen = receipt[c],
             receipt[c].stops[b].status # "PARTIAL",
             slot.result = "PARTIAL" => slot.listed,
             slot.step = "arriveSave" /\ ByHand =>
                 \A e \in Before(receipt[c], b) : receipt[c].stops[e].confirmed
      PROVE  VersionInv' /\ ReportsKept
  <2>1. LoadInv(slot)
    BY <1>0, <1>1 DEF LoadInv
  <2>2. req'[r] = slot /\ \A s \in Requests \ {r} : req'[s] = req[s]
    BY <1>0, <1>1
  <2> QED BY <1>0, <2>1, <2>2, VersionUnwritten
<1>2. ASSUME Start(r, [Idle EXCEPT !.step = "arriveSave", !.c = c, !.b = b, !.seen = receipt[c]]),
             receipt[c].stops[b].status = "PENDING",
             ByHand => \A e \in Before(receipt[c], b) : receipt[c].stops[e].confirmed
      PROVE  VersionInv' /\ ReportsKept
  <2> DEFINE slot == [Idle EXCEPT !.step = "arriveSave", !.c = c, !.b = b, !.seen = receipt[c]]
  <2>1. req' = [req EXCEPT ![r] = slot]
    BY <1>2 DEF Start
  <2>2. slot.c = c /\ slot.b = b /\ slot.seen = receipt[c] /\ slot.result = "PENDING"
    BY DEF Idle
  <2> HIDE DEF slot
  <2> QED BY <1>1, <1>2, <2>1, <2>2
<1>3. CASE BeginArrive(r, c, b)
  <2>1. \A e \in Before(receipt[c], b) : receipt[c].stops[e].confirmed
    BY <1>0, <1>3 DEF BeginArrive, MayArrive, Sound, Before, Route
  <2> QED BY <1>2, <1>3, <2>1 DEF BeginArrive, MayArrive
<1>4. CASE BeginSync(r, c, b)
  <2>1. ~ByHand
    BY <1>4 DEF BeginSync, ByHand
  <2> QED BY <1>2, <1>4, <2>1 DEF BeginSync, NextPending
<1>5. ASSUME NEW result \in {"CONFIRMED", "PARTIAL"}, NEW listed \in BOOLEAN,
             BeginConfirm(r, c, b, result, listed)
      PROVE  VersionInv' /\ ReportsKept
  <2> DEFINE step == IF AllStopsDone(receipt[c], b) THEN "confirmRelease" ELSE "confirmSave"
             slot == [Idle EXCEPT !.step = step, !.c = c, !.b = b, !.result = result,
                                  !.listed = listed, !.seen = receipt[c]]
  <2>1. /\ req' = [req EXCEPT ![r] = slot]
        /\ receipt[c].stops[b].status = "ARRIVED"
        /\ result = "PARTIAL" => listed
    BY <1>5 DEF BeginConfirm, Start
  <2>2. step # "arriveSave"
    OBVIOUS
  <2> HIDE DEF step
  <2>3. slot.step = step /\ slot.c = c /\ slot.b = b /\ slot.seen = receipt[c]
        /\ slot.result = result /\ slot.listed = listed
    BY DEF Idle
  <2> HIDE DEF slot
  <2>4. slot.result = "PARTIAL" => slot.listed
    BY <2>1, <2>3, Zenon
  <2> QED BY <1>1, <2>1, <2>2, <2>3, <2>4
<1> QED BY <1>3, <1>4, <1>5

LEMMA ReleaseVersion ==
    ASSUME TypeInv, StopInv, VersionInv, NEW r \in Requests, ConfirmRelease(r)
    PROVE  VersionInv' /\ ReportsKept
<1> DEFINE slot == [req[r] EXCEPT !.step = "confirmSave"]
<1>1. req[r].step = "confirmRelease" /\ req[r].step \in StopSteps /\ UNCHANGED receipt
  BY DEF ConfirmRelease, StopSteps
<1>2. LoadInv(req[r]) /\ req[r] \in RequestState
  BY Loaded DEF VersionInv
<1>3. req' = [req EXCEPT ![r] = slot]
  BY Loaded DEF ConfirmRelease, Goto
<1>4. /\ slot.step = "confirmSave" /\ slot.c = req[r].c /\ slot.b = req[r].b
      /\ slot.seen = req[r].seen /\ slot.result = req[r].result /\ slot.listed = req[r].listed
  BY <1>2 DEF RequestState
<1> HIDE DEF slot
<1>5. LoadInv(slot)
  <2>1. /\ req[r].seen.stops[req[r].b].status # "PARTIAL"
        /\ req[r].result = "PARTIAL" => req[r].listed
        /\ Exists(req[r].c) => Fresh(req[r].seen, receipt[req[r].c])
    BY <1>1, <1>2 DEF LoadInv
  <2>2. slot.result = "PARTIAL" => slot.listed
    BY <1>4, <2>1, Zenon
  <2> QED BY <1>4, <2>1, <2>2 DEF LoadInv
<1>6. req'[r] = slot /\ \A s \in Requests \ {r} : req'[s] = req[s]
  BY <1>3, Loaded
<1> QED BY <1>1, <1>5, <1>6, VersionUnwritten

\* The version test and the invariant: the stop that is saved has no report.
LEMMA UnreportedStop ==
    ASSUME TypeInv, StopInv, VersionInv, NEW r \in Requests, req[r].step \in StopSteps, SameVersion(r)
    PROVE  /\ Exists(req[r].c) /\ receipt[req[r].c].stops[req[r].b].status # "PARTIAL"
           /\ Progress(req[r].seen.stops, receipt[req[r].c].stops)
<1>1. PICK c \in Receipts, b \in Branches : c = req[r].c /\ b = req[r].b
  BY StopSlot
<1>2. /\ LoadInv(req[r]) /\ SeenInv(req[r]) /\ Exists(c) /\ receipt[c].v = req[r].seen.v
  BY <1>1 DEF VersionInv, StopInv, SameVersion
<1>3. Fresh(req[r].seen, receipt[c]) /\ req[r].seen.stops[b].status # "PARTIAL"
  BY <1>1, <1>2 DEF LoadInv
<1>4. receipt[c].stops[b].status # "PARTIAL"
  BY <1>2, <1>3 DEF Fresh
<1>5. Progress(req[r].seen.stops, receipt[c].stops)
  BY <1>1, <1>2 DEF SeenInv
<1> QED BY <1>1, <1>2, <1>4, <1>5

LEMMA ArriveVersion ==
    ASSUME TypeInv, StopInv, VersionInv, NEW r \in Requests, ArriveSave(r)
    PROVE  VersionInv' /\ ReportsKept
<1>0. Settled
  BY TripSettles
<1>1. CASE ~SameVersion(r)
  BY <1>0, <1>1, VersionUnwritten DEF ArriveSave, Settled
<1>2. CASE SameVersion(r)
  <2>1. PICK c \in Receipts, b \in Branches : c = req[r].c /\ b = req[r].b
    BY StopSlot DEF ArriveSave, StopSteps
  <2> DEFINE seen == req[r].seen
             old == receipt[c].stops
             doc == Arrived(c, b, seen)
  <2>2. receipt' = [receipt EXCEPT ![c] = doc]
    BY <1>2, <2>1, Loaded DEF ArriveSave, Arrived
  <2>3. /\ req[r].step = "arriveSave" /\ req[r].step \in StopSteps
        /\ Exists(c) /\ old[b].status # "PARTIAL" /\ Progress(seen.stops, old)
    BY <1>2, <2>1, UnreportedStop DEF ArriveSave, StopSteps
  <2>4. receipt[c] \in ReceiptDoc /\ doc \in ReceiptDoc
    BY Loaded, ArrivedType
  <2>5. old \in [Branches -> StopDoc] /\ receipt[c].v \in Nat
    BY <2>4 DEF ReceiptDoc
  <2>6. doc.stops = [old EXCEPT ![b] = [@ EXCEPT !.status = "ARRIVED"]] /\ doc.v = receipt[c].v
    BY ArrivedFields
  <2> HIDE DEF doc, old
  <2>7. \A e \in Branches :
            /\ doc.stops[e].stopOrder = old[e].stopOrder
            /\ doc.stops[e].confirmed = old[e].confirmed
            /\ doc.stops[e].status = IF e = b THEN "ARRIVED" ELSE old[e].status
    BY <2>5, <2>6 DEF StopDoc
  <2>8. /\ \A e \in Branches : doc.stops[e].status = "PARTIAL" => old[e].status = "PARTIAL"
        /\ \A e \in Branches : old[e].status = "PARTIAL" => doc.stops[e].status = "PARTIAL"
    BY <2>3, <2>7
  <2>9. Fresh(receipt[c], doc)
    BY <2>5, <2>6, <2>8 DEF Fresh, old
  <2>10. ByHand => Ordered(doc)
    <3> SUFFICES ASSUME ByHand, NEW g \in Branches, NEW e \in Branches,
                        0 < doc.stops[e].stopOrder, doc.stops[e].stopOrder < doc.stops[g].stopOrder,
                        doc.stops[g].status # "PENDING"
                 PROVE  doc.stops[e].confirmed
      BY DEF Ordered
    <3>1. 0 < old[e].stopOrder /\ old[e].stopOrder < old[g].stopOrder
      BY <2>7
    <3>2. CASE g # b
      <4>1. Ordered(receipt[c])
        BY DEF VersionInv
      <4>2. old[g].status # "PENDING"
        BY <2>7, <3>2
      <4> QED BY <2>7, <3>1, <4>1, <4>2 DEF Ordered, old
    <3>3. CASE g = b
      <4>1. e \in Before(seen, b)
        BY <2>3, <3>1, <3>3 DEF Before, Route, Progress
      <4>2. LoadInv(req[r])
        BY DEF VersionInv
      <4>3. seen.stops[e].confirmed
        BY <2>1, <2>3, <4>1, <4>2 DEF LoadInv
      <4>4. old[e].confirmed
        BY <2>3, <4>3 DEF Progress
      <4> QED BY <2>7, <4>4
    <3> QED BY <3>2, <3>3
  <2> QED BY <1>0, <2>2, <2>3, <2>4, <2>8, <2>9, <2>10, VersionWritten DEF Settled, old
<1> QED BY <1>1, <1>2

LEMMA ConfirmVersion ==
    ASSUME TypeInv, StopInv, VersionInv, NEW r \in Requests, ConfirmSave(r)
    PROVE  VersionInv' /\ ReportsKept
<1>0. Settled
  BY TripSettles
<1>1. CASE ~SameVersion(r)
  BY <1>0, <1>1, VersionUnwritten DEF ConfirmSave, Settled
<1>2. CASE SameVersion(r)
  <2>1. PICK c \in Receipts, b \in Branches : c = req[r].c /\ b = req[r].b
    BY StopSlot DEF ConfirmSave, StopSteps
  <2> DEFINE seen == req[r].seen
             old == receipt[c].stops
             doc == Confirmed(receipt[c], r)
  <2>2. receipt' = [receipt EXCEPT ![c] = doc]
    BY <1>2, <2>1 DEF ConfirmSave
  <2>3. /\ req[r].step = "confirmSave" /\ req[r].step \in StopSteps
        /\ Exists(c) /\ old[b].status # "PARTIAL" /\ Progress(seen.stops, old)
    BY <1>2, <2>1, UnreportedStop DEF ConfirmSave, StopSteps
  <2>4. receipt[c] \in ReceiptDoc
    BY Loaded
  <2>5. old \in [Branches -> StopDoc] /\ receipt[c].v \in Nat
    BY <2>4 DEF ReceiptDoc
  <2>6. /\ doc \in ReceiptDoc
        /\ doc.stops = [old EXCEPT ![b] = [@ EXCEPT !.status = req[r].result, !.confirmed = TRUE]]
        /\ doc.v = VersionAfter(receipt[c].v, req[r].listed)
    BY <2>1, <2>4, ConfirmedFields
  <2> HIDE DEF doc, old
  <2>7. \A e \in Branches :
            /\ doc.stops[e].stopOrder = old[e].stopOrder
            /\ doc.stops[e].confirmed = IF e = b THEN TRUE ELSE old[e].confirmed
            /\ doc.stops[e].status = IF e = b THEN req[r].result ELSE old[e].status
    BY <2>5, <2>6 DEF StopDoc
  <2>8. \A e \in Branches : old[e].status = "PARTIAL" => doc.stops[e].status = "PARTIAL"
    BY <2>3, <2>7
  <2>9. LoadInv(req[r]) /\ SeenInv(req[r])
    BY DEF VersionInv, StopInv
  <2>10. Fresh(receipt[c], doc)
    <3>1. receipt[c].v <= doc.v /\ (receipt[c].v = doc.v => ~req[r].listed)
      BY <2>5, <2>6 DEF VersionAfter
    <3>2. receipt[c].v = doc.v => req[r].result # "PARTIAL"
      BY <2>3, <2>9, <3>1 DEF LoadInv
    <3>3. receipt[c].v = doc.v =>
              \A e \in Branches : doc.stops[e].status = "PARTIAL" => old[e].status = "PARTIAL"
      BY <2>7, <3>2
    <3> QED BY <3>1, <3>3 DEF Fresh, old
  <2>11. ByHand => Ordered(doc)
    <3> SUFFICES ASSUME ByHand, NEW g \in Branches, NEW e \in Branches,
                        0 < doc.stops[e].stopOrder, doc.stops[e].stopOrder < doc.stops[g].stopOrder,
                        doc.stops[g].status # "PENDING"
                 PROVE  doc.stops[e].confirmed
      BY DEF Ordered
    <3>1. 0 < old[e].stopOrder /\ old[e].stopOrder < old[g].stopOrder
      BY <2>7
    <3>2. seen.stops[b].status # "PENDING"
      BY <2>1, <2>3, <2>9 DEF SeenInv
    <3>3. old[b].status # "PENDING"
      BY <2>3, <3>2 DEF Progress
    <3>4. old[g].status # "PENDING"
      BY <2>7, <3>3
    <3>5. Ordered(receipt[c])
      BY DEF VersionInv
    <3>6. old[e].confirmed
      BY <3>1, <3>4, <3>5 DEF Ordered, old
    <3> QED BY <2>7, <3>6
  <2> QED BY <1>0, <2>2, <2>3, <2>6, <2>8, <2>10, <2>11, VersionWritten DEF Settled, old
<1> QED BY <1>1, <1>2

\* The saves that leave the stops and the version alone, and the handlers
\* without a save.
LEMMA TripVersion ==
    ASSUME TypeInv, StopInv, VersionInv, NEW r \in Requests, Trip(r)
    PROVE  VersionInv' /\ ReportsKept
<1>1. ASSUME UNCHANGED receipt, Settled PROVE VersionInv' /\ ReportsKept
  BY <1>1, VersionUnwritten DEF Settled
<1>2. ASSUME NEW c \in Receipts, BeginDepart(r, c) \/ BeginStart(r, c) \/ BeginCancel(r, c)
      PROVE  VersionInv' /\ ReportsKept
  BY <1>1, <1>2, TripSettles DEF BeginDepart, BeginStart, BeginCancel
<1>3. ASSUME NEW s \in Shipments,
             DepartShipments(r, s) \/ ArriveShipments(r, s) \/ CancelShipments(r, s)
      PROVE  VersionInv' /\ ReportsKept
  BY <1>1, <1>3, TripSettles DEF DepartShipments, ArriveShipments, CancelShipments
<1>4. CASE CancelRelease(r)
  BY <1>1, <1>4, TripSettles DEF CancelRelease
<1>5. ASSUME NEW c \in Receipts, Exists(c), NEW doc \in ReceiptDoc,
             receipt' = [receipt EXCEPT ![c] = doc],
             doc.stops = receipt[c].stops, doc.v = receipt[c].v, Settled
      PROVE  VersionInv' /\ ReportsKept
  <2>1. doc.v \in Nat
    BY DEF ReceiptDoc
  <2>2. Fresh(receipt[c], doc)
    BY <1>5, <2>1 DEF Fresh
  <2>3. ByHand => Ordered(doc)
    BY <1>5 DEF VersionInv, Ordered
  <2> QED BY <1>5, <2>2, <2>3, VersionWritten DEF Settled
<1>6. CASE DepartSave(r) \/ CancelSave(r) \/ StartSave(r)
  <2>1. Settled /\ req[r].step \in ReceiptSteps
    BY <1>6, TripSettles DEF DepartSave, CancelSave, StartSave, ReceiptSteps
  <2>2. PICK c \in Receipts : c = req[r].c
    BY <2>1, Loaded DEF SlotFit
  <2>3. receipt[c] \in ReceiptDoc
    BY Loaded
  <2>4. CASE ~Exists(c)
    BY <1>1, <1>6, <2>1, <2>2, <2>4 DEF DepartSave, CancelSave, StartSave
  <2>5. ASSUME Exists(c), NEW status \in {"IN_TRANSIT", "CANCELLED"},
               receipt' = [receipt EXCEPT ![c].status = status]
        PROVE  VersionInv' /\ ReportsKept
    <3> DEFINE doc == [receipt[c] EXCEPT !.status = status]
    <3>1. receipt' = [receipt EXCEPT ![c] = doc]
      BY <2>5
    <3>2. doc.stops = receipt[c].stops /\ doc.v = receipt[c].v /\ doc \in ReceiptDoc
      BY <2>3 DEF ReceiptDoc
    <3> HIDE DEF doc
    <3> QED BY <1>5, <2>1, <2>5, <3>1, <3>2
  <2>6. CASE Exists(c) /\ StartSave(r)
    <3> DEFINE doc == [receipt[c] EXCEPT !.started = TRUE, !.segment = TRUE]
    <3>1. receipt' = [receipt EXCEPT ![c] = doc]
      BY <2>2, <2>6, Loaded DEF StartSave
    <3>2. doc.stops = receipt[c].stops /\ doc.v = receipt[c].v /\ doc \in ReceiptDoc
      BY <2>3 DEF ReceiptDoc
    <3> HIDE DEF doc
    <3> QED BY <1>5, <2>1, <2>6, <3>1, <3>2
  <2> QED BY <1>6, <2>2, <2>4, <2>5, <2>6 DEF DepartSave, CancelSave
<1> QED
  BY <1>2, <1>3, <1>4, <1>6, BeginVersion, ReleaseVersion, ArriveVersion, ConfirmVersion DEF Trip

LEMMA NextVersion ==
    ASSUME TypeInv, StopInv, VersionInv, [Next]_vars
    PROVE  VersionInv' /\ ReportsKept
<1>1. CASE UNCHANGED vars
  BY <1>1, VersionUnwritten DEF vars
<1>2. CASE Crash
  BY <1>2, VersionUnwritten DEF Crash, Idle, StopSteps
<1> QED BY <1>1, <1>2, MakeVersion, TripVersion DEF Next

LEMMA InitVersion == Init => VersionInv
<1>1. Ordered(NoReceipt)
  BY DEF Ordered, NoReceipt, NoStop
<1>2. LoadInv(Idle)
  BY DEF LoadInv, Idle, StopSteps
<1> QED BY <1>1, <1>2 DEF Init, VersionInv

LEMMA VersionInvHolds == Spec => []VersionInv
BY InitVersion, NextVersion, TypeInvHolds, StopInvHolds, PTL DEF Spec

\* No late arrival report and no second confirmation of a stop, by whoever and
\* however late, replaces a report of missing shipments; the version that such a
\* report increments refuses them: dispatch-receipt.service.ts:641 and :675.
THEOREM MissingReportFinal == Spec => MissingReportKept
<1>1. TypeInv /\ StopInv /\ VersionInv /\ [Next]_vars => [ReportsKept]_vars
  BY NextVersion
<1>2. Spec => [][ReportsKept]_vars
  BY <1>1, TypeInvHolds, StopInvHolds, VersionInvHolds, PTL DEF Spec
<1> QED BY <1>2 DEF MissingReportKept, ReportsKept

\* As long as arrivals are reported by hand, a truck is at a stop only when the
\* branches of all earlier stops have confirmed: dispatch-receipt.service.ts:594.
THEOREM NextStopAfterConfirmation ==
    ASSUME ByHand
    PROVE  Spec => []ConfirmedBeforeNext
<1>1. VersionInv => ConfirmedBeforeNext
  BY DEF VersionInv, Ordered, ConfirmedBeforeNext, Route, Before
<1> QED BY <1>1, VersionInvHolds, PTL

-----------------------------------------------------------------------------
(* PlannedOnce, while no receipt is made by hand or cancelled and the        *)
(* process does not die.  What the planners promise each other is that no    *)
(* claimed shipment is ever unlinked and that each receipt being claimed for *)
(* belongs to one planner, who knows whether a claim of his has failed.      *)

ByPlanners == Operations \cap {"create", "cancel"} = {} /\ MaxCrashes = 0

HandSteps == {"createCheck", "createInsert", "createLink", "createReserve",
              "cancelSave", "cancelShipments", "cancelRelease"}

TentativeSteps == {"planClaim", "planDelete"}

PlannerInv(slot) ==
    /\ slot.step \notin HandSteps
    /\ slot.step \in TentativeSteps => slot.c \in Receipts /\ Exists(slot.c)
    /\ slot.step = "planClaim" /\ ~slot.failed =>
           \A s \in Cargo(receipt[slot.c]) : s \notin slot.todo => shipment[s].receiptId = slot.c

OnePlanner ==
    \A r, s \in Requests :
        /\ req[r].step \in TentativeSteps /\ req[s].step \in TentativeSteps
        /\ req[r].c = req[s].c
        => r = s

PlanInv ==
    /\ PlannedOnce
    /\ \A r \in Requests : PlannerInv(req[r])
    /\ OnePlanner

\* What a step leaves of the receipts, the claims and the planners.
CargoKept ==
    \A c \in Receipts :
        (Exists(c)' <=> Exists(c)) /\ Cargo(receipt'[c]) = Cargo(receipt[c])

ClaimsKept ==
    \A s \in Shipments :
        shipment[s].receiptId # None => shipment'[s].receiptId = shipment[s].receiptId

PlannersKept ==
    \A s \in Requests :
        \/ req'[s] = req[s]
        \/ /\ req[s].step \notin TentativeSteps
           /\ req'[s].step \notin HandSteps \cup TentativeSteps

LEMMA CargoOfReceipt ==
    ASSUME TypeInv, NEW c \in Receipts
    PROVE  Cargo(receipt[c]) \subseteq Shipments
<1>1. receipt[c] \in ReceiptDoc
  BY DEF TypeInv, TypeOK
<1> QED BY <1>1, CargoType

LEMMA PlanningKept ==
    ASSUME TypeInv, PlanInv, CargoKept, ClaimsKept, PlannersKept
    PROVE  PlanInv'
<1>1. ASSUME NEW c \in Receipts, NEW s \in Shipments, shipment[s].receiptId = c
      PROVE  shipment'[s].receiptId = c
  BY <1>1, ReceiptAssumption DEF ClaimsKept
<1>2. PlannedOnce'
  <2> SUFFICES ASSUME NEW c \in Receipts, Exists(c)', ~Tentative(c)', NEW s \in Cargo(receipt'[c])
               PROVE  shipment'[s].receiptId = c
    BY DEF PlannedOnce, Cargo
  <2>1. ~Tentative(c)
    BY DEF Tentative, PlannersKept, TentativeSteps
  <2>2. Exists(c) /\ s \in Cargo(receipt[c])
    BY DEF CargoKept
  <2>3. s \in Shipments /\ shipment[s].receiptId = c
    BY <2>1, <2>2, CargoOfReceipt DEF PlanInv, PlannedOnce
  <2> QED BY <1>1, <2>3
<1>3. ASSUME NEW r \in Requests PROVE PlannerInv(req[r])'
  <2>1. CASE req'[r] # req[r]
    BY <2>1 DEF PlannersKept, PlannerInv, TentativeSteps
  <2>2. CASE req'[r] = req[r]
    <3>1. PICK slot : slot = req[r]
      OBVIOUS
    <3>2. PlannerInv(slot)
      BY <3>1 DEF PlanInv
    <3>3. slot.step \in TentativeSteps => Exists(slot.c)'
      BY <3>2 DEF PlannerInv, CargoKept
    <3>4. ASSUME slot.step = "planClaim", ~slot.failed, NEW s \in Cargo(receipt'[slot.c]),
                 s \notin slot.todo
          PROVE  shipment'[s].receiptId = slot.c
      <4>1. slot.c \in Receipts
        BY <3>2, <3>4 DEF PlannerInv, TentativeSteps
      <4>2. s \in Cargo(receipt[slot.c])
        BY <3>4, <4>1 DEF CargoKept
      <4>3. s \in Shipments /\ shipment[s].receiptId = slot.c
        BY <3>2, <3>4, <4>1, <4>2, CargoOfReceipt DEF PlannerInv
      <4> QED BY <1>1, <4>1, <4>3
    <3>5. PlannerInv(slot)'
      BY <3>2, <3>3, <3>4 DEF PlannerInv, Cargo
    <3> QED BY <2>2, <3>1, <3>5 DEF PlannerInv, Exists, Cargo
  <2> QED BY <2>1, <2>2
<1>4. OnePlanner'
  BY DEF PlanInv, OnePlanner, PlannersKept
<1> QED BY <1>2, <1>3, <1>4 DEF PlanInv

\* One slot changes, in a handler that is not claiming.
LEMMA OnePlannerKept ==
    ASSUME NEW r \in Requests, NEW step, req[r].step \notin TentativeSteps,
           step \notin HandSteps \cup TentativeSteps, req'[r].step = step,
           \A s \in Requests \ {r} : req'[s] = req[s]
    PROVE  PlannersKept
BY DEF PlannersKept

LEMMA FinishKeepsPlanners ==
    ASSUME TypeInv, NEW r \in Requests, Finish(r), req[r].step \notin TentativeSteps
    PROVE  PlannersKept
<1>1. Idle.step = "idle" /\ "idle" \notin HandSteps \cup TentativeSteps
  BY DEF Idle, HandSteps, TentativeSteps
<1>2. req'[r] = Idle /\ \A s \in Requests \ {r} : req'[s] = req[s]
  BY Loaded DEF Finish
<1> QED BY <1>1, <1>2 DEF PlannersKept

LEMMA SweepKeepsPlanners ==
    ASSUME TypeInv, NEW r \in Requests, NEW s, NEW next, Sweep(r, s, next),
           next \notin HandSteps \cup TentativeSteps, req[r].step \notin HandSteps \cup TentativeSteps
    PROVE  PlannersKept
<1>1. CASE Finish(r)
  BY <1>1, FinishKeepsPlanners
<1>2. CASE ~Finish(r)
  <2> DEFINE rest == req[r].todo \ {s}
             step == IF rest = {} THEN next ELSE req[r].step
  <2>1. req' = [req EXCEPT ![r].todo = rest, ![r].step = step]
    BY <1>2, Loaded DEF Sweep
  <2>2. step \notin HandSteps \cup TentativeSteps
    OBVIOUS
  <2> HIDE DEF rest, step
  <2>3. req'[r].step = step /\ \A q \in Requests \ {r} : req'[q] = req[q]
    BY <2>1, Loaded DEF RequestState
  <2> QED BY <2>2, <2>3, OnePlannerKept
<1> QED BY <1>1, <1>2

\* A new receipt and the planner who makes it.
LEMMA RoutePlanned ==
    ASSUME TypeInv, PlanInv, NEW r \in Requests, NEW c \in Receipts, NEW d \in Drivers,
           NEW order \in Orders, PlanRoute(r, c, d, order)
    PROVE  PlanInv'
<1> DEFINE cargo == {s \in req[r].load : order[Destination[s]] > 0}
           load == req[r].load \ cargo
           fleet == req[r].fleet \ {d}
           doc == NewReceipt(d, TRUE, StopsFor(order, cargo))
<1>1. /\ receipt[c].status = "ABSENT" /\ req[r].step = "planRoute" /\ UNCHANGED shipment
      /\ receipt' = [receipt EXCEPT ![c] = doc]
      /\ req' = [req EXCEPT ![r].step = "planClaim", ![r].c = c, ![r].d = d,
                            ![r].load = load, ![r].fleet = fleet, ![r].todo = cargo]
  BY DEF PlanRoute
<1> HIDE DEF cargo, load, fleet
<1>2. doc.status = "CREATED" /\ Cargo(doc) \subseteq cargo
  <2> DEFINE stops == StopsFor(order, cargo)
  <2>1. \A b \in Branches : stops[b].shipmentIds \subseteq cargo
    BY DEF StopsFor, NoStop
  <2> HIDE DEF stops
  <2>2. doc.stops = stops /\ doc.status = "CREATED"
    BY DEF NewReceipt, NoReceipt, stops
  <2> HIDE DEF doc
  <2> QED BY <2>1, <2>2 DEF Cargo
<1> HIDE DEF doc
<1>3. /\ req'[r].step = "planClaim" /\ req'[r].c = c /\ req'[r].todo = cargo
      /\ \A s \in Requests \ {r} : req'[s] = req[s]
  BY <1>1, Loaded DEF RequestState
<1>4. \A e \in Receipts : receipt'[e] = IF e = c THEN doc ELSE receipt[e]
  BY <1>1 DEF TypeInv, TypeOK
<1>5. PlannedOnce'
  <2> SUFFICES ASSUME NEW e \in Receipts, Exists(e)', ~Tentative(e)', NEW s \in Cargo(receipt'[e])
               PROVE  shipment'[s].receiptId = e
    BY DEF PlannedOnce, Cargo
  <2>1. e # c
    BY <1>3 DEF Tentative
  <2>2. Exists(e) /\ ~Tentative(e)
    BY <1>1, <1>3, <1>4, <2>1 DEF Tentative, Exists
  <2> QED BY <1>1, <1>4, <2>1, <2>2 DEF PlanInv, PlannedOnce
<1>6. ASSUME NEW q \in Requests PROVE PlannerInv(req[q])'
  <2>1. CASE q = r
    <3>1. "planClaim" \notin HandSteps
      BY DEF HandSteps
    <3>2. Exists(c)' /\ Cargo(receipt'[c]) \subseteq cargo
      BY <1>2, <1>4 DEF Exists
    <3> QED BY <1>3, <2>1, <3>1, <3>2 DEF PlannerInv, Exists, Cargo
  <2>2. CASE q # r
    <3>1. PICK slot : slot = req[q]
      OBVIOUS
    <3>2. PlannerInv(slot)
      BY <3>1 DEF PlanInv
    <3>3. slot.step \in TentativeSteps => slot.c # c /\ receipt'[slot.c] = receipt[slot.c]
      BY <1>1, <1>4, <3>2 DEF PlannerInv, Exists
    <3>4. PlannerInv(slot)'
      BY <1>1, <3>2, <3>3 DEF PlannerInv, Exists, Cargo, TentativeSteps
    <3>5. req'[q] = slot
      BY <1>3, <2>2, <3>1
    <3> QED BY <3>4, <3>5 DEF PlannerInv, Exists, Cargo
  <2> QED BY <2>1, <2>2
<1>7. OnePlanner'
  <2>1. ASSUME NEW q \in Requests \ {r}, req[q].step \in TentativeSteps PROVE req[q].c # c
    BY <1>1, <2>1 DEF PlanInv, PlannerInv, Exists
  <2>2. \A q \in Requests : q # r => req'[q] = req[q]
    BY <1>3
  <2>3. req'[r].c = c
    BY <1>3
  <2> QED BY <2>1, <2>2, <2>3 DEF PlanInv, OnePlanner
<1> QED BY <1>5, <1>6, <1>7 DEF PlanInv

\* A claim, of a shipment that is free or not.
LEMMA ShipmentClaimed ==
    ASSUME TypeInv, PlanInv, NEW r \in Requests, NEW s \in Shipments, PlanClaim(r, s)
    PROVE  PlanInv'
<1> DEFINE todo == req[r].todo \ {s}
           failed == req[r].failed \/ ~Claimable(s)
           step == IF req[r].todo # {s} THEN "planClaim"
                   ELSE IF failed THEN "planDelete" ELSE "planReserve"
<1>1. /\ req[r].step = "planClaim" /\ UNCHANGED receipt
      /\ req' = [req EXCEPT ![r].todo = todo, ![r].failed = failed, ![r].step = step]
  BY Loaded DEF PlanClaim
<1>2. PICK c \in Receipts : c = req[r].c
  BY <1>1 DEF PlanInv, PlannerInv, TentativeSteps
<1>3. Exists(c) /\ PlannerInv(req[r])
  BY <1>1, <1>2 DEF PlanInv, PlannerInv, TentativeSteps
<1>4. /\ \A q \in Shipments : q # s => shipment'[q].receiptId = shipment[q].receiptId
      /\ Claimable(s) => shipment[s].receiptId = None /\ shipment'[s].receiptId = c
      /\ ~Claimable(s) => shipment' = shipment
  BY <1>2, Loaded DEF PlanClaim, Claimable, Unassigned, AssignedTo
<1>5. \A q \in Shipments, e \in Receipts :
          shipment[q].receiptId = e => shipment'[q].receiptId = e
  BY <1>4, ReceiptAssumption
<1>6. /\ todo = req[r].todo \ {s} /\ (step = "planClaim" \/ step = "planDelete" \/ step = "planReserve")
      /\ step = "planReserve" => ~failed /\ todo = {}
      /\ step = "planClaim" /\ ~failed => Claimable(s) /\ ~req[r].failed
      /\ ~failed => Claimable(s) /\ ~req[r].failed
  OBVIOUS
<1> HIDE DEF todo, failed, step
<1>7. /\ req'[r].step = step /\ req'[r].c = c /\ req'[r].todo = todo /\ req'[r].failed = failed
      /\ \A q \in Requests \ {r} : req'[q] = req[q]
  BY <1>1, <1>2, Loaded DEF RequestState
<1>8. ASSUME ~failed, NEW q \in Cargo(receipt[c]), q \notin todo
      PROVE  shipment'[q].receiptId = c
  <2>1. CASE q = s
    BY <1>4, <1>6, <1>8, <2>1
  <2>2. CASE q # s
    <3>1. q \in Shipments /\ q \notin req[r].todo
      BY <1>6, <1>8, <2>2, CargoOfReceipt
    <3>2. shipment[q].receiptId = c
      BY <1>1, <1>2, <1>3, <1>6, <1>8, <3>1 DEF PlannerInv
    <3> QED BY <1>5, <3>1, <3>2
  <2> QED BY <2>1, <2>2
<1>9. PlannedOnce'
  <2> SUFFICES ASSUME NEW e \in Receipts, Exists(e)', ~Tentative(e)', NEW q \in Cargo(receipt'[e])
               PROVE  shipment'[q].receiptId = e
    BY DEF PlannedOnce, Cargo
  <2>1. Exists(e) /\ q \in Cargo(receipt[e])
    BY <1>1 DEF Exists
  <2>2. CASE e # c
    <3>1. ~Tentative(e)
      BY <1>2, <1>7, <2>2 DEF Tentative
    <3>2. q \in Shipments /\ shipment[q].receiptId = e
      BY <2>1, <3>1, CargoOfReceipt DEF PlanInv, PlannedOnce
    <3> QED BY <1>5, <3>2
  <2>3. CASE e = c
    <3>1. step \notin TentativeSteps
      BY <1>7, <2>3 DEF Tentative, TentativeSteps
    <3>2. ~failed /\ todo = {}
      BY <1>6, <3>1 DEF TentativeSteps
    <3> QED BY <1>8, <2>1, <2>3, <3>2
  <2> QED BY <2>2, <2>3
<1>10. ASSUME NEW q \in Requests PROVE PlannerInv(req[q])'
  <2>1. CASE q = r
    <3>1. step \notin HandSteps
      BY <1>6 DEF HandSteps
    <3>2. Exists(c)'
      BY <1>1, <1>3 DEF Exists
    <3>3. ~failed => \A e \in Cargo(receipt'[c]) : e \notin todo => shipment'[e].receiptId = c
      BY <1>1, <1>8
    <3> QED BY <1>7, <2>1, <3>1, <3>2, <3>3 DEF PlannerInv, Exists, Cargo
  <2>2. CASE q # r
    <3>1. PICK slot : slot = req[q]
      OBVIOUS
    <3>2. PlannerInv(slot)
      BY <3>1 DEF PlanInv
    <3>3. ASSUME slot.step = "planClaim", ~slot.failed, NEW e \in Cargo(receipt[slot.c]),
                 e \notin slot.todo
          PROVE  shipment'[e].receiptId = slot.c
      <4>1. slot.c \in Receipts
        BY <3>2, <3>3 DEF PlannerInv, TentativeSteps
      <4>2. e \in Shipments /\ shipment[e].receiptId = slot.c
        BY <3>2, <3>3, <4>1, CargoOfReceipt DEF PlannerInv
      <4> QED BY <1>5, <4>1, <4>2
    <3>4. PlannerInv(slot)'
      BY <1>1, <3>2, <3>3 DEF PlannerInv, Exists, Cargo
    <3>5. req'[q] = slot
      BY <1>7, <2>2, <3>1
    <3> QED BY <3>4, <3>5 DEF PlannerInv, Exists, Cargo
  <2> QED BY <2>1, <2>2
<1>11. OnePlanner'
  <2>1. \A q \in Requests : req'[q].c = req[q].c
    BY <1>2, <1>7
  <2>2. \A q \in Requests : req'[q].step \in TentativeSteps => req[q].step \in TentativeSteps
    BY <1>1, <1>7 DEF TentativeSteps
  <2> QED BY <2>1, <2>2 DEF PlanInv, OnePlanner
<1> QED BY <1>9, <1>10, <1>11 DEF PlanInv

\* The receipt a planner gives up belongs to no other planner.
LEMMA ReceiptDropped ==
    ASSUME TypeInv, PlanInv, NEW r \in Requests, PlanDelete(r)
    PROVE  PlanInv'
<1>1. /\ req[r].step = "planDelete" /\ UNCHANGED shipment /\ Finish(r)
      /\ receipt' = [receipt EXCEPT ![req[r].c] = [NoReceipt EXCEPT !.status = "DELETED"]]
  BY DEF PlanDelete
<1>2. PICK c \in Receipts : c = req[r].c
  BY <1>1 DEF PlanInv, PlannerInv, TentativeSteps
<1>3. /\ receipt'[c].status = "DELETED"
      /\ \A e \in Receipts : e # c => receipt'[e] = receipt[e]
  BY <1>1, <1>2, Loaded DEF NoReceipt
<1>4. /\ req'[r] = Idle /\ Idle.step \notin HandSteps \cup TentativeSteps
      /\ \A q \in Requests \ {r} : req'[q] = req[q]
  BY <1>1, Loaded DEF Finish, Idle, HandSteps, TentativeSteps
<1>5. PlannedOnce'
  <2> SUFFICES ASSUME NEW e \in Receipts, Exists(e)', ~Tentative(e)', NEW q \in Cargo(receipt'[e])
               PROVE  shipment'[q].receiptId = e
    BY DEF PlannedOnce, Cargo
  <2>1. e # c /\ Exists(e)
    BY <1>3 DEF Exists
  <2>2. ~Tentative(e)
    BY <1>2, <1>4, <2>1 DEF Tentative
  <2> QED BY <1>1, <1>3, <2>1, <2>2 DEF PlanInv, PlannedOnce
<1>6. ASSUME NEW q \in Requests PROVE PlannerInv(req[q])'
  <2>1. CASE q = r
    BY <1>4, <2>1 DEF PlannerInv, TentativeSteps
  <2>2. CASE q # r
    <3>1. PICK slot : slot = req[q]
      OBVIOUS
    <3>2. PlannerInv(slot)
      BY <3>1 DEF PlanInv
    <3>3. slot.step \in TentativeSteps => slot.c # c
      BY <1>1, <1>2, <2>2, <3>1 DEF PlanInv, OnePlanner, TentativeSteps
    <3>4. slot.step \in TentativeSteps => receipt'[slot.c] = receipt[slot.c]
      BY <1>3, <3>2, <3>3 DEF PlannerInv
    <3>5. PlannerInv(slot)'
      BY <1>1, <3>2, <3>4 DEF PlannerInv, Exists, Cargo, TentativeSteps
    <3>6. req'[q] = slot
      BY <1>4, <2>2, <3>1
    <3> QED BY <3>5, <3>6 DEF PlannerInv, Exists, Cargo
  <2> QED BY <2>1, <2>2
<1>7. OnePlanner'
  BY <1>4 DEF PlanInv, OnePlanner
<1> QED BY <1>5, <1>6, <1>7 DEF PlanInv

\* The saves of the trip change neither the shipments of a stop nor whether the
\* receipt exists.
LEMMA ReceiptKept ==
    ASSUME TypeInv, NEW c \in Receipts, NEW doc, receipt' = [receipt EXCEPT ![c] = doc],
           Exists(c), doc.status \notin {"ABSENT", "DELETED"},
           \A b \in Branches : doc.stops[b].shipmentIds = receipt[c].stops[b].shipmentIds
    PROVE  CargoKept
<1>1. \A e \in Receipts : receipt'[e] = IF e = c THEN doc ELSE receipt[e]
  BY DEF TypeInv, TypeOK
<1>2. Cargo(doc) = Cargo(receipt[c])
  BY DEF Cargo
<1>3. ASSUME NEW e \in Receipts
      PROVE  (Exists(e)' <=> Exists(e)) /\ Cargo(receipt'[e]) = Cargo(receipt[e])
  <2>1. CASE e = c
    BY <1>1, <1>2, <2>1 DEF Exists
  <2>2. CASE e # c
    BY <1>1, <2>2 DEF Exists
  <2> QED BY <2>1, <2>2
<1> QED BY <1>3 DEF CargoKept

LEMMA TripKeepsCargo ==
    ASSUME TypeInv, NEW r \in Requests,
           DepartSave(r) \/ StartSave(r) \/ ArriveSave(r) \/ ConfirmSave(r)
    PROVE  CargoKept
<1>0. PICK c \in Receipts : c = req[r].c
  <2>1. SlotFit(req[r]) /\ req[r].step \in ReceiptSteps
    BY Loaded DEF DepartSave, StartSave, ArriveSave, ConfirmSave, ReceiptSteps
  <2> QED BY <2>1 DEF SlotFit
<1> DEFINE old == receipt[c].stops
<1>1. receipt[c] \in ReceiptDoc /\ old \in [Branches -> StopDoc]
  BY Loaded DEF ReceiptDoc
<1>2. UNCHANGED receipt => CargoKept
  BY DEF CargoKept, Exists
<1>3. CASE DepartSave(r)
  <2>1. CASE Exists(c)
    <3> DEFINE doc == [receipt[c] EXCEPT !.status = "IN_TRANSIT"]
    <3>1. receipt' = [receipt EXCEPT ![c] = doc]
      BY <1>0, <1>3, <2>1, Loaded DEF DepartSave
    <3>2. doc.status = "IN_TRANSIT" /\ doc.stops = old
      BY <1>1 DEF ReceiptDoc
    <3> HIDE DEF doc
    <3> QED BY <2>1, <3>1, <3>2, ReceiptKept
  <2> QED BY <1>0, <1>2, <1>3, <2>1 DEF DepartSave
<1>4. CASE StartSave(r)
  <2>1. CASE Exists(c)
    <3> DEFINE doc == [receipt[c] EXCEPT !.started = TRUE, !.segment = TRUE]
    <3>1. receipt' = [receipt EXCEPT ![c] = doc]
      BY <1>0, <1>4, <2>1, Loaded DEF StartSave
    <3>2. doc.status = receipt[c].status /\ doc.stops = old
      BY <1>1 DEF ReceiptDoc
    <3> HIDE DEF doc
    <3> QED BY <2>1, <3>1, <3>2, ReceiptKept DEF Exists
  <2> QED BY <1>0, <1>2, <1>4, <2>1 DEF StartSave
<1>5. CASE ArriveSave(r)
  <2>1. CASE SameVersion(r)
    <3>1. PICK b \in Branches : b = req[r].b
      BY <1>5, Loaded DEF ArriveSave, SlotFit, StopSteps
    <3> DEFINE doc == Arrived(c, b, req[r].seen)
    <3>2. receipt' = [receipt EXCEPT ![c] = doc] /\ Exists(c)
      BY <1>0, <1>5, <2>1, <3>1, Loaded DEF ArriveSave, Arrived, SameVersion
    <3>3. /\ doc.status = receipt[c].status
          /\ doc.stops = [old EXCEPT ![b] = [@ EXCEPT !.status = "ARRIVED"]]
      BY ArrivedFields
    <3> HIDE DEF doc, old
    <3>4. \A e \in Branches : doc.stops[e].shipmentIds = old[e].shipmentIds
      BY <1>1, <3>3 DEF StopDoc
    <3>5. \A e \in Branches : doc.stops[e].shipmentIds = receipt[c].stops[e].shipmentIds
      BY <3>4 DEF old
    <3>6. doc.status \notin {"ABSENT", "DELETED"}
      BY <3>2, <3>3 DEF Exists
    <3> QED BY <3>2, <3>5, <3>6, ReceiptKept
  <2> QED BY <1>2, <1>5, <2>1 DEF ArriveSave
<1>6. CASE ConfirmSave(r)
  <2>1. CASE SameVersion(r)
    <3>1. PICK b \in Branches : b = req[r].b
      BY <1>6, Loaded DEF ConfirmSave, SlotFit, StopSteps
    <3> DEFINE doc == Confirmed(receipt[c], r)
    <3>2. receipt' = [receipt EXCEPT ![c] = doc] /\ Exists(c)
      BY <1>0, <1>6, <2>1 DEF ConfirmSave, SameVersion
    <3>3. /\ doc.status \in {receipt[c].status, "COMPLETED"}
          /\ doc.stops = [old EXCEPT ![b] = [@ EXCEPT !.status = req[r].result,
                                                      !.confirmed = TRUE]]
      BY <1>1, <3>1, ConfirmedFields
    <3> HIDE DEF doc, old
    <3>4. \A e \in Branches : doc.stops[e].shipmentIds = old[e].shipmentIds
      BY <1>1, <3>3 DEF StopDoc
    <3>5. \A e \in Branches : doc.stops[e].shipmentIds = receipt[c].stops[e].shipmentIds
      BY <3>4 DEF old
    <3>6. doc.status \notin {"ABSENT", "DELETED"}
      BY <3>2, <3>3 DEF Exists
    <3> QED BY <3>2, <3>5, <3>6, ReceiptKept
  <2> QED BY <1>2, <1>6, <2>1 DEF ConfirmSave
<1> QED BY <1>3, <1>4, <1>5, <1>6

LEMMA MakePlan ==
    ASSUME ByPlanners, TypeInv, PlanInv, NEW r \in Requests, Make(r)
    PROVE  PlanInv'
<1>0. req \in [Requests -> RequestState] /\ req[r] \in RequestState
  BY Loaded
<1>1. ASSUME UNCHANGED <<receipt, shipment>>, PlannersKept PROVE PlanInv'
  BY <1>1, PlanningKept DEF CargoKept, ClaimsKept, Exists
<1>2. ASSUME NEW load, BeginPlan(r, load) PROVE PlanInv'
  <2>1. /\ req'[r].step = "planFleet" /\ \A s \in Requests \ {r} : req'[s] = req[s]
        /\ req[r].step = "idle"
    BY <1>0, <1>2 DEF BeginPlan, Start, Idle
  <2>2. PlannersKept
    BY <2>1, OnePlannerKept DEF HandSteps, TentativeSteps
  <2> QED BY <1>1, <1>2, <2>2 DEF BeginPlan
<1>3. CASE PlanFleet(r)
  <2> DEFINE fleet == {d \in Drivers : driver[d] = "AVAILABLE"}
  <2>1. req[r].step \notin TentativeSteps
    BY <1>3 DEF PlanFleet, TentativeSteps
  <2>2. CASE Finish(r)
    BY <1>1, <1>3, <2>1, <2>2, FinishKeepsPlanners DEF PlanFleet
  <2>3. CASE req' = [req EXCEPT ![r].step = "planRoute", ![r].fleet = fleet]
    <3> HIDE DEF fleet
    <3>1. req'[r].step = "planRoute" /\ \A s \in Requests \ {r} : req'[s] = req[s]
      BY <1>0, <2>3 DEF RequestState
    <3>2. PlannersKept
      BY <2>1, <3>1, OnePlannerKept DEF HandSteps, TentativeSteps
    <3> QED BY <1>1, <1>3, <3>2 DEF PlanFleet
  <2> QED BY <1>3, <2>2, <2>3 DEF PlanFleet
<1>4. CASE PlanEnd(r)
  <2>1. req[r].step \notin TentativeSteps
    BY <1>4 DEF PlanEnd, TentativeSteps
  <2> QED BY <1>1, <1>4, <2>1, FinishKeepsPlanners DEF PlanEnd
<1>5. CASE PlanReserve(r)
  <2>1. /\ req'[r].step = "planRoute" /\ \A s \in Requests \ {r} : req'[s] = req[s]
        /\ req[r].step = "planReserve"
    BY <1>0, <1>5 DEF PlanReserve, RequestState
  <2>2. PlannersKept
    BY <2>1, OnePlannerKept DEF HandSteps, TentativeSteps
  <2> QED BY <1>1, <1>5, <2>2 DEF PlanReserve
<1>6. /\ \A d \in Drivers : ~BeginCreate(r, d)
      /\ \A load \in SUBSET Shipments : ~CreateCheck(r, load)
      /\ \A c \in Receipts, order \in Orders : ~CreateInsert(r, c, order)
      /\ \A s \in Shipments : ~CreateLink(r, s)
      /\ ~CreateReserve(r)
  <2>1. "create" \notin Operations /\ req[r].step \notin HandSteps
    BY DEF ByPlanners, PlanInv, PlannerInv
  <2> QED BY <2>1 DEF BeginCreate, CreateCheck, CreateInsert, CreateLink, CreateReserve, HandSteps
<1> QED
  BY <1>2, <1>3, <1>4, <1>5, <1>6, RoutePlanned, ShipmentClaimed, ReceiptDropped DEF Make

LEMMA TripPlan ==
    ASSUME ByPlanners, TypeInv, PlanInv, NEW r \in Requests, Trip(r)
    PROVE  PlanInv'
<1>0. /\ req \in [Requests -> RequestState] /\ req[r] \in RequestState
      /\ shipment \in [Shipments -> ShipmentDoc]
  BY Loaded
<1>1. ASSUME UNCHANGED <<receipt, shipment>>, PlannersKept PROVE PlanInv'
  BY <1>1, PlanningKept DEF CargoKept, ClaimsKept, Exists
<1>2. ASSUME NEW slot, Start(r, slot), slot.step \notin HandSteps \cup TentativeSteps
      PROVE  PlannersKept
  <2>1. req'[r].step = slot.step /\ \A s \in Requests \ {r} : req'[s] = req[s]
    BY <1>0, <1>2 DEF Start
  <2>2. req[r].step \notin TentativeSteps
    BY <1>2 DEF Start, TentativeSteps
  <2> QED BY <1>2, <2>1, <2>2, OnePlannerKept
<1>3. ASSUME NEW c \in Receipts, BeginDepart(r, c) \/ BeginStart(r, c)
      PROVE  PlanInv'
  <2>1. ASSUME NEW step, step \in {"departSave", "startSave"},
               Start(r, [Idle EXCEPT !.step = step, !.c = c, !.seen = receipt[c]])
        PROVE  PlannersKept
    BY <1>2, <2>1 DEF Idle, HandSteps, TentativeSteps
  <2> QED BY <1>1, <1>3, <2>1 DEF BeginDepart, BeginStart
<1>4. ASSUME NEW c \in Receipts, NEW b \in Branches,
             \/ BeginArrive(r, c, b) \/ BeginSync(r, c, b)
             \/ \E result \in {"CONFIRMED", "PARTIAL"}, listed \in BOOLEAN :
                    BeginConfirm(r, c, b, result, listed)
      PROVE  PlanInv'
  <2>1. CASE BeginArrive(r, c, b) \/ BeginSync(r, c, b)
    <3>1. Start(r, [Idle EXCEPT !.step = "arriveSave", !.c = c, !.b = b, !.seen = receipt[c]])
      BY <2>1 DEF BeginArrive, BeginSync
    <3>2. PlannersKept
      BY <1>2, <3>1 DEF Idle, HandSteps, TentativeSteps
    <3> QED BY <1>1, <2>1, <3>2 DEF BeginArrive, BeginSync
  <2>2. ASSUME NEW result, NEW listed, BeginConfirm(r, c, b, result, listed) PROVE PlanInv'
    <3> DEFINE step == IF AllStopsDone(receipt[c], b) THEN "confirmRelease" ELSE "confirmSave"
    <3>1. Start(r, [Idle EXCEPT !.step = step, !.c = c, !.b = b, !.result = result,
                                !.listed = listed, !.seen = receipt[c]])
      BY <2>2 DEF BeginConfirm
    <3>2. step \notin HandSteps \cup TentativeSteps
      BY DEF HandSteps, TentativeSteps
    <3> HIDE DEF step
    <3>3. PlannersKept
      BY <1>2, <3>1, <3>2 DEF Idle
    <3> QED BY <1>1, <2>2, <3>3 DEF BeginConfirm
  <2> QED BY <1>4, <2>1, <2>2
<1>5. ASSUME NEW s \in Shipments, DepartShipments(r, s) \/ ArriveShipments(r, s)
      PROVE  PlanInv'
  <2>1. PlannersKept
    <3>1. /\ Sweep(r, s, "idle") /\ "idle" \notin HandSteps \cup TentativeSteps
          /\ req[r].step \notin HandSteps \cup TentativeSteps
      BY <1>5 DEF DepartShipments, ArriveShipments, HandSteps, TentativeSteps
    <3> QED BY <3>1, SweepKeepsPlanners
  <2>2. UNCHANGED receipt /\ \A q \in Shipments : shipment'[q].receiptId = shipment[q].receiptId
    BY <1>0, <1>5 DEF DepartShipments, ArriveShipments, ShipmentDoc
  <2> QED BY <2>1, <2>2, PlanningKept DEF CargoKept, ClaimsKept, Exists
<1>6. CASE DepartSave(r) \/ StartSave(r) \/ ArriveSave(r) \/ ConfirmSave(r)
  <2>1. CargoKept /\ ClaimsKept
    BY <1>6, TripKeepsCargo DEF ClaimsKept, DepartSave, StartSave, ArriveSave, ConfirmSave
  <2>2. req[r].step \notin TentativeSteps
    BY <1>6 DEF DepartSave, StartSave, ArriveSave, ConfirmSave, TentativeSteps
  <2>3. CASE Finish(r)
    BY <2>1, <2>2, <2>3, FinishKeepsPlanners, PlanningKept
  <2>4. ASSUME NEW step \in {"departShipments", "arriveShipments"}, NEW todo,
               req' = [req EXCEPT ![r].step = step, ![r].todo = todo]
        PROVE  PlanInv'
    <3>1. req'[r].step = step /\ \A s \in Requests \ {r} : req'[s] = req[s]
      BY <1>0, <2>4 DEF RequestState
    <3>2. PlannersKept
      BY <2>2, <2>4, <3>1, OnePlannerKept DEF HandSteps, TentativeSteps
    <3> QED BY <2>1, <3>2, PlanningKept
  <2> QED BY <1>6, <2>3, <2>4 DEF DepartSave, StartSave, ArriveSave, ConfirmSave
<1>7. CASE ConfirmRelease(r)
  <2>1. /\ req'[r].step = "confirmSave" /\ \A s \in Requests \ {r} : req'[s] = req[s]
        /\ req[r].step = "confirmRelease"
    BY <1>0, <1>7 DEF ConfirmRelease, Goto, RequestState
  <2>2. PlannersKept
    BY <2>1, OnePlannerKept DEF HandSteps, TentativeSteps
  <2> QED BY <1>1, <1>7, <2>2 DEF ConfirmRelease
<1>8. /\ \A c \in Receipts : ~BeginCancel(r, c)
      /\ \A s \in Shipments : ~CancelShipments(r, s)
      /\ ~CancelSave(r) /\ ~CancelRelease(r)
  <2>1. "cancel" \notin Operations /\ req[r].step \notin HandSteps
    BY DEF ByPlanners, PlanInv, PlannerInv
  <2> QED BY <2>1 DEF BeginCancel, CancelShipments, CancelSave, CancelRelease, HandSteps
<1> QED BY <1>3, <1>4, <1>5, <1>6, <1>7, <1>8 DEF Trip

LEMMA NextPlan ==
    ASSUME ByPlanners, TypeInv, PlanInv, [Next]_vars
    PROVE  PlanInv'
<1>1. CASE UNCHANGED vars
  BY <1>1, PlanningKept DEF vars, CargoKept, ClaimsKept, PlannersKept, Exists
<1>2. ~Crash
  BY ReceiptAssumption DEF ByPlanners, Crash, TypeInv, TypeOK
<1> QED BY <1>1, <1>2, MakePlan, TripPlan DEF Next

LEMMA InitPlan == Init => PlanInv
<1> SUFFICES ASSUME Init PROVE PlanInv
  OBVIOUS
<1>1. \A c \in Receipts : ~Exists(c)
  BY DEF Init, Exists, NoReceipt
<1>2. \A r \in Requests : req[r].step = "idle"
  BY DEF Init, Idle
<1> QED BY <1>1, <1>2 DEF PlanInv, PlannedOnce, PlannerInv, OnePlanner, HandSteps, TentativeSteps

\* Planners of any number that run at once over any shipments, each claiming
\* one shipment after the other, never put one on two receipts they keep, and
\* a receipt that is kept has every shipment it lists, as long as receipts are
\* neither made by hand nor cancelled and the process does not die in between:
\* dispatch-receipt-planner.service.ts:268.
THEOREM ShipmentsPlannedOnce ==
    ASSUME ByPlanners
    PROVE  Spec => []PlannedOnce
<1>1. PlanInv => PlannedOnce
  BY DEF PlanInv
<1> QED BY <1>1, InitPlan, NextPlan, TypeInvHolds, PTL DEF Spec

=============================================================================
