--------------------------- MODULE DriverFleetProofs ---------------------------
(***************************************************************************)
(* What DriverFleet keeps for any number of people, trucks, applications    *)
(* and handlers, however these overlap and wherever they crash.             *)
(***************************************************************************)
EXTENDS DriverFleet, FiniteSetTheorems, TLAPS

-----------------------------------------------------------------------------
(* The type invariant, with what the slot of a handler holds at each step     *)

Stages(op) ==
    CASE op = "none" -> {"idle"}
      [] op = "add" -> {"truckInsert"}
      [] op \in {"update", "retire", "activate"} -> {"vehicleCheck", "vehicleSave"}
      [] op = "assign" -> {"assignVehicle", "assignCode", "findCurrent", "freePrevious", "endDrivers",
                           "endTrucks", "driverSave", "inUseSave", "assignInsert"}
      [] op \in {"unassign", "deactivate"} ->
            {"findCurrent", "endNext", "freeNext", "retireOwn", "releaseSave"}
      [] op = "code" -> {"codeSave"}
      [] op = "apply" -> {"applyCheck", "applyInsert"}
      [] op = "approve" -> {"reviewUser", "upgradeSave", "accountInsert", "ownInsert", "ownAssign",
                            "truckFind", "truckAssign", "truckSave", "approveSave"}
      [] OTHER -> {"rejectSave"}

\* Whom, what and which application a call is about, by the kind of call.
SlotFit(q) ==
    /\ q.step \in Stages(q.op)
    /\ q.op \in {"add", "update", "retire", "activate", "assign"} => q.v \in Trucks
    /\ q.op \in {"code", "approve"} => q.v \in Trucks \cup {None}
    /\ q.op \in {"unassign", "deactivate"} => q.v = None
    /\ q.op \in {"assign", "unassign", "deactivate", "code", "apply", "approve", "reject"} =>
        q.p \in People
    /\ q.op \in {"apply", "approve", "reject"} =>
        q.a \in Applications /\ q.form.person = q.p /\ q.form.status = "PENDING" /\ q.form.approved = FALSE
    /\ q.step = "upgradeSave" => q.user.role # "DRIVER"
    /\ q.step \in {"ownInsert", "ownAssign"} => q.form.own # "NONE"
    /\ q.step \in {"truckFind", "truckAssign", "truckSave"} => q.v # None /\ q.form.own = "NONE"

\* An application has a person, and no account before it is approved.
DocFit(doc) ==
    /\ doc.status # "ABSENT" => doc.person \in People
    /\ doc.status = "PENDING" => doc.approved = FALSE

\* The handlers that have an assignment yet to make.
OwesOne(q) == q.op \in {"assign", "approve"} /\ q.step \notin {"truckSave", "approveSave"}
Owing == {r \in Requests : OwesOne(req[r])}

TypeInv ==
    /\ TypeOK
    /\ Len(assignment) + Cardinality(Owing) <= MaxAssignments
    /\ \A r \in Requests : SlotFit(req[r])
    /\ \A a \in Applications : DocFit(application[a])
    /\ \A t \in entered : vehicle[t].status = "IN_USE"

\* A handler remembers what it was called for.
SameCall(q, slot) ==
    /\ slot.op = q.op /\ slot.p = q.p /\ slot.v = q.v /\ slot.a = q.a
    /\ slot.primary = q.primary /\ slot.form = q.form

LEMMA NoneIs ==
    /\ None \notin People /\ None \notin Trucks /\ None \notin Applications
    /\ \A p \in People : p \notin Trucks
    /\ MaxAssignments \in Nat /\ IsFiniteSet(Requests)
BY FleetAssumption

LEMMA IdleIs ==
    /\ Idle \in RequestState /\ SlotFit(Idle) /\ ~OwesOne(Idle)
    /\ Idle.step = "idle" /\ Idle.op = "none"
<1>1. Account("ABSENT") \in UserDoc /\ NoVehicle \in VehicleDoc /\ NoApplication \in ApplicationDoc
  BY DEF Account, UserDoc, NoVehicle, VehicleDoc, NoApplication, ApplicationDoc
<1>2. 0 \in 0..MaxAssignments /\ {} \in SUBSET (1..MaxAssignments)
  BY NoneIs
<1>3. [v \in Vehicles |-> NoVehicle] \in [Vehicles -> VehicleDoc]
  BY <1>1
<1>4. Idle \in RequestState
  BY <1>1, <1>2, <1>3 DEF Idle, RequestState, Steps
<1>5. Idle.step = "idle" /\ Idle.op = "none"
  BY DEF Idle
<1>6. SlotFit(Idle) /\ ~OwesOne(Idle)
  <2>1. Stages("none") = {"idle"}
    BY DEF Stages
  <2> QED BY <1>5, <2>1 DEF SlotFit, OwesOne
<1> QED BY <1>4, <1>5, <1>6

\* A save leaves a document of its kind.
LEMMA SavedType ==
    /\ \A doc, new \in VehicleDoc : \A seen : Saved(doc, seen, new) \in VehicleDoc
    /\ \A doc, new \in UserDoc : \A seen : Saved(doc, seen, new) \in UserDoc
    /\ \A doc, new \in ApplicationDoc : \A seen : Saved(doc, seen, new) \in ApplicationDoc
<1>1. ASSUME NEW doc \in VehicleDoc, NEW new \in VehicleDoc, NEW seen
      PROVE  Saved(doc, seen, new) \in VehicleDoc
  BY DEF Saved, Written, VehicleDoc
<1>2. ASSUME NEW doc \in UserDoc, NEW new \in UserDoc, NEW seen
      PROVE  Saved(doc, seen, new) \in UserDoc
  BY DEF Saved, Written, UserDoc
<1>3. ASSUME NEW doc \in ApplicationDoc, NEW new \in ApplicationDoc, NEW seen
      PROVE  Saved(doc, seen, new) \in ApplicationDoc
  BY DEF Saved, Written, ApplicationDoc
<1> QED BY <1>1, <1>2, <1>3

LEMMA SavedFields ==
    /\ \A doc \in VehicleDoc : \A seen, new :
        LET e == Saved(doc, seen, new)
        IN  /\ e.status = Written(doc.status, seen.status, new.status)
            /\ e.isActive = Written(doc.isActive, seen.isActive, new.isActive)
            /\ e.here = Written(doc.here, seen.here, new.here)
    /\ \A doc \in UserDoc : \A seen, new :
        LET e == Saved(doc, seen, new)
        IN  e.role = Written(doc.role, seen.role, new.role)
    /\ \A doc \in ApplicationDoc : \A seen, new :
        LET e == Saved(doc, seen, new)
        IN  /\ e.status = Written(doc.status, seen.status, new.status)
            /\ e.person = Written(doc.person, seen.person, new.person)
            /\ e.own = Written(doc.own, seen.own, new.own)
            /\ e.approved = Written(doc.approved, seen.approved, new.approved)
<1>1. ASSUME NEW doc \in VehicleDoc, NEW seen, NEW new, NEW e, e = Saved(doc, seen, new)
      PROVE  /\ e.status = Written(doc.status, seen.status, new.status)
             /\ e.isActive = Written(doc.isActive, seen.isActive, new.isActive)
             /\ e.here = Written(doc.here, seen.here, new.here)
  BY <1>1 DEF Saved, VehicleDoc
<1>2. ASSUME NEW doc \in UserDoc, NEW seen, NEW new, NEW e, e = Saved(doc, seen, new)
      PROVE  e.role = Written(doc.role, seen.role, new.role)
  BY <1>2 DEF Saved, UserDoc
<1>3. ASSUME NEW doc \in ApplicationDoc, NEW seen, NEW new, NEW e, e = Saved(doc, seen, new)
      PROVE  /\ e.status = Written(doc.status, seen.status, new.status)
             /\ e.person = Written(doc.person, seen.person, new.person)
             /\ e.own = Written(doc.own, seen.own, new.own)
             /\ e.approved = Written(doc.approved, seen.approved, new.approved)
  BY <1>3 DEF Saved, ApplicationDoc
<1> QED BY <1>1, <1>2, <1>3

-----------------------------------------------------------------------------
(* What a step does to the slot of its handler                                *)

\* The kind of call is known from the step it has reached.
LEMMA CallOf ==
    ASSUME NEW q \in RequestState, SlotFit(q)
    PROVE  /\ q.op = "none" <=> q.step = "idle"
           /\ q.op = "add" <=> q.step = "truckInsert"
           /\ q.op \in {"update", "retire", "activate"} <=> q.step \in {"vehicleCheck", "vehicleSave"}
           /\ q.step \in {"assignVehicle", "assignCode", "freePrevious", "endDrivers", "endTrucks",
                          "driverSave", "inUseSave", "assignInsert"} => q.op = "assign"
           /\ q.step = "findCurrent" => q.op \in {"assign", "unassign", "deactivate"}
           /\ q.step \in {"endNext", "freeNext", "retireOwn", "releaseSave"} =>
                q.op \in {"unassign", "deactivate"}
           /\ q.op = "code" <=> q.step = "codeSave"
           /\ q.op = "apply" <=> q.step \in {"applyCheck", "applyInsert"}
           /\ q.op = "reject" <=> q.step = "rejectSave"
           /\ q.op = "approve" <=>
                q.step \in {"reviewUser", "upgradeSave", "accountInsert", "ownInsert", "ownAssign",
                            "truckFind", "truckAssign", "truckSave", "approveSave"}
<1>1. q.step \in Stages(q.op)
  BY DEF SlotFit
<1>2. q.op \in {"none", "add", "update", "retire", "activate", "assign", "unassign", "deactivate",
                "code", "apply", "approve", "reject"}
  BY DEF RequestState
<1>3. CASE q.op = "none"
  BY <1>1, <1>3 DEF Stages
<1>4. CASE q.op = "add"
  BY <1>1, <1>4 DEF Stages
<1>5. CASE q.op \in {"update", "retire", "activate"}
  BY <1>1, <1>5 DEF Stages
<1>6. CASE q.op = "assign"
  BY <1>1, <1>6 DEF Stages
<1>7. CASE q.op \in {"unassign", "deactivate"}
  BY <1>1, <1>7 DEF Stages
<1>8. CASE q.op \in {"code", "apply", "reject"}
  BY <1>1, <1>8 DEF Stages
<1>9. CASE q.op = "approve"
  BY <1>1, <1>9 DEF Stages
<1> QED BY <1>2, <1>3, <1>4, <1>5, <1>6, <1>7, <1>8, <1>9

\* The steps of an approval whose account is there.
Staffed == {"ownInsert", "ownAssign", "truckFind", "truckAssign", "truckSave", "approveSave"}

\* The way an approval takes through them.
Leads(q, step) ==
    /\ step = "ownAssign" => q.step = "ownInsert"
    /\ step \in Staffed => q.step \in Staffed \cup {"upgradeSave", "accountInsert"}
    /\ step = "approveSave" => q.step = "ownAssign" \/ q.form.own = "NONE"

\* The slot of r becomes slot, and that is one it may become.
Moved(r, slot) ==
    /\ slot \in RequestState /\ SlotFit(slot) /\ Leads(req[r], slot.step)
    /\ req' = [req EXCEPT ![r] = slot]
    /\ slot = Idle \/ SameCall(req[r], slot)
    /\ OwesOne(slot) => OwesOne(req[r])

LEMMA FinishMoves ==
    ASSUME NEW r \in Requests, Finish(r)
    PROVE  Moved(r, Idle)
BY IdleIs DEF Finish, Moved, Leads, Staffed

\* What a handler brings from a step to the next.
Onward(q, step) ==
    /\ step \in Steps /\ step \in Stages(q.op) /\ Leads(q, step)
    /\ step # "upgradeSave"
    /\ step \in {"ownInsert", "ownAssign"} => q.form.own # "NONE"
    /\ step \in {"truckFind", "truckAssign", "truckSave"} => q.v # None /\ q.form.own = "NONE"
    /\ q.op \in {"assign", "approve"} => step \in {"truckSave", "approveSave"} \/ OwesOne(q)

LEMMA OnwardFit ==
    ASSUME NEW q \in RequestState, NEW slot \in RequestState, SlotFit(q), SameCall(q, slot),
           Onward(q, slot.step)
    PROVE  SlotFit(slot) /\ (OwesOne(slot) => OwesOne(q))
<1>1. Stages(slot.op) = Stages(q.op)
  BY DEF SameCall
<1> QED BY <1>1 DEF SlotFit, SameCall, Onward, OwesOne

LEMMA GotoMoves ==
    ASSUME TypeInv, NEW r \in Requests, NEW step, Onward(req[r], step), Goto(r, step)
    PROVE  Moved(r, [req[r] EXCEPT !.step = step])
<1>1. req \in [Requests -> RequestState] /\ req[r] \in RequestState /\ SlotFit(req[r])
  BY DEF TypeInv, TypeOK
<1> DEFINE slot == [req[r] EXCEPT !.step = step]
<1>2. slot \in RequestState
  BY <1>1 DEF RequestState, Onward
<1>3. slot.step = step /\ SameCall(req[r], slot)
  BY <1>1 DEF RequestState, SameCall
<1>4. req' = [req EXCEPT ![r] = slot]
  BY <1>1 DEF Goto
<1> HIDE DEF slot
<1>5. SlotFit(slot) /\ (OwesOne(slot) => OwesOne(req[r]))
  BY <1>1, <1>2, <1>3, OnwardFit
<1> QED BY <1>2, <1>3, <1>4, <1>5 DEF Moved, Onward, slot

\* Some slot becomes the slot of r.
Moves(r) == \E slot : Moved(r, slot)

LEMMA VehicleMoves ==
    ASSUME TypeInv, NEW r \in Requests, InsertTruck(r) \/ VehicleCheck(r) \/ VehicleSave(r)
    PROVE  Moves(r)
<1>1. req \in [Requests -> RequestState] /\ req[r] \in RequestState /\ SlotFit(req[r])
  BY DEF TypeInv, TypeOK
<1>2. CASE Finish(r)
  BY <1>2, FinishMoves DEF Moves
<1>3. CASE InsertTruck(r) \/ VehicleSave(r)
  BY <1>2, <1>3 DEF InsertTruck, VehicleSave
<1>4. CASE VehicleCheck(r) /\ ~Finish(r)
  <2> DEFINE q == req[r]
             new == IF ActiveFor(q.v) # {} THEN [q.new EXCEPT !.status = "IN_USE"] ELSE q.new
             slot == [q EXCEPT !.step = "vehicleSave", !.new = new]
  <2>1. q.step = "vehicleCheck" /\ req' = [req EXCEPT ![r].step = "vehicleSave", ![r].new = new]
    BY <1>4 DEF VehicleCheck
  <2>2. req' = [req EXCEPT ![r] = slot]
    BY <1>1, <2>1
  <2>3. q.new \in VehicleDoc
    BY <1>1 DEF RequestState
  <2>4. [q.new EXCEPT !.status = "IN_USE"] \in VehicleDoc
    BY <2>3 DEF VehicleDoc, VehicleStatus
  <2>5. new \in VehicleDoc
    BY <2>3, <2>4
  <2> HIDE DEF new
  <2>6. slot \in RequestState
    BY <1>1, <2>5 DEF RequestState, Steps
  <2>7. slot.step = "vehicleSave" /\ SameCall(q, slot)
    BY <1>1 DEF RequestState, SameCall
  <2>8. q.op \in {"update", "retire", "activate"}
    BY <1>1, <2>1, CallOf
  <2>9. Onward(q, "vehicleSave")
    BY <2>8 DEF Onward, Leads, Staffed, Stages, Steps
  <2> HIDE DEF slot
  <2>10. SlotFit(slot) /\ (OwesOne(slot) => OwesOne(q))
    BY <1>1, <2>6, <2>7, <2>9, OnwardFit
  <2>11. Moved(r, slot)
    BY <2>2, <2>6, <2>7, <2>9, <2>10 DEF Moved, Onward
  <2> QED BY <2>11 DEF Moves
<1> QED BY <1>2, <1>3, <1>4

\* Its active assignments, and any others, are among those it may visit.
LEMMA VisitsType ==
    ASSUME TypeInv
    PROVE  /\ DOMAIN assignment \in SUBSET (1..MaxAssignments)
           /\ \A loaded : Seen(loaded) \in [Vehicles -> VehicleDoc]
<1>1. assignment \in Seq(AssignmentDoc) /\ Len(assignment) <= MaxAssignments /\ Len(assignment) \in Nat
  BY DEF TypeInv, TypeOK
<1>2. DOMAIN assignment = 1..Len(assignment)
  BY <1>1
<1>3. DOMAIN assignment \in SUBSET (1..MaxAssignments)
  BY <1>1, <1>2, NoneIs
<1>4. NoVehicle \in VehicleDoc
  BY DEF NoVehicle, VehicleDoc
<1>5. ASSUME NEW loaded PROVE Seen(loaded) \in [Vehicles -> VehicleDoc]
  BY <1>4 DEF TypeInv, TypeOK, Seen
<1> QED BY <1>3, <1>5

LEMMA AfterIs ==
    ASSUME NEW q, NEW current,
           q.op \in {"assign", "unassign", "deactivate"}
    PROVE  /\ q.op = "assign" => AfterCurrent(q, current) \in {"freePrevious", "driverSave"}
           /\ q.op # "assign" => AfterCurrent(q, current) \in {"endNext", "retireOwn", "idle"}
BY DEF AfterCurrent

LEMMA AssigningMoves ==
    ASSUME TypeInv, NEW r \in Requests,
           \/ CheckTruckFree(r) \/ CheckCodeFree(r) \/ FindCurrent(r) \/ FreePrevious(r)
           \/ EndDrivers(r) \/ EndTrucks(r) \/ DriverSave(r) \/ InUseSave(r) \/ AssignInsert(r)
    PROVE  Moves(r)
<1>1. req \in [Requests -> RequestState] /\ req[r] \in RequestState /\ SlotFit(req[r])
  BY DEF TypeInv, TypeOK
<1> DEFINE q == req[r]
<1>2. CASE Finish(r)
  BY <1>2, FinishMoves DEF Moves
<1>3. ASSUME NEW step \in {"assignCode", "findCurrent", "endDrivers", "endTrucks", "driverSave",
                           "inUseSave", "assignInsert"},
             Goto(r, step), q.op = "assign", q.step \in Stages("assign") \ {"assignInsert"}
      PROVE  Moves(r)
  <2>1. OwesOne(q)
    BY <1>3 DEF OwesOne, Stages
  <2>2. Onward(q, step)
    BY <1>3, <2>1 DEF Onward, Leads, Staffed, Stages, Steps
  <2> QED BY <1>3, <2>2, GotoMoves DEF Moves
<1>4. CASE CheckTruckFree(r)
  <2>1. q.step = "assignVehicle" /\ (Goto(r, "assignCode") \/ Finish(r))
    BY <1>4 DEF CheckTruckFree
  <2>2. q.op = "assign" /\ q.step \in Stages("assign") \ {"assignInsert"}
    BY <1>1, <2>1, CallOf DEF Stages
  <2> QED BY <1>2, <1>3, <2>1, <2>2
<1>5. CASE CheckCodeFree(r)
  <2>1. q.step = "assignCode" /\ (Goto(r, "findCurrent") \/ Finish(r))
    BY <1>5 DEF CheckCodeFree
  <2>2. q.op = "assign" /\ q.step \in Stages("assign") \ {"assignInsert"}
    BY <1>1, <2>1, CallOf DEF Stages
  <2> QED BY <1>2, <1>3, <2>1, <2>2
<1>6. CASE EndDrivers(r)
  <2>1. q.step = "endDrivers" /\ Goto(r, "endTrucks")
    BY <1>6 DEF EndDrivers
  <2>2. q.op = "assign" /\ q.step \in Stages("assign") \ {"assignInsert"}
    BY <1>1, <2>1, CallOf DEF Stages
  <2> QED BY <1>3, <2>1, <2>2
<1>7. CASE EndTrucks(r)
  <2>1. q.step = "endTrucks" /\ Goto(r, "driverSave")
    BY <1>7 DEF EndTrucks
  <2>2. q.op = "assign" /\ q.step \in Stages("assign") \ {"assignInsert"}
    BY <1>1, <2>1, CallOf DEF Stages
  <2> QED BY <1>3, <2>1, <2>2
<1>8. CASE DriverSave(r)
  <2>1. q.step = "driverSave" /\ Goto(r, "inUseSave")
    BY <1>8 DEF DriverSave
  <2>2. q.op = "assign" /\ q.step \in Stages("assign") \ {"assignInsert"}
    BY <1>1, <2>1, CallOf DEF Stages
  <2> QED BY <1>3, <2>1, <2>2
<1>9. CASE InUseSave(r)
  <2>1. q.step = "inUseSave" /\ Goto(r, "assignInsert")
    BY <1>9 DEF InUseSave
  <2>2. q.op = "assign" /\ q.step \in Stages("assign") \ {"assignInsert"}
    BY <1>1, <2>1, CallOf DEF Stages
  <2> QED BY <1>3, <2>1, <2>2
<1>10. CASE AssignInsert(r)
  BY <1>2, <1>10 DEF AssignInsert
<1>11. CASE FindCurrent(r) /\ ~Finish(r)
  <2> DEFINE current == ActiveOf(q.p)
             next == AfterCurrent(q, current)
             ended == IF q.op # "assign" THEN current
                      ELSE {i \in current : assignment[i].vehicleId \in Trucks \ {q.v}}
             found == Seen({assignment[i].vehicleId : i \in ended})
             todo == IF next = "driverSave" THEN {} ELSE ended
             seen == [v \in Vehicles |-> IF v = q.v THEN q.seen[v] ELSE found[v]]
             slot == [q EXCEPT !.step = next, !.todo = todo, !.seen = seen]
  <2>1. q.step = "findCurrent" /\ next # "idle"
        /\ req' = [req EXCEPT ![r].step = next, ![r].todo = todo, ![r].seen = seen]
    BY <1>11 DEF FindCurrent
  <2>2. req' = [req EXCEPT ![r] = slot]
    BY <1>1, <2>1
  <2>3. current \in SUBSET (1..MaxAssignments)
    BY VisitsType DEF ActiveOf
  <2>4. todo \in SUBSET (1..MaxAssignments)
    BY <2>3
  <2>5. found \in [Vehicles -> VehicleDoc] /\ q.seen \in [Vehicles -> VehicleDoc]
    BY <1>1, VisitsType DEF RequestState
  <2> HIDE DEF found, current, todo
  <2>6. seen \in [Vehicles -> VehicleDoc]
    BY <2>5
  <2>7. q.op \in {"assign", "unassign", "deactivate"}
    BY <1>1, <2>1, CallOf
  <2>8. /\ q.op = "assign" => next \in {"freePrevious", "driverSave"}
        /\ q.op # "assign" => next \in {"endNext", "retireOwn"}
    BY <2>1, <2>7, AfterIs
  <2> HIDE DEF next, seen
  <2>9. next \in Steps
    BY <2>8 DEF Steps
  <2>10. slot \in RequestState
    BY <1>1, <2>4, <2>6, <2>9 DEF RequestState
  <2>11. slot.step = next /\ SameCall(q, slot)
    BY <1>1 DEF RequestState, SameCall
  <2>12. q.op = "assign" => OwesOne(q)
    BY <2>1 DEF OwesOne
  <2>13. next \in Stages(q.op)
    BY <2>7, <2>8 DEF Stages
  <2>14. Onward(q, next)
    BY <2>7, <2>8, <2>9, <2>12, <2>13 DEF Onward, Leads, Staffed
  <2> HIDE DEF slot
  <2>15. SlotFit(slot) /\ (OwesOne(slot) => OwesOne(q))
    BY <1>1, <2>10, <2>11, <2>14, OnwardFit
  <2>16. Moved(r, slot)
    BY <2>2, <2>10, <2>11, <2>14, <2>15 DEF Moved, Onward
  <2> QED BY <2>16 DEF Moves
<1>12. CASE FreePrevious(r)
  <2>1. q.step = "freePrevious"
    BY <1>12 DEF FreePrevious
  <2>2. q.op = "assign" /\ q.step \in Stages("assign") \ {"assignInsert"}
    BY <1>1, <2>1, CallOf DEF Stages
  <2>3. CASE Goto(r, "endDrivers")
    BY <1>3, <2>2, <2>3
  <2>4. CASE \E i \in q.todo : req' = [req EXCEPT ![r].todo = @ \ {i}]
    <3>1. PICK i \in q.todo : req' = [req EXCEPT ![r].todo = @ \ {i}]
      BY <2>4
    <3> DEFINE slot == [q EXCEPT !.todo = @ \ {i}]
    <3>2. req' = [req EXCEPT ![r] = slot]
      BY <1>1, <3>1
    <3>3. q.todo \ {i} \in SUBSET (1..MaxAssignments)
      BY <1>1 DEF RequestState
    <3>4. slot \in RequestState
      BY <1>1, <3>3 DEF RequestState
    <3>5. slot.step = "freePrevious" /\ SameCall(q, slot)
      BY <1>1, <2>1 DEF RequestState, SameCall
    <3>6. OwesOne(q)
      BY <2>1, <2>2 DEF OwesOne
    <3>7. Onward(q, "freePrevious")
      BY <2>1, <2>2, <3>6 DEF Onward, Leads, Staffed, Stages, Steps
    <3> HIDE DEF slot
    <3>8. SlotFit(slot) /\ (OwesOne(slot) => OwesOne(q))
      BY <1>1, <3>4, <3>5, <3>7, OnwardFit
    <3>9. Moved(r, slot)
      BY <3>2, <3>4, <3>5, <3>7, <3>8 DEF Moved, Onward
    <3> QED BY <3>9 DEF Moves
  <2> QED BY <1>12, <2>3, <2>4 DEF FreePrevious
<1> QED BY <1>2, <1>4, <1>5, <1>6, <1>7, <1>8, <1>9, <1>10, <1>11, <1>12

LEMMA EndingMoves ==
    ASSUME TypeInv, NEW r \in Requests,
           EndNext(r) \/ FreeNext(r) \/ RetireOwn(r) \/ ReleaseSave(r) \/ CodeSave(r)
    PROVE  Moves(r)
<1>1. req \in [Requests -> RequestState] /\ req[r] \in RequestState /\ SlotFit(req[r])
  BY DEF TypeInv, TypeOK
<1> DEFINE q == req[r]
<1>2. CASE ReleaseSave(r) \/ CodeSave(r)
  BY <1>2, FinishMoves DEF Moves, ReleaseSave, CodeSave
<1> DEFINE Leaving == {"findCurrent", "endNext", "freeNext", "retireOwn", "releaseSave"}
<1>3. ASSUME NEW step \in Leaving, q.step \in Leaving \ {"findCurrent"}
      PROVE  Onward(q, step)
  <2>1. q.op \in {"unassign", "deactivate"}
    BY <1>1, <1>3, CallOf
  <2> QED BY <2>1 DEF Onward, Leads, Staffed, Stages, Steps
<1>4. CASE RetireOwn(r)
  BY <1>3, <1>4, GotoMoves DEF RetireOwn, Moves
<1>5. ASSUME NEW slot \in RequestState, req' = [req EXCEPT ![r] = slot], SameCall(q, slot),
             slot.step \in Leaving, q.step \in Leaving \ {"findCurrent"}
      PROVE  Moves(r)
  <2>1. Onward(q, slot.step)
    BY <1>3, <1>5
  <2>2. SlotFit(slot) /\ (OwesOne(slot) => OwesOne(q))
    BY <1>1, <1>5, <2>1, OnwardFit
  <2>3. Moved(r, slot)
    BY <1>5, <2>1, <2>2 DEF Moved, Onward
  <2> QED BY <2>3 DEF Moves
<1>6. CASE FreeNext(r)
  <2> DEFINE slot == [q EXCEPT !.step = "endNext", !.now = 0]
  <2>1. q.step = "freeNext" /\ req' = [req EXCEPT ![r].step = "endNext", ![r].now = 0]
    BY <1>6 DEF FreeNext
  <2>2. req' = [req EXCEPT ![r] = slot]
    BY <1>1, <2>1
  <2>3. 0 \in 0..MaxAssignments
    BY NoneIs
  <2>4. slot \in RequestState
    BY <1>1, <2>3 DEF RequestState, Steps
  <2>5. slot.step = "endNext" /\ SameCall(q, slot)
    BY <1>1 DEF RequestState, SameCall
  <2> HIDE DEF slot
  <2> QED BY <1>5, <2>1, <2>2, <2>4, <2>5
<1>7. CASE EndNext(r)
  <2>1. q.step = "endNext"
    BY <1>7 DEF EndNext
  <2>2. CASE Goto(r, IF q.op = "deactivate" THEN "retireOwn" ELSE "releaseSave")
    <3> DEFINE next == IF q.op = "deactivate" THEN "retireOwn" ELSE "releaseSave"
    <3>1. next \in Leaving
      OBVIOUS
    <3> HIDE DEF next
    <3>2. Onward(q, next)
      BY <1>3, <2>1, <3>1
    <3>3. Goto(r, next)
      BY <2>2 DEF next
    <3> QED BY <3>2, <3>3, GotoMoves DEF Moves
  <2>3. CASE \E i \in q.todo :
                req' = [req EXCEPT ![r].step = "freeNext", ![r].todo = @ \ {i}, ![r].now = i]
    <3>1. PICK i \in q.todo :
                req' = [req EXCEPT ![r].step = "freeNext", ![r].todo = @ \ {i}, ![r].now = i]
      BY <2>3
    <3> DEFINE slot == [q EXCEPT !.step = "freeNext", !.todo = @ \ {i}, !.now = i]
    <3>2. req' = [req EXCEPT ![r] = slot]
      BY <1>1, <3>1
    <3>3. q.todo \ {i} \in SUBSET (1..MaxAssignments) /\ i \in 1..MaxAssignments
      BY <1>1 DEF RequestState
    <3>4. i \in 0..MaxAssignments
      BY <3>3, NoneIs
    <3>5. slot \in RequestState
      BY <1>1, <3>3, <3>4 DEF RequestState, Steps
    <3>6. slot.step = "freeNext" /\ SameCall(q, slot)
      BY <1>1 DEF RequestState, SameCall
    <3> HIDE DEF slot
    <3> QED BY <1>5, <2>1, <3>2, <3>5, <3>6
  <2> QED BY <1>7, <2>2, <2>3 DEF EndNext
<1> QED BY <1>2, <1>4, <1>6, <1>7

LEMMA ReviewingMoves ==
    ASSUME TypeInv, NEW r \in Requests,
           \/ ApplyCheck(r) \/ ApplyInsert(r) \/ ApproveSave(r) \/ RejectSave(r)
           \/ ReviewUser(r) \/ UpgradeSave(r) \/ AccountInsert(r) \/ OwnInsert(r) \/ OwnAssign(r)
           \/ TruckFind(r) \/ TruckAssign(r) \/ TruckSave(r)
    PROVE  Moves(r)
<1>1. req \in [Requests -> RequestState] /\ req[r] \in RequestState /\ SlotFit(req[r])
  BY DEF TypeInv, TypeOK
<1> DEFINE q == req[r]
<1>2. CASE Finish(r)
  BY <1>2, FinishMoves DEF Moves
<1>3. ASSUME NEW step, Goto(r, step), Onward(q, step)
      PROVE  Moves(r)
  BY <1>3, GotoMoves DEF Moves
<1>4. CASE ApplyInsert(r) \/ ApproveSave(r) \/ RejectSave(r)
  BY <1>2, <1>4 DEF ApplyInsert, ApproveSave, RejectSave
<1>5. CASE ApplyCheck(r)
  <2>1. q.step = "applyCheck" /\ (Goto(r, "applyInsert") \/ Finish(r))
    BY <1>5 DEF ApplyCheck
  <2>2. q.op = "apply"
    BY <1>1, <2>1, CallOf
  <2>3. Onward(q, "applyInsert")
    BY <2>2 DEF Onward, Leads, Staffed, Stages, Steps
  <2> QED BY <1>2, <1>3, <2>1, <2>3
<1>6. ASSUME q.step \in {"upgradeSave", "accountInsert"}, Goto(r, AfterAccount(q))
      PROVE  Moves(r)
  <2>1. q.op = "approve"
    BY <1>1, <1>6, CallOf
  <2>2. OwesOne(q)
    BY <1>6, <2>1 DEF OwesOne
  <2>3. CASE q.form.own # "NONE"
    <3>1. Onward(q, "ownInsert")
      BY <1>6, <2>1, <2>2, <2>3 DEF Onward, Leads, Staffed, Stages, Steps
    <3> QED BY <1>3, <1>6, <2>3, <3>1 DEF AfterAccount
  <2>4. CASE q.form.own = "NONE" /\ q.v # None
    <3>1. Onward(q, "truckFind")
      BY <1>6, <2>1, <2>2, <2>4 DEF Onward, Leads, Staffed, Stages, Steps
    <3> QED BY <1>3, <1>6, <2>4, <3>1 DEF AfterAccount
  <2>5. CASE q.form.own = "NONE" /\ q.v = None
    <3>1. Onward(q, "approveSave")
      BY <1>6, <2>1, <2>5 DEF Onward, Leads, Staffed, Stages, Steps
    <3> QED BY <1>3, <1>6, <2>5, <3>1 DEF AfterAccount
  <2> QED BY <2>3, <2>4, <2>5
<1>7. CASE UpgradeSave(r)
  BY <1>6, <1>7 DEF UpgradeSave
<1>8. CASE AccountInsert(r)
  <2>1. q.step = "accountInsert" /\ (Goto(r, AfterAccount(q)) \/ Finish(r))
    BY <1>8 DEF AccountInsert
  <2> QED BY <1>2, <1>6, <2>1
<1>9. CASE OwnInsert(r)
  <2>1. q.step = "ownInsert" /\ (Goto(r, "ownAssign") \/ Finish(r))
    BY <1>9 DEF OwnInsert, AfterOwnInsert
  <2>2. q.op = "approve" /\ q.form.own # "NONE"
    BY <1>1, <2>1, CallOf DEF SlotFit
  <2>3. Onward(q, "ownAssign")
    BY <2>1, <2>2 DEF Onward, Leads, Staffed, Stages, Steps, OwesOne
  <2> QED BY <1>2, <1>3, <2>1, <2>3
<1>10. CASE OwnAssign(r)
  <2>1. q.step = "ownAssign" /\ Goto(r, "approveSave")
    BY <1>10 DEF OwnAssign
  <2>2. q.op = "approve"
    BY <1>1, <2>1, CallOf
  <2>3. Onward(q, "approveSave")
    BY <2>1, <2>2 DEF Onward, Leads, Staffed, Stages, Steps
  <2> QED BY <1>3, <2>1, <2>3
<1>11. CASE TruckAssign(r)
  <2>1. q.step = "truckAssign" /\ Goto(r, "truckSave")
    BY <1>11 DEF TruckAssign
  <2>2. q.op = "approve" /\ q.v # None /\ q.form.own = "NONE"
    BY <1>1, <2>1, CallOf DEF SlotFit
  <2>3. Onward(q, "truckSave")
    BY <2>1, <2>2 DEF Onward, Leads, Staffed, Stages, Steps
  <2> QED BY <1>3, <2>1, <2>3
<1>12. CASE TruckSave(r)
  <2>1. q.step = "truckSave" /\ Goto(r, "approveSave")
    BY <1>12 DEF TruckSave
  <2>2. q.op = "approve" /\ q.v # None /\ q.form.own = "NONE"
    BY <1>1, <2>1, CallOf DEF SlotFit
  <2>3. Onward(q, "approveSave")
    BY <2>1, <2>2 DEF Onward, Leads, Staffed, Stages, Steps
  <2> QED BY <1>3, <2>1, <2>3
<1>13. CASE TruckFind(r) /\ ~Finish(r)
  <2> DEFINE slot == [q EXCEPT !.step = "truckAssign", !.seen[q.v] = vehicle[q.v]]
  <2>1. /\ q.step = "truckFind"
        /\ req' = [req EXCEPT ![r].step = "truckAssign", ![r].seen[q.v] = vehicle[q.v]]
    BY <1>13 DEF TruckFind
  <2>2. req' = [req EXCEPT ![r] = slot]
    BY <1>1, <2>1
  <2>3. q.op = "approve" /\ q.v # None /\ q.form.own = "NONE" /\ q.v \in Trucks
    BY <1>1, <2>1, CallOf DEF SlotFit
  <2>4. vehicle[q.v] \in VehicleDoc
    BY <2>3 DEF TypeInv, TypeOK, Vehicles
  <2>5. q.seen \in [Vehicles -> VehicleDoc]
    BY <1>1 DEF RequestState
  <2>6. [q.seen EXCEPT ![q.v] = vehicle[q.v]] \in [Vehicles -> VehicleDoc]
    BY <2>4, <2>5
  <2>7. slot \in RequestState
    BY <1>1, <2>6 DEF RequestState, Steps
  <2>8. slot.step = "truckAssign" /\ SameCall(q, slot)
    BY <1>1 DEF RequestState, SameCall
  <2>9. Onward(q, "truckAssign")
    BY <2>1, <2>3 DEF Onward, Leads, Staffed, Stages, Steps, OwesOne
  <2> HIDE DEF slot
  <2>10. SlotFit(slot) /\ (OwesOne(slot) => OwesOne(q))
    BY <1>1, <2>7, <2>8, <2>9, OnwardFit
  <2>11. Moved(r, slot)
    BY <2>2, <2>7, <2>8, <2>9, <2>10 DEF Moved, Onward
  <2> QED BY <2>11 DEF Moves
<1>14. CASE ReviewUser(r) /\ ~Finish(r)
  <2> DEFINE next == IF q.form.applicant THEN "upgradeSave" ELSE "accountInsert"
             slot == [q EXCEPT !.step = next, !.user = user[q.p]]
  <2>1. /\ q.step = "reviewUser"
        /\ user[q.p].role # "DRIVER"
        /\ req' = [req EXCEPT ![r].user = user[q.p], ![r].step = next]
    BY <1>14 DEF ReviewUser
  <2>2. req' = [req EXCEPT ![r] = slot]
    BY <1>1, <2>1
  <2>3. next \in {"upgradeSave", "accountInsert"}
    OBVIOUS
  <2> HIDE DEF next
  <2>4. q.op = "approve" /\ q.p \in People
    BY <1>1, <2>1, CallOf DEF SlotFit
  <2>5. user[q.p] \in UserDoc
    BY <2>4 DEF TypeInv, TypeOK
  <2>6. slot \in RequestState
    BY <1>1, <2>3, <2>5 DEF RequestState, Steps
  <2>7. slot.step = next /\ slot.user = user[q.p] /\ SameCall(q, slot)
    BY <1>1 DEF RequestState, SameCall
  <2> HIDE DEF slot
  <2>8. slot.op = "approve" /\ slot.step \in Stages("approve")
    BY <2>3, <2>4, <2>7 DEF SameCall, Stages
  <2>9. SlotFit(slot)
    BY <1>1, <2>1, <2>3, <2>4, <2>7, <2>8 DEF SlotFit, SameCall
  <2>10. OwesOne(q)
    BY <2>1, <2>4 DEF OwesOne
  <2>11. Leads(q, slot.step)
    BY <2>3, <2>7 DEF Leads, Staffed
  <2>12. Moved(r, slot)
    BY <2>2, <2>6, <2>7, <2>9, <2>10, <2>11 DEF Moved
  <2> QED BY <2>12 DEF Moves
<1> QED BY <1>2, <1>4, <1>5, <1>7, <1>8, <1>9, <1>10, <1>11, <1>12, <1>13, <1>14

LEMMA ContinueMoves ==
    ASSUME TypeInv, NEW r \in Requests, Continue(r)
    PROVE  Moves(r)
BY VehicleMoves, AssigningMoves, EndingMoves, ReviewingMoves DEF Continue

-----------------------------------------------------------------------------
(* What a step does to the assignments                                        *)

\* No assignment is made, and none gets another driver or vehicle.
Kept ==
    /\ assignment' \in Seq(AssignmentDoc) /\ DOMAIN assignment' = DOMAIN assignment
    /\ Len(assignment') = Len(assignment)
    /\ \A i \in DOMAIN assignment : /\ assignment'[i].driverId = assignment[i].driverId
                                    /\ assignment'[i].vehicleId = assignment[i].vehicleId

\* Handler r makes the assignment it owed.
Made(r, doc) ==
    /\ doc \in AssignmentDoc /\ assignment' = Append(assignment, doc)
    /\ doc.driverId = req[r].p
    /\ req[r].step \in {"assignInsert", "ownAssign", "truckAssign"}
    /\ IF req[r].step = "ownAssign" THEN doc.vehicleId = req[r].p ELSE doc.vehicleId \in Trucks
    /\ OwesOne(req[r]) /\ ~OwesOne(req'[r])

LEMMA EndKeeps ==
    ASSUME TypeInv, NEW ended, End(ended)
    PROVE  Kept
<1>1. assignment \in Seq(AssignmentDoc)
  BY DEF TypeInv, TypeOK
<1>2. Len(assignment) \in Nat /\ DOMAIN assignment = 1..Len(assignment)
  BY <1>1
<1> DEFINE doc(i) == IF i \in ended THEN [assignment[i] EXCEPT !.isActive = FALSE] ELSE assignment[i]
<1>3. ASSUME NEW i \in DOMAIN assignment
      PROVE  /\ doc(i) \in AssignmentDoc
             /\ doc(i).driverId = assignment[i].driverId
             /\ doc(i).vehicleId = assignment[i].vehicleId
  <2>1. assignment[i] \in AssignmentDoc
    BY <1>1
  <2>2. /\ [assignment[i] EXCEPT !.isActive = FALSE] \in AssignmentDoc
        /\ [assignment[i] EXCEPT !.isActive = FALSE].driverId = assignment[i].driverId
        /\ [assignment[i] EXCEPT !.isActive = FALSE].vehicleId = assignment[i].vehicleId
    BY <2>1 DEF AssignmentDoc
  <2> QED BY <2>1, <2>2
<1>4. assignment' = [i \in DOMAIN assignment |-> doc(i)]
  BY DEF End
<1> HIDE DEF doc
<1>5. assignment' = [i \in 1..Len(assignment) |-> doc(i)]
  BY <1>2, <1>4
<1>6. assignment' \in [1..Len(assignment) -> AssignmentDoc]
  BY <1>2, <1>3, <1>5
<1>7. assignment' \in Seq(AssignmentDoc) /\ Len(assignment') = Len(assignment)
  BY <1>2, <1>6
<1> QED BY <1>2, <1>3, <1>4, <1>7 DEF Kept

LEMMA AssignMakes ==
    ASSUME TypeInv, NEW r \in Requests, NEW p \in People, NEW v \in Vehicles, NEW primary \in BOOLEAN,
           Assign(p, v, primary), req[r].p = p,
           req[r].step \in {"assignInsert", "ownAssign", "truckAssign"},
           IF req[r].step = "ownAssign" THEN v = p ELSE v \in Trucks,
           OwesOne(req[r]), ~OwesOne(req'[r])
    PROVE  \E doc : Made(r, doc)
<1> DEFINE doc == [driverId |-> p, vehicleId |-> v, primary |-> primary, isActive |-> TRUE]
<1>1. doc \in AssignmentDoc /\ doc.driverId = p /\ doc.vehicleId = v
  BY DEF AssignmentDoc
<1>2. assignment' = Append(assignment, doc)
  BY DEF Assign
<1> HIDE DEF doc
<1> QED BY <1>1, <1>2 DEF Made

LEMMA AssignmentsMove ==
    ASSUME TypeInv, NEW r \in Requests, Continue(r)
    PROVE  (Kept /\ req[r].step # "ownAssign") \/ \E doc : Made(r, doc)
<1>1. req \in [Requests -> RequestState] /\ req[r] \in RequestState /\ SlotFit(req[r])
  BY DEF TypeInv, TypeOK
<1>2. CASE UNCHANGED assignment /\ req[r].step # "ownAssign"
  <2>1. assignment \in Seq(AssignmentDoc) /\ assignment' = assignment
    BY <1>2 DEF TypeInv, TypeOK
  <2> QED BY <1>2, <2>1 DEF Kept
<1>3. CASE EndDrivers(r)
  BY <1>3, EndKeeps DEF EndDrivers
<1>4. CASE EndTrucks(r)
  BY <1>4, EndKeeps DEF EndTrucks
<1>5. CASE EndNext(r)
  BY <1>2, <1>5, EndKeeps DEF EndNext
<1>6. CASE AssignInsert(r)
  <2>1. req[r].step = "assignInsert" /\ Assign(req[r].p, req[r].v, req[r].primary) /\ req' = [req EXCEPT ![r] = Idle]
    BY <1>6 DEF AssignInsert, Finish
  <2>2. req[r].op = "assign"
    BY <1>1, <2>1, CallOf
  <2>3. req[r].p \in People /\ req[r].v \in Trucks /\ req[r].primary \in BOOLEAN
    BY <1>1, <2>2 DEF SlotFit, RequestState
  <2>4. OwesOne(req[r])
    BY <2>1, <2>2 DEF OwesOne
  <2>5. req'[r] = Idle /\ ~OwesOne(req'[r])
    BY <1>1, <2>1, IdleIs
  <2> QED BY <2>1, <2>3, <2>4, <2>5, AssignMakes DEF Vehicles
<1>7. CASE OwnAssign(r)
  <2>1. /\ req[r].step = "ownAssign" /\ Assign(req[r].p, req[r].p, TRUE)
        /\ req' = [req EXCEPT ![r].step = "approveSave"]
    BY <1>7 DEF OwnAssign, Goto
  <2>2. req[r].op = "approve"
    BY <1>1, <2>1, CallOf
  <2>3. req[r].p \in People
    BY <1>1, <2>2 DEF SlotFit
  <2>4. OwesOne(req[r])
    BY <2>1, <2>2 DEF OwesOne
  <2>5. req'[r].step = "approveSave"
    BY <1>1, <2>1 DEF RequestState
  <2>6. ~OwesOne(req'[r])
    BY <2>5 DEF OwesOne
  <2> QED BY <2>1, <2>3, <2>4, <2>6, AssignMakes DEF Vehicles
<1>8. CASE TruckAssign(r)
  <2>1. /\ req[r].step = "truckAssign" /\ Assign(req[r].p, req[r].v, TRUE)
        /\ req' = [req EXCEPT ![r].step = "truckSave"]
    BY <1>8 DEF TruckAssign, Goto
  <2>2. req[r].op = "approve"
    BY <1>1, <2>1, CallOf
  <2>3. req[r].p \in People /\ req[r].v \in Trucks
    BY <1>1, <2>1, <2>2 DEF SlotFit
  <2>4. OwesOne(req[r])
    BY <2>1, <2>2 DEF OwesOne
  <2>5. req'[r].step = "truckSave"
    BY <1>1, <2>1 DEF RequestState
  <2>6. ~OwesOne(req'[r])
    BY <2>5 DEF OwesOne
  <2> QED BY <2>1, <2>3, <2>4, <2>6, AssignMakes DEF Vehicles
<1>9. CASE InsertTruck(r) \/ VehicleCheck(r) \/ VehicleSave(r)
  BY <1>2, <1>9 DEF InsertTruck, VehicleCheck, VehicleSave
<1>10. CASE CheckTruckFree(r) \/ CheckCodeFree(r) \/ FindCurrent(r) \/ FreePrevious(r)
            \/ DriverSave(r) \/ InUseSave(r)
  BY <1>2, <1>10 DEF CheckTruckFree, CheckCodeFree, FindCurrent, FreePrevious, DriverSave, InUseSave
<1>11. CASE FreeNext(r) \/ RetireOwn(r) \/ ReleaseSave(r) \/ CodeSave(r)
  BY <1>2, <1>11 DEF FreeNext, RetireOwn, ReleaseSave, CodeSave
<1>12. CASE ApplyCheck(r) \/ ApplyInsert(r) \/ ReviewUser(r) \/ UpgradeSave(r) \/ AccountInsert(r)
            \/ OwnInsert(r)
  BY <1>2, <1>12 DEF ApplyCheck, ApplyInsert, ReviewUser, UpgradeSave, AccountInsert, OwnInsert
<1>13. CASE TruckFind(r) \/ TruckSave(r) \/ ApproveSave(r) \/ RejectSave(r)
  BY <1>2, <1>13 DEF TruckFind, TruckSave, ApproveSave, RejectSave
<1> QED
  BY <1>3, <1>4, <1>5, <1>6, <1>7, <1>8, <1>9, <1>10, <1>11, <1>12, <1>13 DEF Continue

-----------------------------------------------------------------------------
(* How a call begins                                                          *)

\* What a call has loaded, and what it starts from.
Loaded(slot) ==
    /\ slot.op \in {"update", "retire", "activate"} => slot.seen[slot.v] = vehicle[slot.v]
    /\ slot.op = "update" => slot.step = "vehicleCheck" /\ slot.new.isActive = vehicle[slot.v].isActive
    /\ slot.op = "retire" => slot.step = "vehicleCheck" /\ slot.new.status # "IN_USE"
    /\ slot.op = "activate" =>
        /\ slot.step = "vehicleSave"
        /\ slot.new.isActive = TRUE /\ slot.new.here = vehicle[slot.v].here
        /\ slot.new.status = "IN_USE" <=> vehicle[slot.v].status = "IN_USE"
    /\ slot.op = "assign" =>
        /\ slot.step = "assignVehicle" /\ user[slot.p].role = "DRIVER"
        /\ TruckReady(vehicle[slot.v]) /\ slot.seen[slot.v].status = "AVAILABLE"
    /\ slot.op \in {"unassign", "deactivate"} => slot.step = "findCurrent"
    /\ slot.op = "approve" => slot.step = "reviewUser"
    /\ slot.op = "apply" => slot.step = "applyCheck"

Begun(r, slot) ==
    /\ Start(r, slot) /\ Loaded(slot)
    /\ slot \in RequestState /\ SlotFit(slot) /\ slot.step \notin Staffed
    /\ OwesOne(slot) => RoomForAssignment
    /\ slot.op = "apply" => application[slot.a].status = "ABSENT"
                            /\ \A other \in Requests : req[other].a # slot.a
    /\ slot.op \in {"approve", "reject"} => application[slot.a].status = "PENDING"
                                            /\ slot.form = application[slot.a]

LEMMA VehicleBegins ==
    ASSUME TypeInv, NEW r \in Requests, NEW t \in Trucks,
           \/ \E status \in Statuses, here \in BOOLEAN : CreateVehicleForAdmin(r, t, status, here)
           \/ UpdateVehicleForAdmin(r, t) \/ DeactivateVehicleForAdmin(r, t)
           \/ ActivateVehicleForAdmin(r, t)
    PROVE  \E slot : Begun(r, slot)
<1>1. vehicle \in [Vehicles -> VehicleDoc] /\ t \in Vehicles
  BY DEF TypeInv, TypeOK, Vehicles
<1>2. vehicle[t] \in VehicleDoc
  BY <1>1
<1>3. CASE \E status \in Statuses, here \in BOOLEAN : CreateVehicleForAdmin(r, t, status, here)
  <2>1. PICK status \in Statuses, here \in BOOLEAN : CreateVehicleForAdmin(r, t, status, here)
    BY <1>3
  <2> DEFINE new == NewVehicle(status, "TRUCK", here)
             slot == [Idle EXCEPT !.step = "truckInsert", !.op = "add", !.v = t, !.new = new]
  <2>2. status \in VehicleStatus
    BY FleetAssumption DEF VehicleStatus
  <2>3. new \in VehicleDoc
    BY <2>2 DEF NewVehicle, VehicleDoc
  <2>4. Start(r, slot)
    BY <2>1 DEF CreateVehicleForAdmin
  <2> HIDE DEF new
  <2>5. slot \in RequestState
    BY <1>1, <2>3, IdleIs DEF RequestState, Steps
  <2>6. slot.step = "truckInsert" /\ slot.op = "add" /\ slot.v = t /\ slot.new = new
    BY IdleIs DEF RequestState
  <2> HIDE DEF slot
  <2>7. slot.step \in Stages("add")
    BY <2>6 DEF Stages
  <2>8. SlotFit(slot) /\ slot.step \notin Staffed /\ ~OwesOne(slot)
    BY <2>6, <2>7 DEF SlotFit, Staffed, OwesOne
  <2> QED BY <2>4, <2>5, <2>6, <2>8 DEF Begun, Loaded
<1>4. ASSUME NEW op \in {"update", "retire", "activate"}, NEW step \in {"vehicleCheck", "vehicleSave"},
             NEW new \in VehicleDoc, BeginVehicle(r, op, step, t, new),
             \/ op = "update" /\ step = "vehicleCheck" /\ new.isActive = vehicle[t].isActive
             \/ op = "retire" /\ step = "vehicleCheck" /\ new.status # "IN_USE"
             \/ /\ op = "activate" /\ step = "vehicleSave"
                /\ new.isActive = TRUE /\ new.here = vehicle[t].here
                /\ new.status = "IN_USE" <=> vehicle[t].status = "IN_USE"
      PROVE  \E slot : Begun(r, slot)
  <2> DEFINE seen == Seen({t})
             slot == [Idle EXCEPT !.step = step, !.op = op, !.v = t, !.new = new, !.seen = seen]
  <2>1. Start(r, slot)
    BY <1>4 DEF BeginVehicle
  <2>2. seen \in [Vehicles -> VehicleDoc]
    BY VisitsType
  <2> HIDE DEF seen
  <2>3. slot \in RequestState
    BY <1>1, <2>2, IdleIs DEF RequestState, Steps
  <2>4. slot.step = step /\ slot.op = op /\ slot.v = t /\ slot.new = new /\ slot.seen = seen
    BY IdleIs DEF RequestState
  <2> HIDE DEF slot
  <2>5. slot.step \in Stages(op)
    BY <2>4 DEF Stages
  <2>6. SlotFit(slot) /\ slot.step \notin Staffed /\ ~OwesOne(slot)
    BY <2>4, <2>5 DEF SlotFit, Staffed, OwesOne
  <2>7. seen[t] = vehicle[t]
    BY <1>1 DEF Seen, seen
  <2>8. Loaded(slot)
    BY <1>4, <2>4, <2>7 DEF Loaded
  <2> QED BY <2>1, <2>3, <2>4, <2>6, <2>8 DEF Begun
<1>5. CASE UpdateVehicleForAdmin(r, t)
  <2>1. PICK here \in BOOLEAN, status \in Statuses \cup {vehicle[t].status} :
            BeginVehicle(r, "update", "vehicleCheck", t,
                         [vehicle[t] EXCEPT !.here = here, !.status = status])
    BY <1>5 DEF UpdateVehicleForAdmin
  <2> DEFINE new == [vehicle[t] EXCEPT !.here = here, !.status = status]
  <2>2. status \in {"ABSENT"} \cup VehicleStatus
    BY <1>2, FleetAssumption DEF VehicleDoc, VehicleStatus
  <2>3. new \in VehicleDoc /\ new.isActive = vehicle[t].isActive
    BY <1>2, <2>2 DEF VehicleDoc
  <2>4. BeginVehicle(r, "update", "vehicleCheck", t, new)
    BY <2>1
  <2> HIDE DEF new
  <2> QED BY <1>4, <2>3, <2>4
<1>6. CASE DeactivateVehicleForAdmin(r, t)
  <2>1. /\ [vehicle[t] EXCEPT !.status = "INACTIVE", !.isActive = FALSE] \in VehicleDoc
        /\ [vehicle[t] EXCEPT !.status = "INACTIVE", !.isActive = FALSE].status # "IN_USE"
    BY <1>2 DEF VehicleDoc, VehicleStatus
  <2> QED BY <1>4, <1>6, <2>1 DEF DeactivateVehicleForAdmin
<1>7. CASE ActivateVehicleForAdmin(r, t)
  <2> DEFINE new == [vehicle[t] EXCEPT !.isActive = TRUE,
                                       !.status = IF @ = "INACTIVE" THEN "AVAILABLE" ELSE @]
  <2>1. /\ new \in VehicleDoc /\ new.isActive = TRUE /\ new.here = vehicle[t].here
        /\ new.status = "IN_USE" <=> vehicle[t].status = "IN_USE"
    BY <1>2 DEF VehicleDoc, VehicleStatus
  <2>2. BeginVehicle(r, "activate", "vehicleSave", t, new)
    BY <1>7 DEF ActivateVehicleForAdmin
  <2> HIDE DEF new
  <2> QED BY <1>4, <2>1, <2>2
<1> QED BY <1>3, <1>5, <1>6, <1>7

LEMMA DriverBegins ==
    ASSUME TypeInv, NEW r \in Requests, NEW p \in People,
           \/ \E t \in Trucks, primary \in BOOLEAN : AssignVehicleToDriver(r, p, t, primary)
           \/ UnassignVehicle(r, p) \/ DeactivateDriver(r, p)
           \/ \E code \in Codes : UpdateDriverVehicleType(r, p, code)
    PROVE  \E slot : Begun(r, slot)
<1>1. user[p] \in UserDoc
  BY DEF TypeInv, TypeOK
<1>2. CASE \E t \in Trucks, primary \in BOOLEAN : AssignVehicleToDriver(r, p, t, primary)
  <2>1. PICK t \in Trucks, primary \in BOOLEAN : AssignVehicleToDriver(r, p, t, primary)
    BY <1>2
  <2> DEFINE seen == Seen({t})
             slot == [Idle EXCEPT !.step = "assignVehicle", !.op = "assign", !.p = p, !.v = t,
                                  !.primary = primary, !.user = user[p], !.seen = seen]
  <2>2. Start(r, slot) /\ RoomForAssignment /\ user[p].role = "DRIVER" /\ TruckReady(vehicle[t])
    BY <2>1 DEF AssignVehicleToDriver, TruckReady
  <2>3. seen \in [Vehicles -> VehicleDoc]
    BY VisitsType
  <2> HIDE DEF seen
  <2>4. slot \in RequestState
    BY <1>1, <2>3, IdleIs DEF RequestState, Steps, Vehicles
  <2>5. /\ slot.step = "assignVehicle" /\ slot.op = "assign" /\ slot.v = t /\ slot.p = p
        /\ slot.seen = seen
    BY IdleIs DEF RequestState
  <2> HIDE DEF slot
  <2>8. seen[t] = vehicle[t]
    BY DEF Seen, Vehicles, seen
  <2>6. slot.step \in Stages("assign")
    BY <2>5 DEF Stages
  <2>7. SlotFit(slot) /\ slot.step \notin Staffed
    BY <2>5, <2>6 DEF SlotFit, Staffed
  <2>9. Loaded(slot)
    BY <2>2, <2>5, <2>8 DEF Loaded, TruckReady
  <2> QED BY <2>2, <2>4, <2>5, <2>7, <2>9 DEF Begun
<1>3. ASSUME NEW op \in {"unassign", "deactivate"},
             Start(r, [Idle EXCEPT !.step = "findCurrent", !.op = op, !.p = p, !.user = user[p]])
      PROVE  \E slot : Begun(r, slot)
  <2> DEFINE slot == [Idle EXCEPT !.step = "findCurrent", !.op = op, !.p = p, !.user = user[p]]
  <2>1. slot \in RequestState
    BY <1>1, IdleIs DEF RequestState, Steps
  <2>2. slot.step = "findCurrent" /\ slot.op = op /\ slot.p = p /\ slot.v = None
    BY IdleIs DEF RequestState, Idle
  <2>3. Start(r, slot)
    BY <1>3
  <2> HIDE DEF slot
  <2>4. slot.step \in Stages(op)
    BY <2>2 DEF Stages
  <2>5. SlotFit(slot) /\ slot.step \notin Staffed /\ ~OwesOne(slot)
    BY <2>2, <2>4 DEF SlotFit, Staffed, OwesOne
  <2> QED BY <2>1, <2>2, <2>3, <2>5 DEF Begun, Loaded
<1>4. CASE UnassignVehicle(r, p) \/ DeactivateDriver(r, p)
  BY <1>3, <1>4 DEF UnassignVehicle, DeactivateDriver
<1>5. CASE \E code \in Codes : UpdateDriverVehicleType(r, p, code)
  <2>1. PICK code \in Codes : UpdateDriverVehicleType(r, p, code)
    BY <1>5
  <2> DEFINE slot == [Idle EXCEPT !.step = "codeSave", !.op = "code", !.p = p, !.v = code,
                                  !.user = user[p]]
  <2>2. code \in Trucks \cup {None}
    BY FleetAssumption
  <2>3. slot \in RequestState
    BY <1>1, <2>2, IdleIs DEF RequestState, Steps, Vehicles
  <2>4. slot.step = "codeSave" /\ slot.op = "code" /\ slot.p = p /\ slot.v = code
    BY IdleIs DEF RequestState
  <2>5. Start(r, slot)
    BY <2>1 DEF UpdateDriverVehicleType
  <2> HIDE DEF slot
  <2>6. slot.step \in Stages("code")
    BY <2>4 DEF Stages
  <2>7. SlotFit(slot) /\ slot.step \notin Staffed /\ ~OwesOne(slot)
    BY <2>2, <2>4, <2>6 DEF SlotFit, Staffed, OwesOne
  <2> QED BY <2>3, <2>4, <2>5, <2>7 DEF Begun, Loaded
<1> QED BY <1>2, <1>4, <1>5

LEMMA ApplicationBegins ==
    ASSUME TypeInv, NEW r \in Requests, NEW a \in Applications,
           \/ \E p \in People : \E own \in Own[p] :
                Create(r, a, p, own) \/ CreateForCurrentUser(r, a, p, own)
           \/ \E code \in Trucks \cup {None} : Approve(r, a, code)
           \/ Reject(r, a)
    PROVE  \E slot : Begun(r, slot)
<1>1. user \in [People -> UserDoc] /\ application[a] \in ApplicationDoc /\ DocFit(application[a])
  BY DEF TypeInv, TypeOK
<1>2. CASE \E p \in People : \E own \in Own[p] :
                Create(r, a, p, own) \/ CreateForCurrentUser(r, a, p, own)
  <2>1. PICK p \in People : \E own \in Own[p] :
                Create(r, a, p, own) \/ CreateForCurrentUser(r, a, p, own)
    BY <1>2
  <2>2. PICK own \in Own[p] : Create(r, a, p, own) \/ CreateForCurrentUser(r, a, p, own)
    BY <2>1
  <2>3. Apply(r, a, p, own)
    BY <2>2 DEF Create, CreateForCurrentUser
  <2> DEFINE form == [status |-> "PENDING", person |-> p, own |-> own, approved |-> FALSE,
                      applicant |-> user[p].role # "ABSENT"]
             slot == [Idle EXCEPT !.step = "applyCheck", !.op = "apply", !.p = p, !.a = a,
                                  !.form = form]
  <2>4. own \in {"NONE", "MOTORCYCLE", "TRUCK"}
    BY FleetAssumption
  <2>5. form \in ApplicationDoc /\ form.status = "PENDING" /\ form.person = p /\ form.approved = FALSE
    BY <2>4 DEF ApplicationDoc
  <2>6. /\ Start(r, slot) /\ application[a].status = "ABSENT"
        /\ \A other \in Requests : req[other].a # a
    BY <2>3 DEF Apply
  <2> HIDE DEF form
  <2>7. slot \in RequestState
    BY <2>5, IdleIs DEF RequestState, Steps
  <2>8. slot.step = "applyCheck" /\ slot.op = "apply" /\ slot.p = p /\ slot.a = a /\ slot.form = form
    BY IdleIs DEF RequestState
  <2> HIDE DEF slot
  <2>9. slot.step \in Stages("apply")
    BY <2>8 DEF Stages
  <2>10. SlotFit(slot) /\ slot.step \notin Staffed /\ ~OwesOne(slot)
    BY <2>5, <2>8, <2>9 DEF SlotFit, Staffed, OwesOne
  <2> QED BY <2>6, <2>7, <2>8, <2>10 DEF Begun, Loaded
<1>3. ASSUME NEW op, NEW step, NEW code \in Trucks \cup {None}, Review(r, a, op, step, code),
             \/ op = "approve" /\ step = "reviewUser" /\ RoomForAssignment
             \/ op = "reject" /\ step = "rejectSave"
      PROVE  \E slot : Begun(r, slot)
  <2> DEFINE slot == [Idle EXCEPT !.step = step, !.op = op, !.a = a, !.p = application[a].person,
                                  !.v = code, !.form = application[a]]
  <2>1. application[a].status = "PENDING" /\ Start(r, slot)
    BY <1>3 DEF Review
  <2>2. application[a].person \in People /\ application[a].approved = FALSE
    BY <1>1, <2>1 DEF DocFit
  <2>3. slot \in RequestState
    BY <1>1, <1>3, <2>2, IdleIs DEF RequestState, Steps, Vehicles
  <2>4. /\ slot.step = step /\ slot.op = op /\ slot.a = a /\ slot.p = application[a].person
        /\ slot.v = code /\ slot.form = application[a]
    BY IdleIs DEF RequestState
  <2> HIDE DEF slot
  <2>5. slot.step \in Stages(op)
    BY <1>3, <2>4 DEF Stages
  <2>6. SlotFit(slot) /\ slot.step \notin Staffed
    BY <1>3, <2>1, <2>2, <2>4, <2>5 DEF SlotFit, Staffed
  <2>7. OwesOne(slot) => RoomForAssignment
    BY <1>3, <2>4 DEF OwesOne
  <2>8. slot.op # "apply"
    BY <1>3, <2>4
  <2>9. Loaded(slot)
    BY <1>3, <2>4 DEF Loaded
  <2> QED BY <2>1, <2>3, <2>4, <2>6, <2>7, <2>8, <2>9 DEF Begun
<1>4. CASE \E code \in Trucks \cup {None} : Approve(r, a, code)
  BY <1>3, <1>4 DEF Approve
<1>5. CASE Reject(r, a)
  BY <1>3, <1>5 DEF Reject
<1> QED BY <1>2, <1>4, <1>5

LEMMA BeginBegins ==
    ASSUME TypeInv, NEW r \in Requests, Begin(r)
    PROVE  \E slot : Begun(r, slot)
<1>1. CASE \E t \in Trucks : \E p \in People, primary \in BOOLEAN : AssignVehicleToDriver(r, p, t, primary)
  BY <1>1, DriverBegins
<1>2. CASE \E t \in Trucks :
        \/ \E status \in Statuses, here \in BOOLEAN : CreateVehicleForAdmin(r, t, status, here)
        \/ UpdateVehicleForAdmin(r, t)
        \/ DeactivateVehicleForAdmin(r, t)
        \/ ActivateVehicleForAdmin(r, t)
  BY <1>2, VehicleBegins
<1>3. CASE \E p \in People :
        \/ UnassignVehicle(r, p) \/ DeactivateDriver(r, p)
        \/ \E code \in Codes : UpdateDriverVehicleType(r, p, code)
  BY <1>3, DriverBegins
<1>4. CASE \E p \in People : \E a \in Applications, own \in Own[p] :
            Create(r, a, p, own) \/ CreateForCurrentUser(r, a, p, own)
  BY <1>4, ApplicationBegins
<1>5. CASE \E a \in Applications :
        (\E code \in Trucks \cup {None} : Approve(r, a, code)) \/ Reject(r, a)
  BY <1>5, ApplicationBegins
<1> QED BY <1>1, <1>2, <1>3, <1>4, <1>5 DEF Begin

-----------------------------------------------------------------------------
(* What a step does to accounts, vehicles and applications                    *)

\* Whatever a handler had loaded, a driver stays a driver; and an approval goes
\* on past the account only with a driver.
LEMMA UsersMove ==
    ASSUME TypeInv, NEW r \in Requests, Continue(r)
    PROVE  /\ user' \in [People -> UserDoc]
           /\ \A p \in People : user[p].role = "DRIVER" => user'[p].role = "DRIVER"
           /\ req[r].step \in {"upgradeSave", "accountInsert"} =>
                req'[r] = Idle \/ user'[req[r].p].role = "DRIVER"
<1>1. req \in [Requests -> RequestState] /\ req[r] \in RequestState /\ SlotFit(req[r])
  BY DEF TypeInv, TypeOK
<1>2. user \in [People -> UserDoc]
  BY DEF TypeInv, TypeOK
<1> DEFINE q == req[r]
<1>3. CASE UNCHANGED user /\ q.step \notin {"upgradeSave", "accountInsert"}
  BY <1>2, <1>3
<1>4. ASSUME NEW new \in UserDoc, q.p \in People, user' = [user EXCEPT ![q.p] = Saved(@, q.user, new)],
             new.role = q.user.role \/ new.role = "DRIVER"
      PROVE  /\ user' \in [People -> UserDoc]
             /\ \A p \in People : user[p].role = "DRIVER" => user'[p].role = "DRIVER"
             /\ new.role = "DRIVER" /\ q.user.role # "DRIVER" => user'[q.p].role = "DRIVER"
  <2> DEFINE doc == Saved(user[q.p], q.user, new)
  <2>1. doc \in UserDoc /\ user[q.p] \in UserDoc
    BY <1>2, <1>4, SavedType
  <2>2. doc.role = Written(user[q.p].role, q.user.role, new.role)
    BY <2>1, SavedFields
  <2>3. user' = [user EXCEPT ![q.p] = doc]
    BY <1>4
  <2> HIDE DEF doc
  <2> QED BY <1>2, <1>4, <2>1, <2>2, <2>3 DEF Written
<1>5. q.user \in UserDoc /\ q.v \in Vehicles \cup {None}
  BY <1>1 DEF RequestState
<1>6. CASE DriverSave(r)
  <2> DEFINE new == IF q.primary THEN [q.user EXCEPT !.code = q.v] ELSE q.user
  <2>1. q.step = "driverSave" /\ user' = [user EXCEPT ![q.p] = Saved(@, q.user, new)]
    BY <1>6 DEF DriverSave
  <2>2. q.op = "assign"
    BY <1>1, <2>1, CallOf
  <2>3. q.p \in People /\ q.v \in Trucks
    BY <1>1, <2>2 DEF SlotFit
  <2>4. new \in UserDoc /\ new.role = q.user.role
    BY <1>5, <2>3 DEF UserDoc
  <2> HIDE DEF new
  <2> QED BY <1>4, <2>1, <2>3, <2>4
<1>7. CASE CodeSave(r)
  <2> DEFINE new == [q.user EXCEPT !.code = q.v]
  <2>1. q.step = "codeSave" /\ user' = [user EXCEPT ![q.p] = Saved(@, q.user, new)]
    BY <1>7 DEF CodeSave
  <2>2. q.op = "code"
    BY <1>1, <2>1, CallOf
  <2>3. q.p \in People /\ q.v \in Trucks \cup {None}
    BY <1>1, <2>2 DEF SlotFit
  <2>4. new \in UserDoc /\ new.role = q.user.role
    BY <1>5, <2>3 DEF UserDoc
  <2> HIDE DEF new
  <2> QED BY <1>4, <2>1, <2>3, <2>4
<1>8. CASE ReleaseSave(r)
  <2> DEFINE new == [q.user EXCEPT !.code = None, !.isActive = @ /\ q.op # "deactivate"]
  <2>1. q.step = "releaseSave" /\ user' = [user EXCEPT ![q.p] = Saved(@, q.user, new)]
    BY <1>8 DEF ReleaseSave
  <2>2. q.op \in {"unassign", "deactivate"}
    BY <1>1, <2>1, CallOf
  <2>3. q.p \in People
    BY <1>1, <2>2 DEF SlotFit
  <2>4. new \in UserDoc /\ new.role = q.user.role
    BY <1>5 DEF UserDoc
  <2> HIDE DEF new
  <2> QED BY <1>4, <2>1, <2>3, <2>4
<1>9. CASE UpgradeSave(r)
  <2> DEFINE new == Driver(q.v)
  <2>1. q.step = "upgradeSave" /\ user' = [user EXCEPT ![q.p] = Saved(@, q.user, new)]
    BY <1>9 DEF UpgradeSave
  <2>2. q.op = "approve"
    BY <1>1, <2>1, CallOf
  <2>3. q.p \in People /\ q.v \in Trucks \cup {None} /\ q.user.role # "DRIVER"
    BY <1>1, <2>1, <2>2 DEF SlotFit
  <2>4. new \in UserDoc /\ new.role = "DRIVER"
    BY <2>3 DEF UserDoc, Driver
  <2> HIDE DEF new
  <2> QED BY <1>4, <2>1, <2>3, <2>4
<1>10. CASE AccountInsert(r)
  <2>1. q.step = "accountInsert"
    BY <1>10 DEF AccountInsert
  <2>2. q.op = "approve"
    BY <1>1, <2>1, CallOf
  <2>3. q.p \in People /\ q.v \in Trucks \cup {None}
    BY <1>1, <2>2 DEF SlotFit
  <2>4. Driver(q.v) \in UserDoc /\ Driver(q.v).role = "DRIVER"
    BY <2>3 DEF UserDoc, Driver
  <2>5. CASE user' = [user EXCEPT ![q.p] = Driver(q.v)]
    BY <1>2, <2>3, <2>4, <2>5
  <2>6. CASE Finish(r) /\ UNCHANGED user
    <3>1. req'[r] = Idle
      BY <1>1, <2>6 DEF Finish
    <3> QED BY <1>2, <2>6, <3>1
  <2> QED BY <1>10, <2>5, <2>6 DEF AccountInsert
<1>11. CASE InsertTruck(r) \/ VehicleCheck(r) \/ VehicleSave(r) \/ CheckTruckFree(r) \/ CheckCodeFree(r)
            \/ FindCurrent(r) \/ FreePrevious(r)
  BY <1>3, <1>11
     DEF InsertTruck, VehicleCheck, VehicleSave, CheckTruckFree, CheckCodeFree, FindCurrent, FreePrevious
<1>12. CASE EndDrivers(r) \/ EndTrucks(r) \/ InUseSave(r) \/ AssignInsert(r) \/ EndNext(r)
            \/ FreeNext(r) \/ RetireOwn(r)
  BY <1>3, <1>12 DEF EndDrivers, EndTrucks, InUseSave, AssignInsert, EndNext, FreeNext, RetireOwn
<1>13. CASE ApplyCheck(r) \/ ApplyInsert(r) \/ ReviewUser(r) \/ OwnInsert(r) \/ OwnAssign(r)
  BY <1>3, <1>13 DEF ApplyCheck, ApplyInsert, ReviewUser, OwnInsert, OwnAssign
<1>14. CASE TruckFind(r) \/ TruckAssign(r) \/ TruckSave(r) \/ ApproveSave(r) \/ RejectSave(r)
  BY <1>3, <1>14 DEF TruckFind, TruckAssign, TruckSave, ApproveSave, RejectSave
<1> QED
  BY <1>6, <1>7, <1>8, <1>9, <1>10, <1>11, <1>12, <1>13, <1>14 DEF Continue

\* The application of a handler becomes doc.
Decided(r, doc) ==
    /\ doc \in ApplicationDoc /\ DocFit(doc)
    /\ application' = [application EXCEPT ![req[r].a] = doc]
    /\ req' = [req EXCEPT ![r] = Idle]
    /\ \/ req[r].op = "apply" /\ doc = req[r].form
       \/ /\ req[r].op \in {"approve", "reject"}
          /\ doc.status \notin {"ABSENT", "PENDING"}
          /\ doc.person = application[req[r].a].person /\ doc.own = application[req[r].a].own
          /\ doc.status = "APPROVED" => req[r].step = "approveSave" /\ doc.approved

LEMMA ApplicationsMove ==
    ASSUME TypeInv, NEW r \in Requests, Continue(r),
           req[r].op \in {"approve", "reject"} => application[req[r].a].status # "ABSENT"
    PROVE  UNCHANGED application \/ \E doc : Decided(r, doc)
<1>1. req \in [Requests -> RequestState] /\ req[r] \in RequestState /\ SlotFit(req[r])
  BY DEF TypeInv, TypeOK
<1>2. application \in [Applications -> ApplicationDoc] /\ \A a \in Applications : DocFit(application[a])
  BY DEF TypeInv, TypeOK
<1> DEFINE q == req[r]
<1>3. q.form \in ApplicationDoc
  BY <1>1 DEF RequestState
<1>4. CASE ApplyInsert(r)
  <2>1. q.step = "applyInsert" /\ application' = [application EXCEPT ![q.a] = q.form] /\ Finish(r)
    BY <1>4 DEF ApplyInsert
  <2>2. q.op = "apply"
    BY <1>1, <2>1, CallOf
  <2>3. DocFit(q.form)
    BY <1>1, <2>2 DEF DocFit, SlotFit
  <2> QED BY <1>3, <2>1, <2>2, <2>3 DEF Decided, Finish
<1>5. ASSUME NEW new \in ApplicationDoc, q.op \in {"approve", "reject"}, Finish(r),
             application' = [application EXCEPT ![q.a] = Saved(@, q.form, new)],
             new.status # "ABSENT" /\ new.status # "PENDING" /\ new.person = q.form.person /\ new.own = q.form.own,
             new.status = "APPROVED" => q.step = "approveSave" /\ new.approved = TRUE
      PROVE  \E doc : Decided(r, doc)
  <2> DEFINE old == application[q.a]
             doc == Saved(old, q.form, new)
  <2>1. q.a \in Applications /\ q.form.status = "PENDING" /\ q.form.approved = FALSE
    BY <1>1, <1>5 DEF SlotFit
  <2>2. old \in ApplicationDoc /\ DocFit(old)
    BY <1>2, <2>1
  <2>3. doc \in ApplicationDoc
    BY <1>5, <2>2, SavedType
  <2>4. /\ doc.status = Written(old.status, q.form.status, new.status)
        /\ doc.person = Written(old.person, q.form.person, new.person)
        /\ doc.own = Written(old.own, q.form.own, new.own)
        /\ doc.approved = Written(old.approved, q.form.approved, new.approved)
    BY <2>2, SavedFields
  <2>5. application' = [application EXCEPT ![q.a] = doc]
    BY <1>2, <1>5, <2>1
  <2>6. old.status # "ABSENT"
    BY <1>5
  <2> HIDE DEF doc, old
  <2>7. /\ doc.status = new.status /\ doc.person = old.person /\ doc.own = old.own
        /\ new.approved = TRUE => doc.approved
    BY <1>5, <2>1, <2>4 DEF Written
  <2>8. DocFit(doc)
    BY <1>5, <2>2, <2>6, <2>7 DEF DocFit
  <2> QED BY <1>5, <2>3, <2>5, <2>7, <2>8 DEF Decided, Finish, old
<1>6. CASE ApproveSave(r)
  <2> DEFINE new == [q.form EXCEPT !.status = "APPROVED", !.approved = TRUE]
  <2>1. /\ q.step = "approveSave" /\ Finish(r)
        /\ application' = [application EXCEPT ![q.a] = Saved(@, q.form, new)]
    BY <1>6 DEF ApproveSave
  <2>2. q.op = "approve"
    BY <1>1, <2>1, CallOf
  <2>3. /\ new \in ApplicationDoc /\ new.status = "APPROVED" /\ new.approved = TRUE
        /\ new.person = q.form.person /\ new.own = q.form.own
    BY <1>3 DEF ApplicationDoc
  <2> HIDE DEF new
  <2> QED BY <1>5, <2>1, <2>2, <2>3
<1>7. CASE RejectSave(r)
  <2> DEFINE new == [q.form EXCEPT !.status = "REJECTED"]
  <2>1. /\ q.step = "rejectSave" /\ Finish(r)
        /\ application' = [application EXCEPT ![q.a] = Saved(@, q.form, new)]
    BY <1>7 DEF RejectSave
  <2>2. q.op = "reject"
    BY <1>1, <2>1, CallOf
  <2>3. /\ new \in ApplicationDoc /\ new.status = "REJECTED"
        /\ new.person = q.form.person /\ new.own = q.form.own
    BY <1>3 DEF ApplicationDoc
  <2> HIDE DEF new
  <2> QED BY <1>5, <2>1, <2>2, <2>3
<1>8. CASE InsertTruck(r) \/ VehicleCheck(r) \/ VehicleSave(r) \/ CheckTruckFree(r) \/ CheckCodeFree(r)
           \/ FindCurrent(r) \/ FreePrevious(r)
  BY <1>8
     DEF InsertTruck, VehicleCheck, VehicleSave, CheckTruckFree, CheckCodeFree, FindCurrent, FreePrevious
<1>9. CASE EndDrivers(r) \/ EndTrucks(r) \/ DriverSave(r) \/ InUseSave(r) \/ AssignInsert(r) \/ EndNext(r)
           \/ FreeNext(r) \/ RetireOwn(r) \/ ReleaseSave(r) \/ CodeSave(r)
  BY <1>9 DEF EndDrivers, EndTrucks, DriverSave, InUseSave, AssignInsert, EndNext, FreeNext,
              RetireOwn, ReleaseSave, CodeSave
<1>10. CASE ApplyCheck(r) \/ ReviewUser(r) \/ UpgradeSave(r) \/ AccountInsert(r) \/ OwnInsert(r)
            \/ OwnAssign(r)
  BY <1>10 DEF ApplyCheck, ReviewUser, UpgradeSave, AccountInsert, OwnInsert, OwnAssign
<1>11. CASE TruckFind(r) \/ TruckAssign(r) \/ TruckSave(r)
  BY <1>11 DEF TruckFind, TruckAssign, TruckSave
<1> QED
  BY <1>4, <1>6, <1>7, <1>8, <1>9, <1>10, <1>11 DEF Continue

\* A vehicle of a driver's own, once entered, stays; and an approval goes on to
\* its assignment only when it has entered it.
LEMMA VehiclesMove ==
    ASSUME TypeInv, NEW r \in Requests, Continue(r)
    PROVE  /\ vehicle' \in [Vehicles -> VehicleDoc]
           /\ \A p \in People : vehicle[p].status # "ABSENT" => vehicle'[p].status # "ABSENT"
           /\ req[r].step = "ownInsert" =>
                \/ req'[r] = Idle
                \/ vehicle[req[r].p].status = "ABSENT" /\ vehicle'[req[r].p].status # "ABSENT"
<1>1. req \in [Requests -> RequestState] /\ req[r] \in RequestState /\ SlotFit(req[r])
  BY DEF TypeInv, TypeOK
<1>2. vehicle \in [Vehicles -> VehicleDoc] /\ People \subseteq Vehicles /\ Trucks \subseteq Vehicles
  BY DEF TypeInv, TypeOK, Vehicles
<1> DEFINE q == req[r]
<1>3. q.seen \in [Vehicles -> VehicleDoc] /\ q.new \in VehicleDoc
  BY <1>1 DEF RequestState
<1>4. CASE UNCHANGED vehicle /\ q.step # "ownInsert"
  BY <1>2, <1>4
\* What is written at an index that is not a vehicle does not matter.
<1>5. ASSUME NEW v, NEW doc, vehicle' = [vehicle EXCEPT ![v] = doc],
             v \in Vehicles => doc \in VehicleDoc,
             v \in People => vehicle[v].status = "ABSENT" \/ doc.status # "ABSENT"
      PROVE  /\ vehicle' \in [Vehicles -> VehicleDoc]
             /\ \A p \in People : vehicle[p].status # "ABSENT" => vehicle'[p].status # "ABSENT"
  BY <1>2, <1>5
<1>6. CASE InsertTruck(r)
  <2>1. /\ q.step = "truckInsert"
        /\ vehicle' = [vehicle EXCEPT ![q.v] = IF vehicle[q.v].status = "ABSENT" THEN q.new ELSE vehicle[q.v]]
    BY <1>6 DEF InsertTruck
  <2>2. q.op = "add"
    BY <1>1, <2>1, CallOf
  <2>3. q.v \in Trucks
    BY <1>1, <2>2 DEF SlotFit
  <2> DEFINE doc == IF vehicle[q.v].status = "ABSENT" THEN q.new ELSE vehicle[q.v]
  <2>4. doc \in VehicleDoc /\ q.v \notin People
    BY <1>2, <1>3, <2>3, NoneIs
  <2> HIDE DEF doc
  <2> QED BY <1>5, <2>1, <2>4 DEF doc
<1>7. CASE VehicleSave(r)
  <2>1. q.step = "vehicleSave" /\ vehicle' = [vehicle EXCEPT ![q.v] = Saved(vehicle[q.v], q.seen[q.v], q.new)]
    BY <1>7 DEF VehicleSave
  <2>2. q.op \in {"update", "retire", "activate"}
    BY <1>1, <2>1, CallOf
  <2>3. q.v \in Trucks
    BY <1>1, <2>2 DEF SlotFit
  <2>4. Saved(vehicle[q.v], q.seen[q.v], q.new) \in VehicleDoc /\ q.v \notin People
    BY <1>2, <1>3, <2>3, SavedType, NoneIs
  <2> QED BY <1>5, <2>1, <2>4
<1>8. ASSUME NEW v, NEW status \in {"AVAILABLE", "IN_USE"}, SaveStatus(r, v, status)
      PROVE  /\ vehicle' \in [Vehicles -> VehicleDoc]
             /\ \A p \in People : vehicle[p].status # "ABSENT" => vehicle'[p].status # "ABSENT"
  <2> DEFINE s == Written(vehicle[v].status, q.seen[v].status, status)
             doc == [vehicle[v] EXCEPT !.status = s]
  <2>1. vehicle' = [vehicle EXCEPT ![v] = doc]
    BY <1>8 DEF SaveStatus
  <2>2. s = vehicle[v].status \/ s = status
    BY DEF Written
  <2> HIDE DEF s
  <2>3. ASSUME v \in Vehicles PROVE doc \in VehicleDoc /\ doc.status = s
    BY <1>2, <2>2, <2>3 DEF VehicleDoc, VehicleStatus
  <2>4. ASSUME v \in People PROVE vehicle[v].status = "ABSENT" \/ doc.status # "ABSENT"
    BY <1>2, <2>2, <2>3, <2>4
  <2> HIDE DEF doc
  <2> QED BY <1>5, <2>1, <2>3, <2>4
<1>9. CASE FreePrevious(r)
  <2>1. q.step = "freePrevious"
    BY <1>9 DEF FreePrevious
  <2>2. CASE UNCHANGED vehicle
    BY <1>4, <2>1, <2>2
  <2>3. CASE \E i \in q.todo : SaveStatus(r, assignment[i].vehicleId, "AVAILABLE")
    BY <1>8, <2>1, <2>3
  <2> QED BY <1>9, <2>2, <2>3 DEF FreePrevious
<1>10. CASE InUseSave(r)
  BY <1>8, <1>10 DEF InUseSave
<1>11. CASE TruckSave(r)
  BY <1>8, <1>11 DEF TruckSave
<1>12. CASE FreeNext(r)
  <2> DEFINE v == assignment[q.now].vehicleId
             seen == q.seen[v]
             new == Released(q.op, v, seen)
             doc == Saved(vehicle[v], seen, new)
  <2>1. q.step = "freeNext" /\ vehicle' = [vehicle EXCEPT ![v] = doc]
    BY <1>12 DEF FreeNext
  <2>2. /\ seen \in VehicleDoc => new \in VehicleDoc
        /\ seen \in VehicleDoc => new.status \in {"INACTIVE", "AVAILABLE", seen.status}
    BY DEF Released, Retired, VehicleDoc, VehicleStatus
  <2> HIDE DEF v, new
  <2>3. ASSUME v \in Vehicles
        PROVE  doc \in VehicleDoc /\ doc.status \in {"INACTIVE", "AVAILABLE", vehicle[v].status}
    <3>1. seen \in VehicleDoc /\ vehicle[v] \in VehicleDoc
      BY <1>2, <1>3, <2>3
    <3>2. doc \in VehicleDoc
      BY <2>2, <3>1, SavedType
    <3>3. doc.status = Written(vehicle[v].status, seen.status, new.status)
      BY <3>1, SavedFields
    <3> QED BY <2>2, <3>1, <3>2, <3>3 DEF Written
  <2> HIDE DEF doc
  <2>4. v \in People => vehicle[v].status = "ABSENT" \/ doc.status # "ABSENT"
    BY <1>2, <2>3
  <2>5. vehicle' = [vehicle EXCEPT ![v] = doc]
    BY <2>1
  <2> QED BY <1>5, <2>1, <2>3, <2>4, <2>5
<1>13. CASE RetireOwn(r)
  <2> DEFINE doc == IF vehicle[q.p].isActive THEN Retired(vehicle[q.p]) ELSE vehicle[q.p]
  <2>1. q.step = "retireOwn" /\ vehicle' = [vehicle EXCEPT ![q.p] = doc]
    BY <1>13 DEF RetireOwn
  <2>2. ASSUME q.p \in Vehicles
        PROVE  doc \in VehicleDoc /\ doc.status \in {"INACTIVE", vehicle[q.p].status}
    BY <1>2, <2>2 DEF Retired, VehicleDoc, VehicleStatus
  <2> HIDE DEF doc
  <2>3. q.p \in People => vehicle[q.p].status = "ABSENT" \/ doc.status # "ABSENT"
    BY <1>2, <2>2
  <2> QED BY <1>5, <2>1, <2>2, <2>3
<1>14. CASE OwnInsert(r)
  <2>1. q.step = "ownInsert"
    BY <1>14 DEF OwnInsert
  <2>2. q.op = "approve"
    BY <1>1, <2>1, CallOf
  <2>3. q.p \in People /\ q.form.own # "NONE" /\ q.form \in ApplicationDoc
    BY <1>1, <2>1, <2>2 DEF SlotFit, RequestState
  <2>4. CASE Finish(r) /\ UNCHANGED vehicle
    <3>1. req'[r] = Idle
      BY <1>1, <2>4 DEF Finish
    <3> QED BY <1>2, <2>4, <3>1
  <2>5. CASE /\ vehicle[q.p].status = "ABSENT"
             /\ vehicle' = [vehicle EXCEPT ![q.p] = NewVehicle("AVAILABLE", q.form.own, TRUE)]
    <3> DEFINE doc == NewVehicle("AVAILABLE", q.form.own, TRUE)
    <3>1. doc \in VehicleDoc /\ doc.status = "AVAILABLE"
      BY <2>3 DEF NewVehicle, VehicleDoc, VehicleStatus, ApplicationDoc
    <3>2. vehicle' = [vehicle EXCEPT ![q.p] = doc]
      BY <2>5
    <3> HIDE DEF doc
    <3>3. vehicle'[q.p].status # "ABSENT"
      BY <1>2, <2>3, <3>1, <3>2
    <3>4. /\ vehicle' \in [Vehicles -> VehicleDoc]
          /\ \A p \in People : vehicle[p].status # "ABSENT" => vehicle'[p].status # "ABSENT"
      <4>1. doc \in VehicleDoc /\ doc.status # "ABSENT"
        BY <3>1
      <4> QED BY <1>5, <3>2, <4>1
    <3>5. vehicle[q.p].status = "ABSENT"
      BY <2>5
    <3> QED BY <3>3, <3>4, <3>5
  <2> QED BY <1>14, <2>4, <2>5 DEF OwnInsert
<1>15. CASE VehicleCheck(r) \/ CheckTruckFree(r) \/ CheckCodeFree(r) \/ FindCurrent(r) \/ EndDrivers(r)
            \/ EndTrucks(r) \/ DriverSave(r)
  BY <1>4, <1>15
     DEF VehicleCheck, CheckTruckFree, CheckCodeFree, FindCurrent, EndDrivers, EndTrucks, DriverSave
<1>16. CASE AssignInsert(r) \/ EndNext(r) \/ ReleaseSave(r) \/ CodeSave(r) \/ ApplyCheck(r) \/ ApplyInsert(r)
  BY <1>4, <1>16 DEF AssignInsert, EndNext, ReleaseSave, CodeSave, ApplyCheck, ApplyInsert
<1>17. CASE ReviewUser(r) \/ UpgradeSave(r) \/ AccountInsert(r) \/ OwnAssign(r) \/ TruckFind(r)
            \/ TruckAssign(r) \/ ApproveSave(r) \/ RejectSave(r)
  BY <1>4, <1>17
     DEF ReviewUser, UpgradeSave, AccountInsert, OwnAssign, TruckFind, TruckAssign, ApproveSave, RejectSave
<1> QED
  BY <1>6, <1>7, <1>9, <1>10, <1>11, <1>12, <1>13, <1>14, <1>15, <1>16, <1>17 DEF Continue

-----------------------------------------------------------------------------
(* The invariant                                                              *)

\* Assignment i ties p to the vehicle of their own.
OwnAt(i, p) == assignment[i].driverId = p /\ assignment[i].vehicleId = p

\* The unique code of a driver's vehicle lets one approval at a time stand
\* between entering the vehicle and assigning it, and none after an assignment.
OwnInv ==
    /\ \A p \in People : \A i, j \in DOMAIN assignment : OwnAt(i, p) /\ OwnAt(j, p) => i = j
    /\ \A p \in People : \A i \in DOMAIN assignment : OwnAt(i, p) => vehicle[p].status # "ABSENT"
    /\ \A r \in Requests : req[r].step = "ownAssign" =>
        /\ vehicle[req[r].p].status # "ABSENT"
        /\ \A i \in DOMAIN assignment : ~OwnAt(i, req[r].p)
        /\ \A s \in Requests : req[s].step = "ownAssign" /\ req[s].p = req[r].p => s = r

\* The application that a handler will insert is not there yet, and no other
\* handler inserts it; the one that a handler reviews is, and keeps its person
\* and vehicle.
FormInv ==
    /\ \A r \in Requests : req[r].op = "apply" =>
        /\ application[req[r].a].status = "ABSENT"
        /\ \A s \in Requests : req[s].op = "apply" /\ req[s].a = req[r].a => s = r
    /\ \A r \in Requests : req[r].op \in {"approve", "reject"} =>
        /\ application[req[r].a].status # "ABSENT"
        /\ application[req[r].a].person = req[r].p
        /\ application[req[r].a].own = req[r].form.own

\* An approval past the account has its driver, and one about to be saved has
\* assigned the driver's own vehicle, if that is what they applied with.
StaffInv ==
    /\ \A r \in Requests : req[r].step \in Staffed => user[req[r].p].role = "DRIVER"
    /\ \A r \in Requests : req[r].step = "approveSave" /\ req[r].form.own # "NONE" =>
        \E i \in DOMAIN assignment : OwnAt(i, req[r].p)

Inv == TypeInv /\ OwnInv /\ FormInv /\ StaffInv /\ ApprovedIsComplete

LEMMA InitInv == Init => Inv
<1> SUFFICES ASSUME Init PROVE Inv
  OBVIOUS
<1>1. ASSUME NEW p \in People
      PROVE  Account(IF p \in Customers THEN "CUSTOMER" ELSE "ABSENT") \in UserDoc
  BY DEF Account, UserDoc
<1>2. user \in [People -> UserDoc]
  BY <1>1 DEF Init
<1>3. NoVehicle \in VehicleDoc /\ NoApplication \in ApplicationDoc /\ NoApplication.status = "ABSENT"
  BY DEF NoVehicle, VehicleDoc, NoApplication, ApplicationDoc
<1>4. assignment = <<>> /\ assignment \in Seq(AssignmentDoc) /\ Len(assignment) = 0 /\ DOMAIN assignment = {}
  BY DEF Init
<1>5. \A r \in Requests : req[r] = Idle
  BY DEF Init
<1>6. req \in [Requests -> RequestState] /\ \A r \in Requests : SlotFit(req[r])
  BY <1>5, IdleIs DEF Init
<1>7. Owing = {}
  BY <1>5, IdleIs DEF Owing
<1>8. Cardinality(Owing) = 0
  BY <1>7, FS_EmptySet
<1>9. \A a \in Applications : application[a] = NoApplication
  BY DEF Init
<1>10. vehicle \in [Vehicles -> VehicleDoc] /\ application \in [Applications -> ApplicationDoc]
  BY <1>3 DEF Init
<1>11. disturbed \in 0..MaxDisturbances /\ Len(assignment) <= MaxAssignments
  BY <1>4, FleetAssumption DEF Init
<1>12. TypeOK /\ entered = {}
  BY <1>2, <1>4, <1>6, <1>10, <1>11 DEF TypeOK, Init
<1>13. Len(assignment) + Cardinality(Owing) <= MaxAssignments
  BY <1>4, <1>8, NoneIs
<1>14. \A a \in Applications : DocFit(application[a])
  BY <1>3, <1>9 DEF DocFit
<1>15. OwnInv
  BY <1>4, <1>5, IdleIs DEF OwnInv
<1>16. FormInv
  BY <1>5, IdleIs DEF FormInv
<1>17. StaffInv
  BY <1>5, IdleIs DEF StaffInv, Staffed
<1>18. ApprovedIsComplete
  BY <1>3, <1>9 DEF ApprovedIsComplete
<1> QED BY <1>6, <1>12, <1>13, <1>14, <1>15, <1>16, <1>17, <1>18 DEF Inv, TypeInv

\* How many handlers owe an assignment when one slot changes.
LEMMA OwingMoves ==
    ASSUME req \in [Requests -> RequestState], NEW r \in Requests, NEW slot,
           req' = [req EXCEPT ![r] = slot]
    PROVE  /\ Cardinality(Owing) \in Nat /\ Cardinality(Owing') \in Nat
           /\ (OwesOne(slot) => OwesOne(req[r])) => Cardinality(Owing') <= Cardinality(Owing)
           /\ Cardinality(Owing') <= Cardinality(Owing) + 1
           /\ OwesOne(req[r]) /\ ~OwesOne(slot) => Cardinality(Owing') = Cardinality(Owing) - 1
<1>1. \A s \in Requests : req'[s] = IF s = r THEN slot ELSE req[s]
  OBVIOUS
<1>2. Owing' = {s \in Requests : OwesOne(req'[s])}
  BY DEF Owing, OwesOne
<1>3. /\ Owing \in SUBSET Requests /\ Owing' \in SUBSET Requests
      /\ Owing' \in SUBSET (Owing \cup {r})
      /\ (OwesOne(slot) => OwesOne(req[r])) => Owing' \in SUBSET Owing
      /\ OwesOne(req[r]) /\ ~OwesOne(slot) => Owing' = Owing \ {r} /\ r \in Owing
  BY <1>1, <1>2 DEF Owing
<1>4. IsFiniteSet(Owing) /\ IsFiniteSet(Owing') /\ IsFiniteSet(Owing \cup {r})
  BY <1>3, NoneIs, FS_Subset, FS_AddElement
<1>5. Cardinality(Owing) \in Nat /\ Cardinality(Owing') \in Nat
  BY <1>4, FS_CardinalityType
<1>6. (OwesOne(slot) => OwesOne(req[r])) => Cardinality(Owing') <= Cardinality(Owing)
  BY <1>3, <1>4, FS_Subset
<1>7. Cardinality(Owing') <= Cardinality(Owing \cup {r})
  BY <1>3, <1>4, FS_Subset
<1>8. Cardinality(Owing \cup {r}) = Cardinality(Owing) \/ Cardinality(Owing \cup {r}) = Cardinality(Owing) + 1
  BY <1>4, FS_AddElement
<1>9. Cardinality(Owing') <= Cardinality(Owing) + 1
  BY <1>5, <1>7, <1>8
<1>10. r \in Owing => Cardinality(Owing \ {r}) = Cardinality(Owing) - 1
  BY <1>4, FS_RemoveElement
<1>11. OwesOne(req[r]) /\ ~OwesOne(slot) => Cardinality(Owing') = Cardinality(Owing) - 1
  BY <1>3, <1>10
<1> QED BY <1>5, <1>6, <1>9, <1>11

-----------------------------------------------------------------------------
(* Every step keeps it                                                        *)

LEMMA CrashKeeps ==
    ASSUME Inv, Crash, KeepEntered
    PROVE  Inv'
<1>1. /\ req' = [r \in Requests |-> Idle] /\ disturbed' = disturbed + 1 /\ disturbed' <= MaxDisturbances
      /\ UNCHANGED <<user, vehicle, assignment, application>>
  BY DEF Crash, Disturb
<1>2. \A r \in Requests : req'[r] = Idle
  BY <1>1
<1>3. req' \in [Requests -> RequestState] /\ \A r \in Requests : SlotFit(req'[r])
  BY <1>1, IdleIs
<1>4. Owing' = {}
  BY <1>2, IdleIs DEF Owing
<1>5. Cardinality(Owing') = 0
  BY <1>4, FS_EmptySet
<1>6. req \in [Requests -> RequestState] /\ IsFiniteSet(Owing)
  BY NoneIs, FS_Subset DEF Inv, TypeInv, TypeOK, Owing
<1>7. Cardinality(Owing) \in Nat /\ Len(assignment) \in Nat
  BY <1>6, FS_CardinalityType DEF Inv, TypeInv, TypeOK
<1>8. Len(assignment') + Cardinality(Owing') <= MaxAssignments
  BY <1>1, <1>5, <1>7, NoneIs DEF Inv, TypeInv, TypeOK
<1>9. disturbed' \in 0..MaxDisturbances
  BY <1>1, FleetAssumption DEF Inv, TypeInv, TypeOK
<1>10. TypeOK' /\ \A t \in entered' : vehicle'[t].status = "IN_USE"
  BY <1>1, <1>3, <1>9 DEF Inv, TypeInv, TypeOK, KeepEntered
<1>11. (\A a \in Applications : DocFit(application[a]))'
  BY <1>1 DEF Inv, TypeInv, DocFit
<1>12. TypeInv'
  BY <1>3, <1>8, <1>10, <1>11 DEF TypeInv
<1>13. OwnInv'
  BY <1>1, <1>2, IdleIs DEF Inv, OwnInv, OwnAt
<1>14. FormInv'
  BY <1>2, IdleIs DEF FormInv
<1>15. StaffInv'
  BY <1>2, IdleIs DEF StaffInv, Staffed
<1>16. ApprovedIsComplete'
  BY <1>1 DEF Inv, ApprovedIsComplete
<1> QED BY <1>12, <1>13, <1>14, <1>15, <1>16 DEF Inv

LEMMA BeginKeeps ==
    ASSUME Inv, NEW r \in Requests, NEW slot, Begun(r, slot), KeepEntered
    PROVE  Inv'
<1>1. TypeInv /\ req \in [Requests -> RequestState]
  BY DEF Inv, TypeInv, TypeOK
<1>2. /\ req' = [req EXCEPT ![r] = slot] /\ Disturb(~Quiet)
      /\ UNCHANGED <<user, vehicle, assignment, application>>
      /\ slot \in RequestState /\ SlotFit(slot)
      /\ OwesOne(slot) => RoomForAssignment
  BY DEF Begun, Start
<1>3. \A s \in Requests : req'[s] = IF s = r THEN slot ELSE req[s]
  BY <1>1, <1>2
<1>4. req' \in [Requests -> RequestState] /\ \A s \in Requests : SlotFit(req'[s])
  BY <1>1, <1>2, <1>3 DEF TypeInv
<1>5. disturbed' \in 0..MaxDisturbances
  <2>1. disturbed \in Nat /\ MaxDisturbances \in Nat
    BY <1>1, FleetAssumption DEF TypeInv, TypeOK
  <2>2. (disturbed' = disturbed + 1 \/ disturbed' = disturbed + 0) /\ disturbed' <= MaxDisturbances
    BY <1>2 DEF Disturb
  <2> QED BY <2>1, <2>2
<1>6. Len(assignment') + Cardinality(Owing') <= MaxAssignments
  <2>1. Len(assignment) \in Nat /\ Len(assignment) + Cardinality(Owing) <= MaxAssignments
    BY <1>1 DEF TypeInv, TypeOK
  <2>2. /\ Cardinality(Owing) \in Nat /\ Cardinality(Owing') \in Nat
        /\ ~OwesOne(slot) => Cardinality(Owing') <= Cardinality(Owing)
        /\ Cardinality(Owing') <= Cardinality(Owing) + 1
    BY <1>1, <1>2, OwingMoves
  <2>3. Owing \in SUBSET Planned /\ Planned \in SUBSET Requests
    BY DEF Owing, OwesOne, Planned
  <2>4. Cardinality(Owing) <= Cardinality(Planned) /\ Cardinality(Planned) \in Nat
    BY <2>3, NoneIs, FS_Subset, FS_CardinalityType
  <2>5. CASE OwesOne(slot)
    <3>1. Len(assignment) + Cardinality(Planned) < MaxAssignments
      BY <1>2, <2>5 DEF RoomForAssignment
    <3> QED BY <1>2, <2>1, <2>2, <2>4, <3>1, NoneIs
  <2>6. CASE ~OwesOne(slot)
    BY <1>2, <2>1, <2>2, <2>6, NoneIs
  <2> QED BY <2>5, <2>6
<1>7. TypeOK' /\ \A t \in entered' : vehicle'[t].status = "IN_USE"
  BY <1>1, <1>2, <1>4, <1>5 DEF TypeInv, TypeOK, KeepEntered
<1>8. (\A a \in Applications : DocFit(application[a]))'
  BY <1>1, <1>2 DEF TypeInv, DocFit
<1>9. TypeInv'
  BY <1>4, <1>6, <1>7, <1>8 DEF TypeInv
<1>10. slot.step \notin Staffed
  BY DEF Begun
<1>11. OwnInv'
  <2>1. \A s \in Requests : req'[s].step = "ownAssign" => req'[s] = req[s]
    BY <1>3, <1>10 DEF Staffed
  <2> QED BY <1>2, <2>1 DEF Inv, OwnInv, OwnAt
<1>12. FormInv'
  <2>1. FormInv
    BY DEF Inv
  <2>2. /\ slot.op = "apply" => application[slot.a].status = "ABSENT"
                                /\ \A other \in Requests : req[other].a # slot.a
        /\ slot.op \in {"approve", "reject"} => /\ application[slot.a].status = "PENDING"
                                                /\ slot.form = application[slot.a]
                                                /\ slot.form.person = slot.p
    BY <1>2 DEF Begun, SlotFit
  <2>3. application' = application
    BY <1>2
  <2>4. ASSUME NEW s \in Requests, req'[s].op = "apply"
        PROVE  /\ application'[req'[s].a].status = "ABSENT"
               /\ \A other \in Requests : req'[other].op = "apply" /\ req'[other].a = req'[s].a => other = s
    BY <1>3, <2>1, <2>2, <2>3, <2>4 DEF FormInv
  <2>5. ASSUME NEW s \in Requests, req'[s].op \in {"approve", "reject"}
        PROVE  /\ application'[req'[s].a].status # "ABSENT"
               /\ application'[req'[s].a].person = req'[s].p
               /\ application'[req'[s].a].own = req'[s].form.own
    BY <1>3, <2>1, <2>2, <2>3, <2>5 DEF FormInv
  <2> QED BY <2>4, <2>5 DEF FormInv
<1>13. StaffInv'
  <2>1. \A s \in Requests : req'[s].step \in Staffed => req'[s] = req[s]
    BY <1>3, <1>10
  <2>2. \A s \in Requests : req'[s].step = "approveSave" => req'[s] = req[s]
    BY <2>1 DEF Staffed
  <2> QED BY <1>2, <2>1, <2>2 DEF Inv, StaffInv, OwnAt
<1>14. ApprovedIsComplete'
  BY <1>2 DEF Inv, ApprovedIsComplete
<1> QED BY <1>9, <1>11, <1>12, <1>13, <1>14 DEF Inv

\* A step within a call, by what it does to each collection.
LEMMA ContinueKeepsType ==
    ASSUME Inv, NEW r \in Requests, Continue(r), UNCHANGED disturbed, KeepEntered
    PROVE  TypeInv'
<1>1. TypeInv /\ FormInv /\ req \in [Requests -> RequestState]
  BY DEF Inv, TypeInv, TypeOK
<1>2. PICK slot : Moved(r, slot)
  BY <1>1, ContinueMoves DEF Moves
<1>3. /\ req' = [req EXCEPT ![r] = slot] /\ slot \in RequestState /\ SlotFit(slot)
      /\ OwesOne(slot) => OwesOne(req[r])
  BY <1>2 DEF Moved
<1>4. \A s \in Requests : req'[s] = IF s = r THEN slot ELSE req[s]
  BY <1>1, <1>3
<1>5. req' \in [Requests -> RequestState] /\ \A s \in Requests : SlotFit(req'[s])
  BY <1>1, <1>3, <1>4 DEF TypeInv
<1>6. user' \in [People -> UserDoc] /\ vehicle' \in [Vehicles -> VehicleDoc]
  BY <1>1, UsersMove, VehiclesMove
<1>7. /\ Cardinality(Owing) \in Nat /\ Cardinality(Owing') \in Nat
      /\ Cardinality(Owing') <= Cardinality(Owing)
      /\ OwesOne(req[r]) /\ ~OwesOne(slot) => Cardinality(Owing') = Cardinality(Owing) - 1
  BY <1>1, <1>3, OwingMoves
<1>8. /\ assignment \in Seq(AssignmentDoc) /\ Len(assignment) \in Nat
      /\ Len(assignment) + Cardinality(Owing) <= MaxAssignments
  BY <1>1 DEF TypeInv, TypeOK
<1>9. /\ assignment' \in Seq(AssignmentDoc) /\ Len(assignment') \in Nat
      /\ Len(assignment') + Cardinality(Owing') <= MaxAssignments
  <2>1. CASE Kept
    <3>1. assignment' \in Seq(AssignmentDoc) /\ Len(assignment') = Len(assignment)
      BY <2>1 DEF Kept
    <3> QED BY <1>7, <1>8, <3>1, NoneIs
  <2>2. CASE \E doc : Made(r, doc)
    <3>1. PICK doc : Made(r, doc)
      BY <2>2
    <3>2. doc \in AssignmentDoc /\ assignment' = Append(assignment, doc)
      BY <3>1 DEF Made
    <3>3. OwesOne(req[r]) /\ ~OwesOne(slot)
      BY <1>4, <3>1 DEF Made
    <3>4. assignment' \in Seq(AssignmentDoc) /\ Len(assignment') = Len(assignment) + 1
      BY <1>8, <3>2
    <3> QED BY <1>7, <1>8, <3>3, <3>4, NoneIs
  <2> QED BY <1>1, <2>1, <2>2, AssignmentsMove
<1>10. Len(assignment') <= MaxAssignments
  BY <1>7, <1>9, NoneIs
<1>11. application' \in [Applications -> ApplicationDoc] /\ \A a \in Applications : DocFit(application'[a])
  <2>1. application \in [Applications -> ApplicationDoc] /\ \A a \in Applications : DocFit(application[a])
    BY <1>1 DEF TypeInv, TypeOK
  <2>2. UNCHANGED application \/ \E doc : Decided(r, doc)
    BY <1>1, ApplicationsMove DEF FormInv
  <2> QED BY <2>1, <2>2 DEF Decided
<1>12. disturbed' \in 0..MaxDisturbances
  BY <1>1 DEF TypeInv, TypeOK
<1>13. TypeOK' /\ \A t \in entered' : vehicle'[t].status = "IN_USE"
  BY <1>5, <1>6, <1>9, <1>10, <1>11, <1>12 DEF TypeOK, KeepEntered
<1> QED BY <1>5, <1>9, <1>11, <1>13 DEF TypeInv

\* An assignment stays whose it is.
LEMMA OwnStays ==
    ASSUME TypeInv, NEW r \in Requests, Continue(r)
    PROVE  /\ DOMAIN assignment \in SUBSET (DOMAIN assignment')
           /\ \A i \in DOMAIN assignment : \A p \in People : OwnAt(i, p)' <=> OwnAt(i, p)
           /\ \A i \in DOMAIN assignment' : \A p \in People : OwnAt(i, p)' =>
                \/ i \in DOMAIN assignment
                \/ i = Len(assignment) + 1 /\ req[r].step = "ownAssign" /\ p = req[r].p
           /\ \A p \in People : req[r].step = "ownAssign" /\ p = req[r].p =>
                \E i \in DOMAIN assignment' : OwnAt(i, p)'
<1>1. assignment \in Seq(AssignmentDoc) /\ DOMAIN assignment = 1..Len(assignment) /\ Len(assignment) \in Nat
  BY DEF TypeInv, TypeOK
<1>2. CASE Kept /\ req[r].step # "ownAssign"
  BY <1>2 DEF Kept, OwnAt
<1>3. CASE \E doc : Made(r, doc)
  <2>1. PICK doc : Made(r, doc)
    BY <1>3
  <2>2. /\ assignment' = Append(assignment, doc) /\ doc \in AssignmentDoc /\ doc.driverId = req[r].p
        /\ IF req[r].step = "ownAssign" THEN doc.vehicleId = req[r].p ELSE doc.vehicleId \in Trucks
    BY <2>1 DEF Made
  <2>3. /\ DOMAIN assignment' = 1..(Len(assignment) + 1)
        /\ \A i \in 1..Len(assignment) : assignment'[i] = assignment[i]
        /\ assignment'[Len(assignment) + 1] = doc
    BY <1>1, <2>2
  <2>4. DOMAIN assignment \in SUBSET (DOMAIN assignment') /\ Len(assignment) + 1 \in DOMAIN assignment'
    BY <1>1, <2>3
  <2>5. \A i \in DOMAIN assignment : \A p \in People : OwnAt(i, p)' <=> OwnAt(i, p)
    BY <1>1, <2>3 DEF OwnAt
  <2>6. \A i \in DOMAIN assignment' : i \in DOMAIN assignment \/ i = Len(assignment) + 1
    BY <1>1, <2>3
  <2>7. ASSUME NEW p \in People, doc.driverId = p, doc.vehicleId = p
        PROVE  req[r].step = "ownAssign" /\ p = req[r].p
    BY <2>2, <2>7, NoneIs
  <2>8. \A i \in DOMAIN assignment' : \A p \in People : OwnAt(i, p)' =>
                \/ i \in DOMAIN assignment
                \/ i = Len(assignment) + 1 /\ req[r].step = "ownAssign" /\ p = req[r].p
    BY <2>3, <2>6, <2>7 DEF OwnAt
  <2>9. ASSUME NEW p \in People, req[r].step = "ownAssign", p = req[r].p
        PROVE  \E i \in DOMAIN assignment' : OwnAt(i, p)'
    <3>1. doc.driverId = p /\ doc.vehicleId = p
      BY <2>2, <2>9
    <3> QED BY <2>3, <2>4, <3>1 DEF OwnAt
  <2> QED BY <2>4, <2>5, <2>8, <2>9
<1> QED BY <1>2, <1>3, AssignmentsMove

LEMMA ContinueKeepsOwn ==
    ASSUME Inv, NEW r \in Requests, Continue(r)
    PROVE  OwnInv'
<1>1. TypeInv /\ OwnInv /\ req \in [Requests -> RequestState] /\ SlotFit(req[r]) /\ req[r] \in RequestState
  BY DEF Inv, TypeInv, TypeOK
<1>2. PICK slot : Moved(r, slot)
  BY <1>1, ContinueMoves DEF Moves
<1>3. \A s \in Requests : req'[s] = IF s = r THEN slot ELSE req[s]
  BY <1>1, <1>2 DEF Moved
<1>4. /\ DOMAIN assignment \in SUBSET (DOMAIN assignment')
      /\ \A i \in DOMAIN assignment : \A p \in People : OwnAt(i, p)' <=> OwnAt(i, p)
      /\ \A i \in DOMAIN assignment' : \A p \in People : OwnAt(i, p)' =>
           \/ i \in DOMAIN assignment
           \/ i = Len(assignment) + 1 /\ req[r].step = "ownAssign" /\ p = req[r].p
  BY <1>1, OwnStays
<1>5. /\ \A p \in People : vehicle[p].status # "ABSENT" => vehicle'[p].status # "ABSENT"
      /\ req[r].step = "ownInsert" =>
           \/ req'[r] = Idle
           \/ vehicle[req[r].p].status = "ABSENT" /\ vehicle'[req[r].p].status # "ABSENT"
  BY <1>1, VehiclesMove
<1>6. /\ \A p \in People : \A i, j \in DOMAIN assignment : OwnAt(i, p) /\ OwnAt(j, p) => i = j
      /\ \A p \in People : \A i \in DOMAIN assignment : OwnAt(i, p) => vehicle[p].status # "ABSENT"
      /\ \A s \in Requests : req[s].step = "ownAssign" =>
            /\ vehicle[req[s].p].status # "ABSENT"
            /\ \A i \in DOMAIN assignment : ~OwnAt(i, req[s].p)
            /\ \A u \in Requests : req[u].step = "ownAssign" /\ req[u].p = req[s].p => u = s
  BY <1>1 DEF OwnInv
<1>7. ASSUME NEW p \in People, NEW i \in DOMAIN assignment', NEW j \in DOMAIN assignment',
             OwnAt(i, p)', OwnAt(j, p)'
      PROVE  i = j
  <2>1. CASE i \in DOMAIN assignment /\ j \in DOMAIN assignment
    <3>1. OwnAt(i, p) /\ OwnAt(j, p)
      BY <1>4, <1>7, <2>1
    <3> QED BY <1>6, <2>1, <3>1
  <2>2. CASE req[r].step = "ownAssign" /\ p = req[r].p
    <3>1. \A k \in DOMAIN assignment : ~OwnAt(k, p)
      BY <1>6, <2>2
    <3>2. \A k \in DOMAIN assignment' : OwnAt(k, p)' => k = Len(assignment) + 1
      BY <1>4, <3>1
    <3> QED BY <1>7, <3>2
  <2> QED BY <1>4, <1>7, <2>1, <2>2
<1>8. ASSUME NEW p \in People, NEW i \in DOMAIN assignment', OwnAt(i, p)'
      PROVE  vehicle'[p].status # "ABSENT"
  <2>1. CASE i \in DOMAIN assignment
    BY <1>4, <1>5, <1>6, <1>8, <2>1
  <2>2. CASE req[r].step = "ownAssign" /\ p = req[r].p
    BY <1>5, <1>6, <2>2
  <2> QED BY <1>4, <1>8, <2>1, <2>2
\* Only what the guard of OwnInsert finds missing comes to be assigned.
<1>9. slot.step = "ownAssign" =>
        /\ req[r].step = "ownInsert" /\ slot.p = req[r].p
        /\ vehicle[slot.p].status = "ABSENT" /\ vehicle'[slot.p].status # "ABSENT"
  <2>1. slot.step = "ownAssign" => slot # Idle
    BY IdleIs
  <2>2. slot.step = "ownAssign" => req[r].step = "ownInsert" /\ slot.p = req[r].p
    BY <1>2, <2>1 DEF Moved, Leads, SameCall
  <2> QED BY <1>3, <1>5, <2>1, <2>2
<1>10. ASSUME NEW s \in Requests, req'[s].step = "ownAssign", NEW p, p = req'[s].p
       PROVE  /\ vehicle'[p].status # "ABSENT"
              /\ \A i \in DOMAIN assignment' : ~OwnAt(i, p)'
              /\ \A u \in Requests : req'[u].step = "ownAssign" /\ req'[u].p = p => u = s
  <2>1. p \in People
    <3>1. req'[s] \in RequestState /\ SlotFit(req'[s])
      BY <1>1, <1>2, <1>3 DEF Moved, TypeInv
    <3>2. req'[s].op = "approve"
      BY <1>10, <3>1, CallOf
    <3> QED BY <1>10, <3>1, <3>2 DEF SlotFit
  <2>2. CASE s = r
    <3>1. slot.step = "ownAssign" /\ slot.p = p
      BY <1>3, <1>10, <2>2
    <3>2. req[r].step = "ownInsert" /\ vehicle[p].status = "ABSENT" /\ vehicle'[p].status # "ABSENT"
      BY <1>9, <3>1
    <3>3. \A i \in DOMAIN assignment : ~OwnAt(i, p)
      BY <1>6, <2>1, <3>2
    <3>4. \A i \in DOMAIN assignment' : ~OwnAt(i, p)'
      BY <1>4, <2>1, <3>2, <3>3
    <3>5. \A u \in Requests : req'[u].step = "ownAssign" /\ req'[u].p = p => u = s
      BY <1>3, <1>6, <2>2, <3>2
    <3> QED BY <3>2, <3>4, <3>5
  <2>3. CASE s # r
    <3>1. req[s].step = "ownAssign" /\ req[s].p = p
      BY <1>3, <1>10, <2>3
    <3>2. /\ vehicle[p].status # "ABSENT" /\ \A i \in DOMAIN assignment : ~OwnAt(i, p)
          /\ \A u \in Requests : req[u].step = "ownAssign" /\ req[u].p = p => u = s
      BY <1>6, <3>1
    <3>3. vehicle'[p].status # "ABSENT"
      BY <1>5, <2>1, <3>2
    <3>4. \A i \in DOMAIN assignment' : ~OwnAt(i, p)'
      BY <1>4, <2>1, <2>3, <3>2
    <3>5. \A u \in Requests : req'[u].step = "ownAssign" /\ req'[u].p = p => u = s
      BY <1>3, <1>9, <3>2
    <3> QED BY <3>3, <3>4, <3>5
  <2> QED BY <2>2, <2>3
<1>11. ASSUME NEW s \in Requests, req'[s].step = "ownAssign"
       PROVE  /\ vehicle'[req'[s].p].status # "ABSENT"
              /\ \A i \in DOMAIN assignment' :
                    ~(assignment'[i].driverId = req'[s].p /\ assignment'[i].vehicleId = req'[s].p)
              /\ \A u \in Requests : req'[u].step = "ownAssign" /\ req'[u].p = req'[s].p => u = s
  <2>1. \A p : p = req'[s].p => /\ vehicle'[p].status # "ABSENT"
                                /\ \A i \in DOMAIN assignment' : ~OwnAt(i, p)'
                                /\ \A u \in Requests : req'[u].step = "ownAssign" /\ req'[u].p = p => u = s
    BY <1>10, <1>11
  <2> QED BY <2>1 DEF OwnAt
<1> QED BY <1>7, <1>8, <1>11 DEF OwnInv, OwnAt

LEMMA ContinueKeepsForms ==
    ASSUME Inv, NEW r \in Requests, Continue(r)
    PROVE  FormInv'
<1>1. TypeInv /\ FormInv /\ req \in [Requests -> RequestState] /\ SlotFit(req[r]) /\ req[r] \in RequestState
  BY DEF Inv, TypeInv, TypeOK
<1>2. PICK slot : Moved(r, slot)
  BY <1>1, ContinueMoves DEF Moves
<1>3. \A s \in Requests : req'[s] = IF s = r THEN slot ELSE req[s]
  BY <1>1, <1>2 DEF Moved
<1>4. \A s \in Requests : req'[s].op # "none" =>
        /\ req'[s].op = req[s].op /\ req'[s].a = req[s].a
        /\ req'[s].p = req[s].p /\ req'[s].form = req[s].form
  BY <1>2, <1>3, IdleIs DEF Moved, SameCall
<1>5. CASE UNCHANGED application
  <2>1. ASSUME NEW s \in Requests, req'[s].op = "apply"
        PROVE  /\ application'[req'[s].a].status = "ABSENT"
               /\ \A u \in Requests : req'[u].op = "apply" /\ req'[u].a = req'[s].a => u = s
    BY <1>1, <1>4, <1>5, <2>1 DEF FormInv
  <2>2. ASSUME NEW s \in Requests, req'[s].op \in {"approve", "reject"}
        PROVE  /\ application'[req'[s].a].status # "ABSENT"
               /\ application'[req'[s].a].person = req'[s].p
               /\ application'[req'[s].a].own = req'[s].form.own
    BY <1>1, <1>4, <1>5, <2>2 DEF FormInv
  <2> QED BY <2>1, <2>2 DEF FormInv
<1>6. CASE \E doc : Decided(r, doc)
  <2>1. PICK doc : Decided(r, doc)
    BY <1>6
  <2>2. /\ application \in [Applications -> ApplicationDoc]
        /\ application' = [application EXCEPT ![req[r].a] = doc] /\ req'[r] = Idle
    BY <1>1, <2>1 DEF Decided, TypeInv, TypeOK
  <2>3. \A s \in Requests : req'[s].op # "none" => s # r /\ req'[s] = req[s]
    BY <1>3, <2>2, IdleIs
  <2>4. ASSUME NEW s \in Requests, req'[s].op = "apply"
        PROVE  /\ application'[req'[s].a].status = "ABSENT"
               /\ \A u \in Requests : req'[u].op = "apply" /\ req'[u].a = req'[s].a => u = s
    <3>1. s # r /\ req'[s] = req[s] /\ req[s].op = "apply" /\ application[req[s].a].status = "ABSENT"
      BY <1>1, <2>3, <2>4 DEF FormInv
    <3>2. req[s].a # req[r].a
      BY <1>1, <2>1, <3>1 DEF FormInv, Decided
    <3>3. application'[req[s].a] = application[req[s].a]
      <4>1. SlotFit(req[s])
        BY <1>1 DEF TypeInv
      <4>2. req[s].a \in Applications
        BY <3>1, <4>1 DEF SlotFit
      <4> QED BY <2>2, <3>2, <4>2
    <3>4. \A u \in Requests : req'[u].op = "apply" /\ req'[u].a = req'[s].a => u = s
      BY <1>1, <2>3, <3>1 DEF FormInv
    <3> QED BY <3>1, <3>3, <3>4
  <2>5. ASSUME NEW s \in Requests, req'[s].op \in {"approve", "reject"}
        PROVE  /\ application'[req'[s].a].status # "ABSENT"
               /\ application'[req'[s].a].person = req'[s].p
               /\ application'[req'[s].a].own = req'[s].form.own
    <3>1. s # r /\ req'[s] = req[s] /\ req[s].op \in {"approve", "reject"}
      BY <2>3, <2>5
    <3>2. /\ application[req[s].a].status # "ABSENT"
          /\ application[req[s].a].person = req[s].p
          /\ application[req[s].a].own = req[s].form.own
      BY <1>1, <3>1 DEF FormInv
    <3>3. SlotFit(req[s])
      BY <1>1 DEF TypeInv
    <3>4. req[s].a \in Applications
      BY <3>1, <3>3 DEF SlotFit
    <3>5. CASE req[s].a # req[r].a
      BY <2>2, <3>1, <3>2, <3>4, <3>5
    <3>6. CASE req[s].a = req[r].a
      <4>1. req[r].op # "apply"
        BY <1>1, <3>2, <3>6 DEF FormInv
      <4>2. /\ doc.status # "ABSENT" /\ doc.person = application[req[r].a].person
            /\ doc.own = application[req[r].a].own
        BY <2>1, <4>1 DEF Decided
      <4>3. application'[req[s].a] = doc
        BY <2>2, <3>4, <3>6
      <4> QED BY <3>1, <3>2, <3>6, <4>2, <4>3
    <3> QED BY <3>5, <3>6
  <2> QED BY <2>4, <2>5 DEF FormInv
<1> QED BY <1>1, <1>5, <1>6, ApplicationsMove DEF FormInv

LEMMA ContinueKeepsStaff ==
    ASSUME Inv, NEW r \in Requests, Continue(r)
    PROVE  StaffInv'
<1>1. TypeInv /\ StaffInv /\ req \in [Requests -> RequestState] /\ SlotFit(req[r]) /\ req[r] \in RequestState
  BY DEF Inv, TypeInv, TypeOK
<1>2. PICK slot : Moved(r, slot)
  BY <1>1, ContinueMoves DEF Moves
<1>3. \A s \in Requests : req'[s] = IF s = r THEN slot ELSE req[s]
  BY <1>1, <1>2 DEF Moved
<1>4. /\ \A p \in People : user[p].role = "DRIVER" => user'[p].role = "DRIVER"
      /\ req[r].step \in {"upgradeSave", "accountInsert"} =>
           req'[r] = Idle \/ user'[req[r].p].role = "DRIVER"
  BY <1>1, UsersMove
<1>5. /\ DOMAIN assignment \in SUBSET (DOMAIN assignment')
      /\ \A i \in DOMAIN assignment : \A p \in People : OwnAt(i, p)' <=> OwnAt(i, p)
      /\ \A p \in People : req[r].step = "ownAssign" /\ p = req[r].p =>
           \E i \in DOMAIN assignment' : OwnAt(i, p)'
  BY <1>1, OwnStays
<1>6. \A s \in Requests : req'[s].step \in Staffed => req'[s].p \in People
  <2>1. ASSUME NEW s \in Requests, req'[s].step \in Staffed PROVE req'[s].p \in People
    <3>1. req'[s] \in RequestState /\ SlotFit(req'[s])
      BY <1>1, <1>2, <1>3 DEF Moved, TypeInv
    <3>2. req'[s].op = "approve"
      BY <2>1, <3>1, CallOf DEF Staffed
    <3> QED BY <3>1, <3>2 DEF SlotFit
  <2> QED BY <2>1
<1>7. slot.step \in Staffed => SameCall(req[r], slot) /\ slot # Idle /\ Leads(req[r], slot.step)
  BY <1>2, IdleIs DEF Moved, Staffed
<1>8. ASSUME NEW s \in Requests, req'[s].step \in Staffed
      PROVE  user'[req'[s].p].role = "DRIVER"
  <2>1. CASE s # r
    BY <1>1, <1>3, <1>4, <1>6, <1>8, <2>1 DEF StaffInv
  <2>2. CASE s = r
    <3>1. slot.step \in Staffed /\ req'[r] = slot
      BY <1>3, <1>8, <2>2
    <3>2. slot.p = req[r].p /\ slot.p \in People /\ slot # Idle
      BY <1>6, <1>7, <3>1 DEF SameCall
    <3>3. req[r].step \in Staffed \/ req[r].step \in {"upgradeSave", "accountInsert"}
      BY <1>7, <3>1 DEF Leads
    <3>4. CASE req[r].step \in Staffed
      BY <1>1, <1>4, <2>2, <3>1, <3>2, <3>4 DEF StaffInv
    <3>5. CASE req[r].step \in {"upgradeSave", "accountInsert"}
      BY <1>4, <2>2, <3>1, <3>2, <3>5
    <3> QED BY <3>3, <3>4, <3>5
  <2> QED BY <2>1, <2>2
<1>9. ASSUME NEW s \in Requests, req'[s].step = "approveSave", req'[s].form.own # "NONE",
             NEW p, p = req'[s].p
      PROVE  \E i \in DOMAIN assignment' : OwnAt(i, p)'
  <2>1. p \in People
    BY <1>6, <1>9 DEF Staffed
  <2>2. CASE s # r
    <3>1. req[s].step = "approveSave" /\ req[s].form.own # "NONE" /\ req[s].p = p
      BY <1>3, <1>9, <2>2
    <3>2. \E i \in DOMAIN assignment : OwnAt(i, p)
      BY <1>1, <3>1 DEF StaffInv
    <3> QED BY <1>5, <2>1, <3>2
  <2>3. CASE s = r
    <3>1. slot.step = "approveSave" /\ slot.form.own # "NONE" /\ slot.p = p
      BY <1>3, <1>9, <2>3
    <3>2. slot.step \in Staffed
      BY <3>1 DEF Staffed
    <3>3. req[r].step = "ownAssign" /\ req[r].p = p
      BY <1>7, <3>1, <3>2 DEF Leads, SameCall
    <3> QED BY <1>5, <2>1, <3>3
  <2> QED BY <2>2, <2>3
<1>10. ASSUME NEW s \in Requests, req'[s].step = "approveSave", req'[s].form.own # "NONE"
       PROVE  \E i \in DOMAIN assignment' :
                assignment'[i].driverId = req'[s].p /\ assignment'[i].vehicleId = req'[s].p
  <2>1. \A p : p = req'[s].p => \E i \in DOMAIN assignment' : OwnAt(i, p)'
    BY <1>9, <1>10
  <2> QED BY <2>1 DEF OwnAt
<1> QED BY <1>8, <1>10 DEF StaffInv, OwnAt

LEMMA ContinueKeepsApproved ==
    ASSUME Inv, NEW r \in Requests, Continue(r)
    PROVE  ApprovedIsComplete'
<1>1. /\ TypeInv /\ FormInv /\ StaffInv /\ ApprovedIsComplete
      /\ req \in [Requests -> RequestState] /\ SlotFit(req[r]) /\ req[r] \in RequestState
  BY DEF Inv, TypeInv, TypeOK
<1>2. \A p \in People : user[p].role = "DRIVER" => user'[p].role = "DRIVER"
  BY <1>1, UsersMove
<1>3. /\ DOMAIN assignment \in SUBSET (DOMAIN assignment')
      /\ \A i \in DOMAIN assignment : \A p \in People : OwnAt(i, p)' <=> OwnAt(i, p)
  BY <1>1, OwnStays
<1> DEFINE Complete(form) ==
             /\ form.approved /\ user[form.person].role = "DRIVER"
             /\ form.own # "NONE" => \E i \in DOMAIN assignment :
                    assignment[i].driverId = form.person /\ assignment[i].vehicleId = form.person
\* What is complete stays so.
<1>4. ASSUME NEW form, form.person \in People, Complete(form)
      PROVE  /\ form.approved /\ user'[form.person].role = "DRIVER"
             /\ form.own # "NONE" => \E i \in DOMAIN assignment' :
                    assignment'[i].driverId = form.person /\ assignment'[i].vehicleId = form.person
  <2>1. form.approved /\ user'[form.person].role = "DRIVER"
    BY <1>2, <1>4
  <2>2. ASSUME form.own # "NONE"
        PROVE  \E i \in DOMAIN assignment' :
                    assignment'[i].driverId = form.person /\ assignment'[i].vehicleId = form.person
    <3>1. PICK i \in DOMAIN assignment : OwnAt(i, form.person)
      BY <1>4, <2>2 DEF OwnAt
    <3>2. i \in DOMAIN assignment' /\ OwnAt(i, form.person)'
      BY <1>3, <1>4, <3>1
    <3> QED BY <3>2 DEF OwnAt
  <2> QED BY <2>1, <2>2
<1>5. \A a \in Applications : application[a].status = "APPROVED" =>
        Complete(application[a]) /\ application[a].person \in People
  BY <1>1 DEF ApprovedIsComplete, TypeInv, DocFit
<1>6. ASSUME NEW a \in Applications, application'[a].status = "APPROVED"
      PROVE  Complete(application'[a]) /\ application'[a].person \in People
  <2>1. CASE application'[a] = application[a]
    BY <1>5, <1>6, <2>1
  <2>2. CASE \E doc : Decided(r, doc)
    <3>1. PICK doc : Decided(r, doc)
      BY <2>2
    <3>2. application \in [Applications -> ApplicationDoc] /\ application' = [application EXCEPT ![req[r].a] = doc]
      BY <1>1, <3>1 DEF Decided, TypeInv, TypeOK
    <3>3. CASE req[r].a # a
      BY <2>1, <3>2, <3>3
    <3>4. CASE req[r].a = a
      <4>1. application'[a] = doc
        BY <3>2, <3>4
      <4>2. doc.status = "APPROVED"
        BY <1>6, <4>1
      <4>3. req[r].op # "apply"
        BY <1>1, <3>1, <4>2 DEF Decided, SlotFit
      <4>4. /\ req[r].op \in {"approve", "reject"} /\ req[r].step = "approveSave" /\ doc.approved
            /\ doc.person = application[req[r].a].person /\ doc.own = application[req[r].a].own
        BY <3>1, <4>2, <4>3 DEF Decided
      <4>5. doc.person = req[r].p /\ doc.own = req[r].form.own
        BY <1>1, <4>4 DEF FormInv
      <4>6. user[doc.person].role = "DRIVER" /\ doc.person \in People
        BY <1>1, <4>4, <4>5 DEF StaffInv, SlotFit, Staffed
      <4>7. doc.own # "NONE" => \E i \in DOMAIN assignment :
                assignment[i].driverId = doc.person /\ assignment[i].vehicleId = doc.person
        BY <1>1, <4>4, <4>5 DEF StaffInv, OwnAt
      <4> QED BY <4>1, <4>4, <4>6, <4>7
    <3> QED BY <3>3, <3>4
  <2> QED BY <1>1, <2>1, <2>2, ApplicationsMove DEF FormInv
<1> HIDE DEF Complete
<1>7. ASSUME NEW a \in Applications, NEW form, form = application'[a], form.status = "APPROVED"
      PROVE  /\ form.approved /\ user'[form.person].role = "DRIVER"
             /\ form.own # "NONE" => \E i \in DOMAIN assignment' :
                    assignment'[i].driverId = form.person /\ assignment'[i].vehicleId = form.person
  <2>1. Complete(form) /\ form.person \in People
    BY <1>6, <1>7
  <2> QED BY <1>4, <2>1
<1> QED BY <1>7 DEF ApprovedIsComplete

LEMMA StepKeeps == Inv /\ [Next]_vars => Inv'
<1> SUFFICES ASSUME Inv, [Next]_vars PROVE Inv'
  OBVIOUS
<1>1. CASE Crash /\ KeepEntered
  BY <1>1, CrashKeeps
<1>2. ASSUME NEW r \in Requests, Begin(r), KeepEntered PROVE Inv'
  <2>1. TypeInv
    BY DEF Inv
  <2>2. PICK slot : Begun(r, slot)
    BY <1>2, <2>1, BeginBegins
  <2> QED BY <1>2, <2>2, BeginKeeps
<1>3. ASSUME NEW r \in Requests, Continue(r), KeepEntered PROVE Inv'
  <2>1. UNCHANGED disturbed
    BY <1>3 DEF Continue, InsertTruck, VehicleCheck, VehicleSave, CheckTruckFree, CheckCodeFree,
                FindCurrent, FreePrevious, EndDrivers, EndTrucks, DriverSave, InUseSave, AssignInsert,
                EndNext, FreeNext, RetireOwn, ReleaseSave, CodeSave, ApplyCheck, ApplyInsert,
                ReviewUser, UpgradeSave, AccountInsert, OwnInsert, OwnAssign, TruckFind, TruckAssign,
                TruckSave, ApproveSave, RejectSave
  <2> QED
    BY <1>3, <2>1, ContinueKeepsType, ContinueKeepsOwn, ContinueKeepsForms, ContinueKeepsStaff,
       ContinueKeepsApproved DEF Inv
<1>4. CASE UNCHANGED vars
  <2>1. UNCHANGED <<user, vehicle, assignment, application, req, disturbed, entered>>
    BY <1>4 DEF vars
  <2>2. TypeOK'
    BY <2>1 DEF Inv, TypeInv, TypeOK
  <2>3. Owing' = Owing
    BY <2>1 DEF Owing
  <2>4. TypeInv'
    BY <2>1, <2>2, <2>3 DEF Inv, TypeInv
  <2>5. OwnInv'
    BY <2>1 DEF Inv, OwnInv, OwnAt
  <2>6. FormInv'
    BY <2>1 DEF Inv, FormInv
  <2>7. StaffInv'
    BY <2>1 DEF Inv, StaffInv, OwnAt
  <2>8. ApprovedIsComplete'
    BY <2>1 DEF Inv, ApprovedIsComplete
  <2> QED BY <2>4, <2>5, <2>6, <2>7, <2>8 DEF Inv
<1> QED BY <1>1, <1>2, <1>3, <1>4 DEF Next

LEMMA InvAlways == Spec => []Inv
BY InitInv, StepKeeps, PTL DEF Spec

-----------------------------------------------------------------------------
(* What follows                                                               *)

\* Accounts, vehicles, assignments and applications stay documents of their
\* kind, whatever a stale save writes back, and no more assignments are made
\* than the bound admits (driver-applications.service.ts).
THEOREM FleetTypeCorrect == Spec => []TypeOK
<1>1. Inv => TypeOK
  BY DEF Inv, TypeInv
<1> QED BY <1>1, InvAlways, PTL

\* However approvals race and wherever the process dies, the unique code of the
\* driver's own vehicle stops a second approval before its assignment
\* (approve: Vehicle.create before DriverVehicleAssignment.create).
THEOREM OwnVehicleAssignedOnce == Spec => []OwnVehicleOnce
<1>1. Inv => OwnVehicleOnce
  <2> SUFFICES ASSUME Inv, NEW p \in People
               PROVE  Cardinality({i \in DOMAIN assignment :
                        assignment[i].driverId = p /\ assignment[i].vehicleId = p}) <= 1
    BY DEF OwnVehicleOnce
  <2> DEFINE S == {i \in DOMAIN assignment : assignment[i].driverId = p /\ assignment[i].vehicleId = p}
  <2>1. \A i, j \in S : i = j
    BY DEF Inv, OwnInv, OwnAt
  <2>2. CASE S = {}
    <3>1. Cardinality(S) = 0
      BY <2>2, FS_EmptySet
    <3> QED BY <3>1
  <2>3. CASE S # {}
    <3>1. PICK i \in S : S = {i}
      BY <2>1, <2>3
    <3>2. Cardinality({i}) = 1
      BY FS_Singleton
    <3> QED BY <3>1, <3>2
  <2> QED BY <2>2, <2>3
<1> QED BY <1>1, InvAlways, PTL

\* However reviews race and wherever the process dies, an APPROVED application
\* has the account of a driver, and an applicant with a vehicle of their own has
\* had it entered and assigned: the approval is saved last (approve).
THEOREM ApprovalsComplete == Spec => []ApprovedIsComplete
<1>1. Inv => ApprovedIsComplete
  BY DEF Inv
<1> QED BY <1>1, InvAlways, PTL

-----------------------------------------------------------------------------
(* The books of the fleet while handlers run one at a time                    *)

OneEach ==
    /\ \A t \in Trucks : \A i, j \in ActiveFor(t) : i = j
    /\ \A p \in People : \A i, j \in ActiveOf(p) :
        assignment[i].primary /\ assignment[j].primary => i = j

Fit == \A t \in Trucks : ActiveFor(t) # {} =>
    vehicle[t].isActive /\ vehicle[t].here /\ vehicle[t].status # "ABSENT" /\ t \notin entered

Even(t) == vehicle[t].status = "IN_USE" <=> ActiveFor(t) # {} \/ t \in entered

\* The trucks whose status and assignment a handler has between two of its
\* writes: the second is still to come.
Owed(q, t) ==
    \/ q.step \in {"assignInsert", "truckSave"} /\ t = q.v
    \/ q.step = "freeNext" /\ t = assignment[q.now].vehicleId
    \/ q.step \in {"freePrevious", "endDrivers"} /\ \E i \in ActiveFor(t) \cap ActiveOf(q.p) : i \notin q.todo

\* The assignments it has still to visit are the driver's, with the trucks as they are.
Visiting(q) ==
    /\ q.todo \in SUBSET ActiveOf(q.p)
    /\ \A i \in q.todo : assignment[i].vehicleId \in Trucks =>
        q.seen[assignment[i].vehicleId] = vehicle[assignment[i].vehicleId]

TruckStep(q) ==
    /\ q.seen[q.v] = vehicle[q.v]
    /\ q.step = "vehicleCheck" =>
        \/ q.op = "retire" /\ q.new.status # "IN_USE"
        \/ q.op = "update" /\ q.new.isActive = vehicle[q.v].isActive
    /\ q.step = "vehicleSave" =>
        /\ q.new.status = "IN_USE" => ActiveFor(q.v) # {} \/ q.v \in entered
        /\ ActiveFor(q.v) # {} => q.new.status = "IN_USE" /\ q.new.isActive /\ q.new.here

AssignStep(q) ==
    /\ ActiveFor(q.v) = {} /\ vehicle[q.v].isActive /\ vehicle[q.v].here
    /\ q.seen[q.v].status = "AVAILABLE" /\ q.v \notin entered
    /\ vehicle[q.v].status = IF q.step = "assignInsert" THEN "IN_USE" ELSE "AVAILABLE"
    /\ q.step = "freePrevious" => Visiting(q)
    /\ q.step = "endDrivers" => q.todo = {}
    /\ q.step \in {"freePrevious", "endDrivers"} => \A i \in ActiveOf(q.p) \ q.todo :
        assignment[i].vehicleId \in Trucks => vehicle[assignment[i].vehicleId].status # "IN_USE"
    /\ q.step \in {"endTrucks", "driverSave", "inUseSave", "assignInsert"} /\ q.primary =>
        ActiveOf(q.p) = {}

EndStep(q) ==
    /\ q.step \in {"endNext", "freeNext"} => Visiting(q)
    /\ q.step = "freeNext" =>
        /\ q.now \in DOMAIN assignment
        /\ assignment[q.now].vehicleId \in Trucks =>
            /\ ActiveFor(assignment[q.now].vehicleId) = {}
            /\ vehicle[assignment[q.now].vehicleId].isActive
            /\ q.seen[assignment[q.now].vehicleId] = vehicle[assignment[q.now].vehicleId]

ApproveStep(q) ==
    /\ q.step \notin {"reviewUser", "truckSave", "approveSave"} => ActiveOf(q.p) = {}
    /\ q.step = "truckAssign" =>
        ActiveFor(q.v) = {} /\ TruckReady(vehicle[q.v]) /\ q.seen[q.v].status = "AVAILABLE"
    /\ q.step = "truckSave" => /\ ActiveFor(q.v) # {} /\ q.seen[q.v].status = "AVAILABLE"
                               /\ vehicle[q.v].status = "AVAILABLE"

\* What a handler knows at each step, when no other runs.
InStep(q) ==
    /\ q.op \in {"update", "retire", "activate"} => TruckStep(q)
    /\ q.op = "assign" => AssignStep(q)
    /\ q.op \in {"unassign", "deactivate"} => EndStep(q)
    /\ q.op = "approve" => ApproveStep(q)

Books(q) ==
    /\ OneEach /\ Fit
    /\ \A t \in Trucks : Owed(q, t) \/ Even(t)
    /\ InStep(q)

LEMMA IdleBooks == InStep(Idle) /\ \A t : ~Owed(Idle, t)
BY IdleIs DEF InStep, Owed

\* Nothing is owed at most steps.
Paid(q) == q.step \notin {"assignInsert", "truckSave", "freeNext", "freePrevious", "endDrivers"}

LEMMA PaidIsEven ==
    ASSUME NEW q, Paid(q), Books(q)
    PROVE  OneEach /\ Fit /\ \A t \in Trucks : Even(t)
BY DEF Paid, Books, Owed

\* The trucks entered as in use stay those as long as no vehicle is written.
LEMMA SameEntered ==
    ASSUME TypeInv, KeepEntered, UNCHANGED vehicle
    PROVE  entered' = entered
<1>1. entered \subseteq Trucks /\ vehicle' = vehicle /\ \A t \in entered : vehicle[t].status = "IN_USE"
  BY DEF TypeInv, TypeOK
<1> QED BY <1>1 DEF KeepEntered

\* A step that changes neither vehicles nor assignments.
LEMMA StillBooks ==
    ASSUME TypeInv, NEW q, NEW slot, Books(q), UNCHANGED <<vehicle, assignment>>,
           KeepEntered \/ UNCHANGED entered,
           \A t \in Trucks : Owed(q, t) => Owed(slot, t), InStep(slot)
    PROVE  Books(slot)'
<1>1. vehicle' = vehicle /\ assignment' = assignment /\ entered' = entered
  BY SameEntered
<1>2. ASSUME NEW v PROVE ActiveFor(v)' = ActiveFor(v)
  BY <1>1 DEF ActiveFor
<1>3. ASSUME NEW p PROVE ActiveOf(p)' = ActiveOf(p)
  BY <1>1 DEF ActiveOf
<1>4. OneEach' /\ Fit'
  BY <1>1, <1>2, <1>3 DEF Books, OneEach, Fit
<1>5. ASSUME NEW t PROVE Owed(slot, t)' <=> Owed(slot, t)
  BY <1>1, <1>2, <1>3 DEF Owed
<1>6. ASSUME NEW t PROVE Even(t)' <=> Even(t)
  BY <1>1, <1>2 DEF Even
<1>7. ActiveFor(slot.v)' = ActiveFor(slot.v) /\ ActiveOf(slot.p)' = ActiveOf(slot.p)
  BY <1>2, <1>3
<1>8. Visiting(slot)' <=> Visiting(slot)
  BY <1>1, <1>7 DEF Visiting
<1>9. TruckStep(slot)' <=> TruckStep(slot)
  BY <1>1, <1>7 DEF TruckStep
<1>10. AssignStep(slot)' <=> AssignStep(slot)
  BY <1>1, <1>7, <1>8 DEF AssignStep
<1>11. EndStep(slot)' <=> EndStep(slot)
  <2>1. ASSUME NEW v, v = assignment[slot.now].vehicleId
        PROVE  ActiveFor(v)' = ActiveFor(v)
    BY <1>2
  <2>2. ActiveFor(assignment[slot.now].vehicleId)' = ActiveFor(assignment[slot.now].vehicleId)
    BY <1>1 DEF ActiveFor
  <2> QED BY <1>1, <1>8, <2>2 DEF EndStep
<1>12. ApproveStep(slot)' <=> ApproveStep(slot)
  BY <1>1, <1>7 DEF ApproveStep
<1>13. InStep(slot)'
  BY <1>9, <1>10, <1>11, <1>12 DEF InStep
<1> QED BY <1>4, <1>5, <1>6, <1>13 DEF Books

\* A call that ends without a write, or that only ends.
LEMMA DoneBooks ==
    ASSUME TypeInv, KeepEntered, NEW q, Paid(q), Books(q), UNCHANGED <<vehicle, assignment>>
    PROVE  Books(Idle)'
BY PaidIsEven, IdleBooks, StillBooks DEF Paid, Owed

-----------------------------------------------------------------------------
(* The steps that write neither a vehicle nor an assignment                   *)

SameData(q, slot) ==
    /\ SameCall(q, slot)
    /\ slot.todo = q.todo /\ slot.now = q.now /\ slot.seen = q.seen /\ slot.new = q.new

LEMMA GotoSlot ==
    ASSUME TypeInv, NEW r \in Requests, NEW step, Goto(r, step)
    PROVE  SameData(req[r], req'[r]) /\ req'[r].step = step
<1>1. req \in [Requests -> RequestState] /\ req[r] \in RequestState
  BY DEF TypeInv, TypeOK
<1>2. req'[r] = [req[r] EXCEPT !.step = step]
  BY <1>1 DEF Goto
<1> QED BY <1>1, <1>2 DEF RequestState, SameData, SameCall

LEMMA FinishSlot ==
    ASSUME TypeInv, NEW r \in Requests, Finish(r)
    PROVE  req'[r] = Idle
BY DEF TypeInv, TypeOK, Finish

LEMMA CheckBooks ==
    ASSUME TypeInv, KeepEntered, NEW r \in Requests, NEW q, q = req[r], NEW slot, slot = req'[r], Books(q),
           VehicleCheck(r) \/ CheckTruckFree(r) \/ CheckCodeFree(r)
    PROVE  Books(slot)'
<1>1. req \in [Requests -> RequestState] /\ q \in RequestState /\ SlotFit(q)
  BY DEF TypeInv, TypeOK
<1>2. UNCHANGED <<vehicle, assignment>> /\ q.step \in {"vehicleCheck", "assignVehicle", "assignCode"}
  BY DEF VehicleCheck, CheckTruckFree, CheckCodeFree
<1>3. Paid(q)
  BY <1>2 DEF Paid
<1>4. CASE Finish(r)
  <2>1. slot = Idle
    BY <1>4, FinishSlot
  <2> QED BY <1>2, <1>3, <2>1, DoneBooks
<1>5. \A t \in Trucks : ~Owed(q, t) /\ Even(t)
  BY <1>3, PaidIsEven DEF Paid, Owed
<1>6. CASE VehicleCheck(r) /\ ~Finish(r)
  <2> DEFINE assigned == ActiveFor(q.v) # {}
             new == IF assigned THEN [q.new EXCEPT !.status = "IN_USE"] ELSE q.new
  <2>1. /\ q.step = "vehicleCheck" /\ ~Refused(q.op, assigned, q.seen[q.v], q.new)
        /\ req' = [req EXCEPT ![r].step = "vehicleSave", ![r].new = new]
    BY <1>6 DEF VehicleCheck
  <2>2. q.op \in {"update", "retire", "activate"} /\ q.v \in Trucks
    BY <1>1, <2>1, CallOf DEF SlotFit
  <2>3. slot = [q EXCEPT !.step = "vehicleSave", !.new = new]
    BY <1>1, <2>1
  <2> HIDE DEF new
  <2>4. slot.step = "vehicleSave" /\ slot.op = q.op /\ slot.v = q.v /\ slot.seen = q.seen /\ slot.new = new
    BY <1>1, <2>3 DEF RequestState
  <2>5. /\ q.seen[q.v] = vehicle[q.v]
        /\ \/ q.op = "retire" /\ q.new.status # "IN_USE"
           \/ q.op = "update" /\ q.new.isActive = vehicle[q.v].isActive
    BY <2>1, <2>2 DEF Books, InStep, TruckStep
  <2>6. Even(q.v) /\ (assigned => vehicle[q.v].isActive /\ vehicle[q.v].here)
    BY <1>5, <2>2 DEF Books, Fit
  <2>7. q.new \in VehicleDoc
    BY <1>1 DEF RequestState
  <2>8. CASE assigned
    <3>1. q.op = "update" /\ q.new.here = vehicle[q.v].here /\ q.new.isActive = vehicle[q.v].isActive
      BY <2>1, <2>5, <2>8 DEF Refused
    <3>2. new = [q.new EXCEPT !.status = "IN_USE"]
      BY <2>8 DEF new
    <3>3. new.status = "IN_USE" /\ new.here = q.new.here /\ new.isActive = q.new.isActive
      BY <2>7, <3>2 DEF VehicleDoc
    <3>4. TruckStep(slot)
      BY <2>4, <2>5, <2>6, <2>8, <3>1, <3>3 DEF TruckStep
    <3>5. InStep(slot)
      BY <2>2, <2>4, <3>4 DEF InStep
    <3> QED BY <1>2, <1>5, <3>5, StillBooks
  <2>9. CASE ~assigned
    <3>1. new = q.new
      BY <2>9 DEF new
    <3>2. vehicle[q.v].status = "IN_USE" => q.v \in entered
      BY <2>6, <2>9 DEF Even
    <3>3. q.op # "retire" => ~(q.new.status = "IN_USE" /\ q.seen[q.v].status # "IN_USE")
      BY <2>1, <2>9 DEF Refused
    <3>4. new.status = "IN_USE" => q.v \in entered
      BY <2>5, <3>1, <3>2, <3>3
    <3>5. TruckStep(slot)
      BY <2>4, <2>5, <2>9, <3>4 DEF TruckStep
    <3>6. InStep(slot)
      BY <2>2, <2>4, <3>5 DEF InStep
    <3> QED BY <1>2, <1>5, <3>6, StillBooks
  <2> QED BY <2>8, <2>9
<1>7. ASSUME NEW step \in {"assignCode", "findCurrent"}, Goto(r, step), q.step \in {"assignVehicle", "assignCode"}
      PROVE  Books(slot)'
  <2>1. q.op = "assign"
    BY <1>1, <1>7, CallOf
  <2>2. SameData(q, slot) /\ slot.step = step
    BY <1>7, GotoSlot
  <2>3. AssignStep(q)
    BY <2>1 DEF Books, InStep
  <2>4. AssignStep(slot)
    BY <1>7, <2>2, <2>3 DEF AssignStep, SameData, SameCall
  <2>5. InStep(slot)
    BY <2>1, <2>2, <2>4 DEF InStep, SameData, SameCall
  <2> QED BY <1>2, <1>5, <2>5, StillBooks
<1>8. CASE CheckTruckFree(r)
  <2>1. q.step = "assignVehicle" /\ (Goto(r, "assignCode") \/ Finish(r))
    BY <1>8 DEF CheckTruckFree
  <2> QED BY <1>4, <1>7, <2>1
<1>9. CASE CheckCodeFree(r)
  <2>1. q.step = "assignCode" /\ (Goto(r, "findCurrent") \/ Finish(r))
    BY <1>9 DEF CheckCodeFree
  <2> QED BY <1>4, <1>7, <2>1
<1> QED BY <1>4, <1>6, <1>8, <1>9

LEMMA FindBooks ==
    ASSUME TypeInv, KeepEntered, NEW r \in Requests, NEW slot, slot = req'[r], Books(req[r]), FindCurrent(r)
    PROVE  Books(slot)'
<1> DEFINE q == req[r]
<1>1. req \in [Requests -> RequestState] /\ q \in RequestState /\ SlotFit(q)
  BY DEF TypeInv, TypeOK
<1>2. UNCHANGED <<vehicle, assignment>> /\ q.step = "findCurrent"
  BY DEF FindCurrent
<1>3. Paid(q)
  BY <1>2 DEF Paid
<1>4. CASE Finish(r)
  <2>1. slot = Idle
    BY <1>4, FinishSlot
  <2> QED BY <1>2, <1>3, <2>1, DoneBooks
<1>5. \A t \in Trucks : ~Owed(q, t) /\ Even(t)
  BY <1>3, PaidIsEven DEF Paid, Owed
<1>6. q.op \in {"assign", "unassign", "deactivate"} /\ q.p \in People
  BY <1>1, <1>2, CallOf DEF SlotFit
<1>7. ASSUME ~Finish(r)
      PROVE  Books(slot)'
  <2> DEFINE current == ActiveOf(q.p)
             next == AfterCurrent(q, current)
             ended == IF q.op # "assign" THEN current
                      ELSE {i \in current : assignment[i].vehicleId \in Trucks \ {q.v}}
             found == Seen({assignment[i].vehicleId : i \in ended})
             todo == IF next = "driverSave" THEN {} ELSE ended
             seen == [v \in Vehicles |-> IF v = q.v THEN q.seen[v] ELSE found[v]]
  <2>1. req' = [req EXCEPT ![r].step = next, ![r].todo = todo, ![r].seen = seen]
    BY <1>7 DEF FindCurrent
  <2>13. next # "idle"
    BY <1>7 DEF FindCurrent
  <2>2. slot = [q EXCEPT !.step = next, !.todo = todo, !.seen = seen]
    BY <1>1, <2>1
  <2>3. /\ q.op = "assign" => next \in {"freePrevious", "driverSave"}
        /\ q.op # "assign" => next \in {"endNext", "retireOwn"}
    BY <1>6, <2>13, AfterIs
  <2>4. ended \in SUBSET current
    OBVIOUS
  <2>5. ASSUME NEW i \in ended, assignment[i].vehicleId \in Trucks
        PROVE  seen[assignment[i].vehicleId] = vehicle[assignment[i].vehicleId]
    <3>1. assignment[i].vehicleId # q.v
      BY <1>1, <1>6, <2>5, NoneIs DEF SlotFit
    <3>2. assignment[i].vehicleId \in Vehicles
      BY <2>5 DEF Vehicles
    <3>3. found[assignment[i].vehicleId] = vehicle[assignment[i].vehicleId]
      BY <3>2 DEF Seen
    <3> HIDE DEF found
    <3> QED BY <3>1, <3>2, <3>3
  <2>6. todo = {} \/ todo = ended
    OBVIOUS
  <2>7. next # "driverSave" => todo = ended
    OBVIOUS
  <2>8. q.v \in Vehicles => seen[q.v] = q.seen[q.v]
    OBVIOUS
  <2>9. q.op = "assign" => \A i \in current \ ended : assignment[i].vehicleId \in Trucks =>
                                assignment[i].vehicleId = q.v
    OBVIOUS
  <2> HIDE DEF next, todo, seen, ended
  <2>10. /\ slot.step = next /\ slot.todo = todo /\ slot.seen = seen /\ slot.op = q.op /\ slot.v = q.v
         /\ slot.p = q.p /\ slot.primary = q.primary
    BY <1>1, <2>2 DEF RequestState
  <2>11. Visiting(slot)
    <3>1. slot.todo \in SUBSET ActiveOf(slot.p)
      BY <2>4, <2>6, <2>10
    <3> QED BY <2>5, <2>6, <2>10, <3>1 DEF Visiting
  <2>12. CASE q.op = "assign"
    <3>1. AssignStep(q) /\ q.v \in Trucks
      BY <1>1, <2>12 DEF Books, InStep, SlotFit
    <3>2. \A i \in DOMAIN assignment : assignment[i].isActive => assignment[i].vehicleId # q.v
      BY <3>1 DEF AssignStep, ActiveFor
    <3>3. slot.step = "freePrevious" => \A i \in ActiveOf(slot.p) \ slot.todo :
                assignment[i].vehicleId \notin Trucks
      <4>1. \A i \in current : assignment[i].vehicleId # q.v
        BY <3>2 DEF ActiveOf
      <4> QED BY <2>7, <2>9, <2>10, <2>12, <4>1
    <3>4. slot.step \in {"freePrevious", "driverSave"}
      BY <2>3, <2>10, <2>12
    <3>5. slot.step = "driverSave" => ~slot.primary
      <4>1. next = IF q.primary THEN "freePrevious" ELSE "driverSave"
        BY <2>12 DEF next, AfterCurrent
      <4> QED BY <2>10, <4>1
    <3>6. slot.seen[slot.v] = q.seen[q.v]
      BY <2>8, <2>10, <3>1 DEF Vehicles
    <3>7. AssignStep(slot)
      BY <1>2, <2>10, <2>11, <3>1, <3>3, <3>4, <3>5, <3>6 DEF AssignStep
    <3>8. InStep(slot)
      BY <2>10, <2>12, <3>7 DEF InStep
    <3> QED BY <1>2, <1>5, <3>8, StillBooks
  <2>14. CASE q.op # "assign"
    <3>1. slot.step \in {"endNext", "retireOwn"}
      BY <2>3, <2>10, <2>14
    <3>2. EndStep(slot)
      BY <2>11, <3>1 DEF EndStep
    <3>3. InStep(slot)
      BY <1>6, <2>10, <2>14, <3>2 DEF InStep
    <3> QED BY <1>2, <1>5, <3>3, StillBooks
  <2> QED BY <2>12, <2>14
<1> QED BY <1>4, <1>7

LEMMA CallerBooks ==
    ASSUME TypeInv, KeepEntered, NEW r \in Requests, NEW q, q = req[r], NEW slot, slot = req'[r], Books(q),
           \/ DriverSave(r) \/ ReleaseSave(r) \/ CodeSave(r) \/ ApplyCheck(r) \/ ApplyInsert(r)
           \/ ApproveSave(r) \/ RejectSave(r)
    PROVE  Books(slot)'
<1>1. req \in [Requests -> RequestState] /\ q \in RequestState /\ SlotFit(q)
  BY DEF TypeInv, TypeOK
<1>2. /\ UNCHANGED <<vehicle, assignment>>
      /\ q.step \in {"driverSave", "releaseSave", "codeSave", "applyCheck", "applyInsert", "approveSave",
                     "rejectSave"}
  BY DEF DriverSave, ReleaseSave, CodeSave, ApplyCheck, ApplyInsert, ApproveSave, RejectSave
<1>3. Paid(q)
  BY <1>2 DEF Paid
<1>4. CASE Finish(r)
  <2>1. slot = Idle
    BY <1>4, FinishSlot
  <2> QED BY <1>2, <1>3, <2>1, DoneBooks
<1>5. \A t \in Trucks : ~Owed(q, t) /\ Even(t)
  BY <1>3, PaidIsEven DEF Paid, Owed
<1>6. CASE DriverSave(r)
  <2>1. q.step = "driverSave" /\ Goto(r, "inUseSave")
    BY <1>6 DEF DriverSave
  <2>2. q.op = "assign"
    BY <1>1, <2>1, CallOf
  <2>3. SameData(q, slot) /\ slot.step = "inUseSave"
    BY <2>1, GotoSlot
  <2>4. AssignStep(q)
    BY <2>2 DEF Books, InStep
  <2>5. AssignStep(slot)
    BY <2>1, <2>3, <2>4 DEF AssignStep, SameData, SameCall
  <2>6. InStep(slot)
    BY <2>2, <2>3, <2>5 DEF InStep, SameData, SameCall
  <2> QED BY <1>2, <1>5, <2>6, StillBooks
<1>7. CASE ApplyCheck(r) /\ ~Finish(r)
  <2>1. q.step = "applyCheck" /\ Goto(r, "applyInsert")
    BY <1>7 DEF ApplyCheck
  <2>2. q.op = "apply"
    BY <1>1, <2>1, CallOf
  <2>3. SameData(q, slot)
    BY <2>1, GotoSlot
  <2>4. InStep(slot)
    BY <2>2, <2>3 DEF InStep, SameData, SameCall
  <2> QED BY <1>2, <1>5, <2>4, StillBooks
<1>8. CASE ReleaseSave(r) \/ CodeSave(r) \/ ApplyInsert(r) \/ ApproveSave(r) \/ RejectSave(r)
  BY <1>4, <1>8 DEF ReleaseSave, CodeSave, ApplyInsert, ApproveSave, RejectSave
<1> QED BY <1>4, <1>6, <1>7, <1>8

\* Every assignment is a driver's, and so is every one about to be made.
DriversOnly ==
    /\ \A i \in DOMAIN assignment : user[assignment[i].driverId].role = "DRIVER"
    /\ \A r \in Requests : req[r].op = "assign" => user[req[r].p].role = "DRIVER"

LEMMA AccountBooks ==
    ASSUME TypeInv, KeepEntered, DriversOnly, NEW r \in Requests, NEW q, q = req[r], NEW slot, slot = req'[r], Books(q),
           ReviewUser(r) \/ UpgradeSave(r) \/ AccountInsert(r) \/ TruckFind(r)
    PROVE  Books(slot)'
<1>1. req \in [Requests -> RequestState] /\ q \in RequestState /\ SlotFit(q)
  BY DEF TypeInv, TypeOK
<1>2. /\ UNCHANGED <<vehicle, assignment>>
      /\ q.step \in {"reviewUser", "upgradeSave", "accountInsert", "truckFind"}
  BY DEF ReviewUser, UpgradeSave, AccountInsert, TruckFind
<1>3. Paid(q)
  BY <1>2 DEF Paid
<1>4. CASE Finish(r)
  <2>1. slot = Idle
    BY <1>4, FinishSlot
  <2> QED BY <1>2, <1>3, <2>1, DoneBooks
<1>5. \A t \in Trucks : ~Owed(q, t) /\ Even(t)
  BY <1>3, PaidIsEven DEF Paid, Owed
<1>6. q.op = "approve"
  BY <1>1, <1>2, CallOf
<1>7. ApproveStep(q)
  BY <1>6 DEF Books, InStep
<1>8. ASSUME ApproveStep(slot), slot.op = "approve"
      PROVE  Books(slot)'
  <2>1. InStep(slot)
    BY <1>8 DEF InStep
  <2> QED BY <1>2, <1>5, <2>1, StillBooks
<1>9. CASE ReviewUser(r) /\ ~Finish(r)
  <2> DEFINE next == IF q.form.applicant THEN "upgradeSave" ELSE "accountInsert"
  <2>1. user[q.p].role # "DRIVER" /\ req' = [req EXCEPT ![r].user = user[q.p], ![r].step = next]
    BY <1>9 DEF ReviewUser
  <2>2. slot = [q EXCEPT !.user = user[q.p], !.step = next]
    BY <1>1, <2>1
  <2>3. next \in {"upgradeSave", "accountInsert"}
    OBVIOUS
  <2> HIDE DEF next
  <2>4. slot.step = next /\ slot.op = q.op /\ slot.p = q.p
    BY <1>1, <2>2 DEF RequestState
  <2>5. ActiveOf(q.p) = {}
    BY <2>1 DEF DriversOnly, ActiveOf
  <2>6. ApproveStep(slot)
    BY <2>3, <2>4, <2>5 DEF ApproveStep
  <2> QED BY <1>6, <1>8, <2>4, <2>6
<1>10. CASE (UpgradeSave(r) \/ AccountInsert(r)) /\ ~Finish(r)
  <2>1. q.step \in {"upgradeSave", "accountInsert"} /\ Goto(r, AfterAccount(q))
    BY <1>10 DEF UpgradeSave, AccountInsert
  <2>2. AfterAccount(q) \in {"ownInsert", "truckFind", "approveSave"}
    BY DEF AfterAccount
  <2>3. SameData(q, slot) /\ slot.step \in {"ownInsert", "truckFind", "approveSave"}
    BY <2>1, <2>2, GotoSlot
  <2>4. ActiveOf(q.p) = {}
    BY <1>7, <2>1 DEF ApproveStep
  <2>5. ApproveStep(slot)
    BY <2>3, <2>4 DEF ApproveStep, SameData, SameCall
  <2>6. slot.op = "approve"
    BY <1>6, <2>3 DEF SameData, SameCall
  <2> QED BY <1>8, <2>5, <2>6
<1>11. CASE TruckFind(r) /\ ~Finish(r)
  <2>1. /\ q.step = "truckFind" /\ TruckReady(vehicle[q.v])
        /\ req' = [req EXCEPT ![r].step = "truckAssign", ![r].seen[q.v] = vehicle[q.v]]
    BY <1>11 DEF TruckFind
  <2>2. q.v \in Trucks
    BY <1>1, <1>6, <2>1 DEF SlotFit
  <2>3. slot = [q EXCEPT !.step = "truckAssign", !.seen[q.v] = vehicle[q.v]]
    BY <1>1, <2>1
  <2>4. /\ slot.step = "truckAssign" /\ slot.op = q.op /\ slot.p = q.p /\ slot.v = q.v
        /\ slot.seen = [q.seen EXCEPT ![q.v] = vehicle[q.v]]
    BY <1>1, <2>3 DEF RequestState
  <2>5. slot.seen[q.v] = vehicle[q.v]
    BY <1>1, <2>2, <2>4 DEF RequestState, Vehicles
  <2>6. ActiveFor(q.v) = {}
    BY <1>5, <2>1, <2>2 DEF TruckReady, Even
  <2>7. ActiveOf(q.p) = {}
    BY <1>7, <2>1 DEF ApproveStep
  <2>8. slot.v = q.v /\ slot.p = q.p /\ slot.step = "truckAssign"
    BY <2>4
  <2>9. slot.seen[slot.v].status = "AVAILABLE"
    BY <2>1, <2>5, <2>8 DEF TruckReady
  <2>10. TruckReady(vehicle[slot.v])
    BY <2>1, <2>8
  <2>11. ActiveFor(slot.v) = {} /\ ActiveOf(slot.p) = {}
    BY <2>6, <2>7, <2>8
  <2>12. ApproveStep(slot)
    BY <2>8, <2>9, <2>10, <2>11 DEF ApproveStep
  <2> QED BY <1>6, <1>8, <2>4, <2>12
<1> QED BY <1>4, <1>9, <1>10, <1>11

-----------------------------------------------------------------------------
(* The steps that write a vehicle                                             *)

LEMMA SameActives ==
    ASSUME UNCHANGED assignment
    PROVE  /\ \A v : ActiveFor(v)' = ActiveFor(v)
           /\ \A p : ActiveOf(p)' = ActiveOf(p)
           /\ \A q, t : Owed(q, t)' <=> Owed(q, t)
<1>1. assignment' = assignment
  OBVIOUS
<1>2. ASSUME NEW v PROVE ActiveFor(v)' = ActiveFor(v)
  BY <1>1 DEF ActiveFor
<1>3. ASSUME NEW p PROVE ActiveOf(p)' = ActiveOf(p)
  BY <1>1 DEF ActiveOf
<1>4. ASSUME NEW q, NEW t PROVE Owed(q, t)' <=> Owed(q, t)
  BY <1>1, <1>2, <1>3 DEF Owed
<1> QED BY <1>2, <1>3, <1>4

\* Vehicle v is entered as in use, or stays so, when it is written as doc.
Entering(v, doc) == doc.status = "IN_USE" /\ (vehicle[v].status = "ABSENT" \/ v \in entered)

\* What one write of a vehicle does to the trucks entered as in use.
LEMMA EnteredWritten ==
    ASSUME TypeInv, KeepEntered, NEW v, NEW doc, vehicle' = [vehicle EXCEPT ![v] = doc]
    PROVE  \A t \in Trucks : t \in entered' <=> IF t = v THEN Entering(v, doc) ELSE t \in entered
<1>1. vehicle \in [Vehicles -> VehicleDoc] /\ Trucks \subseteq Vehicles
  BY DEF TypeInv, TypeOK, Vehicles
<1>2. \A t \in Trucks : vehicle'[t] = IF t = v THEN doc ELSE vehicle[t]
  BY <1>1
<1>3. \A t \in entered : vehicle[t].status = "IN_USE"
  BY DEF TypeInv
<1> QED BY <1>2, <1>3 DEF KeepEntered, Entering

\* The books after a write of vehicle v, which then is doc.
LEMMA WroteBooks ==
    ASSUME TypeInv, KeepEntered, NEW slot, OneEach, Fit, UNCHANGED assignment, NEW v, NEW doc,
           vehicle' = [vehicle EXCEPT ![v] = doc],
           (v \in Trucks /\ ActiveFor(v) # {}) =>
                (doc.isActive /\ doc.here /\ doc.status # "ABSENT"),
           \A t \in Trucks \ {v} : Owed(slot, t) \/ Even(t),
           v \in Trucks =>
                Owed(slot, v) \/ (doc.status = "IN_USE" <=> (ActiveFor(v) # {} \/ Entering(v, doc))),
           InStep(slot)'
    PROVE  Books(slot)'
<1>1. vehicle \in [Vehicles -> VehicleDoc] /\ Trucks \subseteq Vehicles
  BY DEF TypeInv, TypeOK, Vehicles
<1>2. \A t \in Trucks : vehicle'[t] = IF t = v THEN doc ELSE vehicle[t]
  BY <1>1
<1>3. /\ \A w : ActiveFor(w)' = ActiveFor(w)
      /\ \A p : ActiveOf(p)' = ActiveOf(p)
      /\ \A q, t : Owed(q, t)' <=> Owed(q, t)
  BY SameActives
<1>4. OneEach'
  BY <1>3 DEF OneEach
<1>7. \A t \in Trucks : t \in entered' <=> IF t = v THEN Entering(v, doc) ELSE t \in entered
  BY EnteredWritten
<1>5. Fit'
  BY <1>2, <1>3, <1>7 DEF Fit, Entering
<1>6. ASSUME NEW t \in Trucks PROVE Owed(slot, t)' \/ Even(t)'
  <2>1. CASE t = v
    BY <1>2, <1>3, <1>7, <2>1 DEF Even
  <2>2. CASE t # v
    BY <1>2, <1>3, <1>7, <2>2 DEF Even
  <2> QED BY <2>1, <2>2
<1> QED BY <1>4, <1>5, <1>6 DEF Books

LEMMA TruckBooks ==
    ASSUME TypeInv, KeepEntered, NEW r \in Requests, NEW slot, slot = req'[r], Books(req[r]),
           InsertTruck(r) \/ VehicleSave(r)
    PROVE  Books(slot)'
<1> DEFINE q == req[r]
<1>1. req \in [Requests -> RequestState] /\ q \in RequestState /\ SlotFit(q)
  BY DEF TypeInv, TypeOK
<1>2. UNCHANGED assignment /\ slot = Idle /\ q.step \in {"truckInsert", "vehicleSave"}
  BY FinishSlot DEF InsertTruck, VehicleSave
<1>3. Paid(q)
  BY <1>2 DEF Paid
<1>4. OneEach /\ Fit /\ \A t \in Trucks : Even(t)
  BY <1>3, PaidIsEven
<1>5. InStep(slot)'
  BY <1>2, IdleIs DEF InStep
<1>6. q.op \in {"add", "update", "retire", "activate"}
  BY <1>1, <1>2, CallOf
<1>7. q.v \in Trucks
  BY <1>1, <1>6 DEF SlotFit
<1>8. Even(q.v) /\ (ActiveFor(q.v) # {} =>
                        vehicle[q.v].isActive /\ vehicle[q.v].here /\ vehicle[q.v].status # "ABSENT")
  BY <1>4, <1>7 DEF Fit
<1>9. CASE InsertTruck(r)
  <2> DEFINE doc == IF vehicle[q.v].status = "ABSENT" THEN q.new ELSE vehicle[q.v]
  <2>1. q.step = "truckInsert" /\ vehicle' = [vehicle EXCEPT ![q.v] = doc]
    BY <1>9 DEF InsertTruck
  <2>2. q.op = "add"
    BY <1>1, <2>1, CallOf
  <2>4. vehicle[q.v].status = "ABSENT" => ActiveFor(q.v) = {} /\ q.v \notin entered
    BY <1>8 DEF Even
  <2>5. /\ ActiveFor(q.v) # {} => doc.isActive /\ doc.here /\ doc.status # "ABSENT"
        /\ doc.status = "IN_USE" <=> (ActiveFor(q.v) # {} \/ Entering(q.v, doc))
    BY <1>8, <2>4 DEF Even, Entering
  <2> HIDE DEF doc
  <2> QED BY <1>2, <1>4, <1>5, <2>1, <2>5, WroteBooks
<1>10. CASE VehicleSave(r)
  <2> DEFINE doc == Saved(vehicle[q.v], q.seen[q.v], q.new)
  <2>1. q.step = "vehicleSave" /\ vehicle' = [vehicle EXCEPT ![q.v] = doc]
    BY <1>10 DEF VehicleSave
  <2>2. q.op \in {"update", "retire", "activate"}
    BY <1>1, <2>1, CallOf
  <2>3. /\ q.seen[q.v] = vehicle[q.v]
        /\ q.new.status = "IN_USE" => ActiveFor(q.v) # {} \/ q.v \in entered
        /\ ActiveFor(q.v) # {} => q.new.status = "IN_USE" /\ q.new.isActive /\ q.new.here
    BY <2>1, <2>2 DEF Books, InStep, TruckStep
  <2>4. vehicle[q.v] \in VehicleDoc
    BY <1>7 DEF TypeInv, TypeOK, Vehicles
  <2>5. /\ doc.status = Written(vehicle[q.v].status, q.seen[q.v].status, q.new.status)
        /\ doc.isActive = Written(vehicle[q.v].isActive, q.seen[q.v].isActive, q.new.isActive)
        /\ doc.here = Written(vehicle[q.v].here, q.seen[q.v].here, q.new.here)
    BY <2>4, SavedFields
  <2> HIDE DEF doc
  <2>6. doc.status = q.new.status /\ doc.isActive = q.new.isActive /\ doc.here = q.new.here
    BY <2>3, <2>5 DEF Written
  <2>7. /\ ActiveFor(q.v) # {} => doc.isActive /\ doc.here /\ doc.status # "ABSENT"
        /\ doc.status = "IN_USE" <=> (ActiveFor(q.v) # {} \/ Entering(q.v, doc))
    BY <2>3, <2>6 DEF Entering
  <2> QED BY <1>2, <1>4, <1>5, <2>1, <2>7, WroteBooks
<1> QED BY <1>9, <1>10

LEMMA OwnBooks ==
    ASSUME TypeInv, KeepEntered, NEW r \in Requests, NEW slot, slot = req'[r], Books(req[r]),
           RetireOwn(r) \/ OwnInsert(r)
    PROVE  Books(slot)'
<1> DEFINE q == req[r]
<1>1. req \in [Requests -> RequestState] /\ q \in RequestState /\ SlotFit(q)
  BY DEF TypeInv, TypeOK
<1>2. UNCHANGED assignment /\ q.step \in {"retireOwn", "ownInsert"}
  BY DEF RetireOwn, OwnInsert
<1>3. Paid(q)
  BY <1>2 DEF Paid
<1>4. OneEach /\ Fit /\ \A t \in Trucks : Even(t)
  BY <1>3, PaidIsEven
<1>5. q.op \in {"unassign", "deactivate", "approve"}
  BY <1>1, <1>2, CallOf
<1>6. q.p \in People /\ q.p \notin Trucks
  BY <1>1, <1>5, NoneIs DEF SlotFit
<1>7. CASE OwnInsert(r) /\ Finish(r) /\ UNCHANGED vehicle
  <2>1. slot = Idle
    BY <1>7, FinishSlot
  <2> QED BY <1>2, <1>3, <1>7, <2>1, DoneBooks
<1>8. ASSUME InStep(slot)', ~(OwnInsert(r) /\ Finish(r) /\ UNCHANGED vehicle) PROVE Books(slot)'
  <2>1. \E doc : vehicle' = [vehicle EXCEPT ![q.p] = doc]
    BY <1>8 DEF RetireOwn, OwnInsert
  <2>2. PICK doc : vehicle' = [vehicle EXCEPT ![q.p] = doc]
    BY <2>1
  <2> QED BY <1>2, <1>4, <1>6, <1>8, <2>2, WroteBooks
<1>10. CASE RetireOwn(r)
  <2>1. q.step = "retireOwn" /\ Goto(r, "releaseSave")
    BY <1>10 DEF RetireOwn
  <2>2. SameData(q, slot) /\ slot.step = "releaseSave" /\ q.op \in {"unassign", "deactivate"}
    BY <1>1, <2>1, GotoSlot, CallOf
  <2>3. InStep(slot)'
    BY <2>2 DEF InStep, EndStep, SameData, SameCall
  <2>4. ~OwnInsert(r)
    BY <2>1 DEF OwnInsert
  <2> QED BY <1>8, <2>3, <2>4
<1>11. CASE OwnInsert(r) /\ ~(Finish(r) /\ UNCHANGED vehicle)
  <2>1. q.step = "ownInsert" /\ Goto(r, "ownAssign")
    BY <1>11 DEF OwnInsert, AfterOwnInsert
  <2>2. SameData(q, slot) /\ slot.step = "ownAssign" /\ q.op = "approve"
    BY <1>1, <2>1, GotoSlot, CallOf
  <2>3. ActiveOf(q.p) = {}
    BY <2>1, <2>2 DEF Books, InStep, ApproveStep
  <2>4. slot.p = q.p /\ slot.op = "approve"
    BY <2>2 DEF SameData, SameCall
  <2>5. ActiveOf(slot.p) = {}
    BY <2>3, <2>4
  <2>6. ActiveOf(slot.p)' = {}
    BY <1>2, <2>5, SameActives
  <2>7. InStep(slot)'
    BY <2>2, <2>4, <2>6 DEF InStep, ApproveStep
  <2> QED BY <1>8, <1>11, <2>7
<1> QED BY <1>7, <1>10, <1>11

\* The status that a save writes, when the truck was loaded as it is or as AVAILABLE.
LEMMA StatusSaved ==
    ASSUME TypeInv, NEW r \in Requests, NEW v \in Vehicles, NEW status, SaveStatus(r, v, status)
    PROVE  \E doc : /\ vehicle' = [vehicle EXCEPT ![v] = doc]
                    /\ doc.status = Written(vehicle[v].status, req[r].seen[v].status, status)
                    /\ doc.isActive = vehicle[v].isActive /\ doc.here = vehicle[v].here
<1> DEFINE s == Written(vehicle[v].status, req[r].seen[v].status, status)
           doc == [vehicle[v] EXCEPT !.status = s]
<1>1. vehicle' = [vehicle EXCEPT ![v] = doc]
  BY DEF SaveStatus, TypeInv, TypeOK
<1>2. vehicle[v] \in VehicleDoc
  BY DEF TypeInv, TypeOK
<1> HIDE DEF s
<1>3. doc.status = s /\ doc.isActive = vehicle[v].isActive /\ doc.here = vehicle[v].here
  BY <1>2 DEF VehicleDoc
<1> HIDE DEF doc
<1> QED BY <1>1, <1>3 DEF s

LEMMA InUseBooks ==
    ASSUME TypeInv, KeepEntered, NEW r \in Requests, NEW slot, slot = req'[r], Books(req[r]), InUseSave(r)
    PROVE  Books(slot)'
<1> DEFINE q == req[r]
<1>1. req \in [Requests -> RequestState] /\ q \in RequestState /\ SlotFit(q)
  BY DEF TypeInv, TypeOK
<1>2. /\ q.step = "inUseSave" /\ SaveStatus(r, q.v, "IN_USE") /\ Goto(r, "assignInsert")
      /\ assignment' = assignment
  BY DEF InUseSave
<1>3. OneEach /\ Fit /\ \A t \in Trucks : Even(t)
  BY <1>2, PaidIsEven DEF Paid
<1>4. q.op = "assign"
  BY <1>1, <1>2, CallOf
<1>5. q.v \in Trucks /\ q.v \in Vehicles /\ AssignStep(q)
  BY <1>1, <1>4 DEF SlotFit, Vehicles, Books, InStep
<1>6. PICK doc : /\ vehicle' = [vehicle EXCEPT ![q.v] = doc]
                 /\ doc.status = Written(vehicle[q.v].status, q.seen[q.v].status, "IN_USE")
                 /\ doc.isActive = vehicle[q.v].isActive /\ doc.here = vehicle[q.v].here
  BY <1>2, <1>5, StatusSaved
<1>7. doc.status = "IN_USE"
  BY <1>5, <1>6 DEF AssignStep, Written
<1>8. /\ slot.step = "assignInsert" /\ slot.op = "assign" /\ slot.v = q.v /\ slot.p = q.p
      /\ slot.primary = q.primary /\ slot.seen = q.seen
  BY <1>2, <1>4, GotoSlot DEF SameData, SameCall
<1>9. vehicle'[slot.v] = doc
  BY <1>5, <1>6, <1>8 DEF TypeInv, TypeOK
<1>10. ActiveFor(slot.v)' = ActiveFor(slot.v) /\ ActiveOf(slot.p)' = ActiveOf(slot.p)
  BY <1>2, SameActives
<1>15. slot.v \notin entered'
  <2>1. vehicle[q.v].status = "AVAILABLE" /\ q.v \notin entered
    BY <1>2, <1>5 DEF AssignStep
  <2>2. ~Entering(q.v, doc)
    BY <2>1 DEF Entering
  <2> QED BY <1>5, <1>6, <1>8, <2>2, EnteredWritten
<1>11. AssignStep(slot)'
  BY <1>2, <1>5, <1>6, <1>7, <1>8, <1>9, <1>10, <1>15 DEF AssignStep
<1>12. InStep(slot)'
  BY <1>8, <1>11 DEF InStep
<1>13. Owed(slot, q.v)
  BY <1>8 DEF Owed
<1>14. ActiveFor(q.v) = {}
  BY <1>5 DEF AssignStep
<1> QED BY <1>2, <1>3, <1>6, <1>12, <1>13, <1>14, WroteBooks

LEMMA TruckSaveBooks ==
    ASSUME TypeInv, KeepEntered, NEW r \in Requests, NEW slot, slot = req'[r], Books(req[r]), TruckSave(r)
    PROVE  Books(slot)'
<1> DEFINE q == req[r]
<1>1. req \in [Requests -> RequestState] /\ q \in RequestState /\ SlotFit(q)
  BY DEF TypeInv, TypeOK
<1>2. /\ q.step = "truckSave" /\ SaveStatus(r, q.v, "IN_USE") /\ Goto(r, "approveSave")
      /\ assignment' = assignment
  BY DEF TruckSave
<1>3. OneEach /\ Fit /\ \A t \in Trucks \ {q.v} : Even(t)
  BY <1>2 DEF Books, Owed
<1>4. q.op = "approve"
  BY <1>1, <1>2, CallOf
<1>5. q.v \in Trucks /\ q.v \in Vehicles
  BY <1>1, <1>2, <1>4 DEF SlotFit, Vehicles
<1>6. ActiveFor(q.v) # {} /\ q.seen[q.v].status = "AVAILABLE"
  BY <1>2, <1>4 DEF Books, InStep, ApproveStep
<1>7. PICK doc : /\ vehicle' = [vehicle EXCEPT ![q.v] = doc]
                 /\ doc.status = Written(vehicle[q.v].status, q.seen[q.v].status, "IN_USE")
                 /\ doc.isActive = vehicle[q.v].isActive /\ doc.here = vehicle[q.v].here
  BY <1>2, <1>5, StatusSaved
<1>8. doc.status = "IN_USE"
  BY <1>6, <1>7 DEF Written
<1>9. slot.step = "approveSave" /\ slot.op = "approve"
  BY <1>2, <1>4, GotoSlot DEF SameData, SameCall
<1>10. InStep(slot)'
  BY <1>9 DEF InStep, ApproveStep
<1>11. vehicle[q.v].isActive /\ vehicle[q.v].here
  BY <1>3, <1>5, <1>6 DEF Fit
<1> QED BY <1>2, <1>3, <1>6, <1>7, <1>8, <1>10, <1>11, WroteBooks

LEMMA PreviousBooks ==
    ASSUME TypeInv, KeepEntered, NEW r \in Requests, NEW slot, slot = req'[r], Books(req[r]), FreePrevious(r)
    PROVE  Books(slot)'
<1> DEFINE q == req[r]
<1>1. req \in [Requests -> RequestState] /\ q \in RequestState /\ SlotFit(q)
  BY DEF TypeInv, TypeOK
<1>2. q.step = "freePrevious" /\ assignment' = assignment
  BY DEF FreePrevious
<1>3. q.op = "assign"
  BY <1>1, <1>2, CallOf
<1>4. AssignStep(q) /\ Visiting(q) /\ OneEach /\ Fit
  BY <1>2, <1>3 DEF Books, InStep, AssignStep
<1>5. CASE q.todo = {} /\ Goto(r, "endDrivers") /\ UNCHANGED vehicle
  <2>1. SameData(q, slot) /\ slot.step = "endDrivers"
    BY <1>5, GotoSlot
  <2>2. \A t \in Trucks : Owed(q, t) => Owed(slot, t)
    BY <1>2, <2>1 DEF Owed, SameData, SameCall
  <2>3. AssignStep(slot)
    BY <1>2, <1>4, <1>5, <2>1 DEF AssignStep, SameData, SameCall
  <2>4. InStep(slot)
    BY <1>3, <2>1, <2>3 DEF InStep, SameData, SameCall
  <2> QED BY <1>2, <1>5, <2>2, <2>4, StillBooks
<1>6. CASE \E i \in q.todo : /\ SaveStatus(r, assignment[i].vehicleId, "AVAILABLE")
                             /\ req' = [req EXCEPT ![r].todo = @ \ {i}]
  <2>1. PICK i \in q.todo : /\ SaveStatus(r, assignment[i].vehicleId, "AVAILABLE")
                            /\ req' = [req EXCEPT ![r].todo = @ \ {i}]
    BY <1>6
  <2> DEFINE v == assignment[i].vehicleId
  <2>2. i \in ActiveOf(q.p) /\ i \in DOMAIN assignment /\ i \in ActiveFor(v) /\ assignment[i] \in AssignmentDoc
    BY <1>4, <2>1 DEF Visiting, ActiveOf, ActiveFor, TypeInv, TypeOK
  <2>3. v \in Vehicles
    BY <2>2 DEF AssignmentDoc
  <2>4. PICK doc : /\ vehicle' = [vehicle EXCEPT ![v] = doc]
                   /\ doc.status = Written(vehicle[v].status, q.seen[v].status, "AVAILABLE")
                   /\ doc.isActive = vehicle[v].isActive /\ doc.here = vehicle[v].here
    BY <2>1, <2>3, StatusSaved
  <2>5. v \in Trucks => doc.status = "AVAILABLE"
    BY <1>4, <2>1, <2>4 DEF Visiting, Written
  <2>6. slot = [q EXCEPT !.todo = @ \ {i}]
    BY <1>1, <2>1
  <2>7. /\ slot.step = "freePrevious" /\ slot.op = "assign" /\ slot.v = q.v /\ slot.p = q.p
        /\ slot.seen = q.seen /\ slot.todo = q.todo \ {i} /\ slot.primary = q.primary
    BY <1>1, <1>2, <1>3, <2>6 DEF RequestState
  <2>8. v # q.v
    BY <1>4, <2>2 DEF AssignStep
  <2>9. \A w \in Vehicles : vehicle'[w] = IF w = v THEN doc ELSE vehicle[w]
    BY <2>4 DEF TypeInv, TypeOK
  <2>10. q.v \in Trucks
    BY <1>1, <1>3 DEF SlotFit
  <2>11. vehicle'[slot.v] = vehicle[slot.v]
    BY <2>7, <2>8, <2>9, <2>10 DEF Vehicles
  <2>12. ActiveFor(slot.v)' = ActiveFor(slot.v) /\ ActiveOf(slot.p)' = ActiveOf(slot.p)
    BY <1>2, SameActives
  <2>13. ASSUME NEW j \in slot.todo, assignment[j].vehicleId \in Trucks
         PROVE  slot.seen[assignment[j].vehicleId] = vehicle'[assignment[j].vehicleId]
    <3>1. j \in q.todo /\ j # i
      BY <2>7, <2>13
    <3>2. j \in ActiveFor(assignment[j].vehicleId)
      BY <1>4, <3>1 DEF Visiting, ActiveOf, ActiveFor
    <3>3. assignment[j].vehicleId # v
      BY <1>4, <2>2, <2>13, <3>1, <3>2 DEF OneEach
    <3>4. q.seen[assignment[j].vehicleId] = vehicle[assignment[j].vehicleId]
      BY <1>4, <2>13, <3>1 DEF Visiting
    <3> QED BY <2>7, <2>9, <2>13, <3>3, <3>4 DEF Vehicles
  <2>14. slot.todo \in SUBSET ActiveOf(slot.p)'
    BY <1>4, <2>7, <2>12 DEF Visiting
  <2>15. Visiting(slot)'
    BY <1>2, <2>13, <2>14 DEF Visiting
  <2>16. ASSUME NEW j \in ActiveOf(slot.p) \ slot.todo, assignment[j].vehicleId \in Trucks
         PROVE  vehicle'[assignment[j].vehicleId].status # "IN_USE"
    <3>1. CASE assignment[j].vehicleId = v
      BY <2>3, <2>5, <2>9, <2>16, <3>1
    <3>2. CASE assignment[j].vehicleId # v
      <4>1. j # i
        BY <3>2
      <4>2. vehicle[assignment[j].vehicleId].status # "IN_USE"
        BY <1>2, <1>4, <2>7, <2>16, <4>1 DEF AssignStep
      <4> QED BY <2>9, <2>16, <3>2, <4>2 DEF Vehicles
    <3> QED BY <3>1, <3>2
  <2>22. slot.v \notin entered'
    <3>1. q.v \notin entered
      BY <1>4 DEF AssignStep
    <3> QED BY <2>4, <2>7, <2>8, <2>10, <3>1, EnteredWritten
  <2>17. AssignStep(slot)'
    BY <1>2, <1>4, <2>7, <2>11, <2>12, <2>15, <2>16, <2>22 DEF AssignStep
  <2>18. InStep(slot)'
    BY <2>7, <2>17 DEF InStep
  <2>19. \A t \in Trucks \ {v} : Owed(slot, t) \/ Even(t)
    <3>1. ASSUME NEW t, Owed(q, t) PROVE Owed(slot, t)
      BY <1>2, <2>7, <3>1 DEF Owed
    <3> QED BY <3>1 DEF Books
  <2>20. Owed(slot, v)
    BY <2>2, <2>7 DEF Owed
  <2>21. v \in Trucks => doc.isActive /\ doc.here /\ doc.status # "ABSENT"
    BY <1>4, <2>2, <2>4, <2>5 DEF Fit
  <2> HIDE DEF v
  <2> QED BY <1>2, <1>4, <2>4, <2>18, <2>19, <2>20, <2>21, WroteBooks
<1> QED BY <1>5, <1>6 DEF FreePrevious

LEMMA FreeNextBooks ==
    ASSUME TypeInv, KeepEntered, NEW r \in Requests, NEW slot, slot = req'[r], Books(req[r]), FreeNext(r)
    PROVE  Books(slot)'
<1> DEFINE q == req[r]
           v == assignment[q.now].vehicleId
           new == Released(q.op, v, q.seen[v])
           doc == Saved(vehicle[v], q.seen[v], new)
<1>1. req \in [Requests -> RequestState] /\ q \in RequestState /\ SlotFit(q)
  BY DEF TypeInv, TypeOK
<1>2. /\ q.step = "freeNext" /\ assignment' = assignment
      /\ vehicle' = [vehicle EXCEPT ![v] = doc]
      /\ req' = [req EXCEPT ![r].step = "endNext", ![r].now = 0]
  BY DEF FreeNext
<1>3. q.op \in {"unassign", "deactivate"}
  BY <1>1, <1>2, CallOf
<1>4. EndStep(q) /\ OneEach /\ Fit
  BY <1>3 DEF Books, InStep
<1>5. Visiting(q) /\ q.now \in DOMAIN assignment
  BY <1>2, <1>4 DEF EndStep
<1>6. assignment[q.now] \in AssignmentDoc
  BY <1>5 DEF TypeInv, TypeOK
<1>7. v \in Vehicles
  BY <1>6 DEF AssignmentDoc
<1>8. vehicle[v] \in VehicleDoc
  BY <1>7 DEF TypeInv, TypeOK
<1>9. v \in Trucks => ActiveFor(v) = {} /\ vehicle[v].isActive /\ q.seen[v] = vehicle[v]
  BY <1>2, <1>4 DEF EndStep
<1>10. v \in Trucks => doc.status = "AVAILABLE"
  <2>1. ASSUME v \in Trucks PROVE doc.status = "AVAILABLE"
    <3>1. v \notin People
      BY <2>1, NoneIs
    <3>2. new = [vehicle[v] EXCEPT !.status = "AVAILABLE"]
      BY <1>3, <1>9, <2>1, <3>1 DEF Released
    <3>3. new.status = "AVAILABLE"
      BY <1>8, <3>2 DEF VehicleDoc
    <3>4. doc.status = Written(vehicle[v].status, q.seen[v].status, new.status)
      BY <1>8, SavedFields
    <3> QED BY <1>9, <2>1, <3>3, <3>4 DEF Written
  <2> QED BY <2>1
<1>11. slot = [q EXCEPT !.step = "endNext", !.now = 0]
  BY <1>1, <1>2
<1>12. /\ slot.step = "endNext" /\ slot.op = q.op /\ slot.p = q.p /\ slot.todo = q.todo
       /\ slot.seen = q.seen
  BY <1>1, <1>11 DEF RequestState
<1>13. \A w \in Vehicles : vehicle'[w] = IF w = v THEN doc ELSE vehicle[w]
  BY <1>2 DEF TypeInv, TypeOK
<1> HIDE DEF doc, new
<1>14. ASSUME NEW j \in slot.todo, assignment[j].vehicleId \in Trucks
       PROVE  slot.seen[assignment[j].vehicleId] = vehicle'[assignment[j].vehicleId]
  <2>1. j \in ActiveFor(assignment[j].vehicleId)
    BY <1>5, <1>12, <1>14 DEF Visiting, ActiveOf, ActiveFor
  <2>2. assignment[j].vehicleId # v
    BY <1>9, <1>14, <2>1
  <2>3. q.seen[assignment[j].vehicleId] = vehicle[assignment[j].vehicleId]
    BY <1>5, <1>12, <1>14 DEF Visiting
  <2> QED BY <1>12, <1>13, <1>14, <2>2, <2>3 DEF Vehicles
<1>15. slot.todo \in SUBSET ActiveOf(slot.p)'
  <2>1. ActiveOf(slot.p)' = ActiveOf(slot.p)
    BY <1>2, SameActives
  <2> QED BY <1>5, <1>12, <2>1 DEF Visiting
<1>16. Visiting(slot)'
  BY <1>2, <1>14, <1>15 DEF Visiting
<1>17. InStep(slot)'
  BY <1>3, <1>12, <1>16 DEF InStep, EndStep
<1>18. \A t \in Trucks \ {v} : Even(t)
  BY <1>2 DEF Books, Owed
<1>19. v \in Trucks => (doc.status = "IN_USE" <=> (ActiveFor(v) # {} \/ Entering(v, doc)))
  BY <1>9, <1>10 DEF Entering
<1>20. (v \in Trucks /\ ActiveFor(v) # {}) => (doc.isActive /\ doc.here /\ doc.status # "ABSENT")
  BY <1>9
<1> HIDE DEF v
<1> QED BY <1>2, <1>4, <1>17, <1>18, <1>19, <1>20, WroteBooks

-----------------------------------------------------------------------------
(* The steps that write assignments                                           *)

LEMMA EndActives ==
    ASSUME TypeInv, NEW ended, End(ended)
    PROVE  /\ \A v : ActiveFor(v)' = ActiveFor(v) \ ended
           /\ \A p : ActiveOf(p)' = ActiveOf(p) \ ended
           /\ \A i \in DOMAIN assignment :
                /\ assignment'[i].driverId = assignment[i].driverId
                /\ assignment'[i].vehicleId = assignment[i].vehicleId
                /\ assignment'[i].primary = assignment[i].primary
<1>1. DOMAIN assignment' = DOMAIN assignment
  BY EndKeeps DEF Kept
<1>2. ASSUME NEW i \in DOMAIN assignment
      PROVE  /\ assignment'[i].driverId = assignment[i].driverId
             /\ assignment'[i].vehicleId = assignment[i].vehicleId
             /\ assignment'[i].primary = assignment[i].primary
             /\ assignment'[i].isActive <=> (assignment[i].isActive /\ i \notin ended)
  <2>1. assignment[i] \in AssignmentDoc
    BY DEF TypeInv, TypeOK
  <2>2. assignment'[i] = IF i \in ended THEN [assignment[i] EXCEPT !.isActive = FALSE] ELSE assignment[i]
    BY DEF End
  <2>3. CASE i \in ended
    BY <2>1, <2>2, <2>3 DEF AssignmentDoc
  <2>4. CASE i \notin ended
    BY <2>2, <2>4
  <2> QED BY <2>3, <2>4
<1>3. ASSUME NEW v PROVE ActiveFor(v)' = ActiveFor(v) \ ended
  BY <1>1, <1>2 DEF ActiveFor
<1>4. ASSUME NEW p PROVE ActiveOf(p)' = ActiveOf(p) \ ended
  BY <1>1, <1>2 DEF ActiveOf
<1> QED BY <1>2, <1>3, <1>4

\* The books after assignments ended.
LEMMA EndedBooks ==
    ASSUME TypeInv, KeepEntered, NEW slot, NEW ended, End(ended), OneEach, Fit, UNCHANGED vehicle,
           \A t \in Trucks :
                \/ Owed(slot, t)'
                \/ (vehicle[t].status = "IN_USE" <=> (ActiveFor(t) \ ended # {} \/ t \in entered)),
           InStep(slot)'
    PROVE  Books(slot)'
<1>1. /\ \A v : ActiveFor(v)' = ActiveFor(v) \ ended
      /\ \A p : ActiveOf(p)' = ActiveOf(p) \ ended
      /\ \A i \in DOMAIN assignment : assignment'[i].primary = assignment[i].primary
  BY EndActives
<1>5. entered' = entered
  BY SameEntered
<1>2. \A p : \A i \in ActiveOf(p) : i \in DOMAIN assignment
  BY DEF ActiveOf
<1>3. OneEach'
  BY <1>1, <1>2 DEF OneEach
<1>4. Fit' /\ \A t \in Trucks : Owed(slot, t)' \/ Even(t)'
  BY <1>1, <1>5 DEF Fit, Even
<1> QED BY <1>3, <1>4 DEF Books

LEMMA EndPartBooks ==
    ASSUME TypeInv, KeepEntered, NEW r \in Requests, NEW slot, slot = req'[r], Books(req[r]),
           EndDrivers(r) \/ EndTrucks(r)
    PROVE  Books(slot)'
<1> DEFINE q == req[r]
<1>1. req \in [Requests -> RequestState] /\ q \in RequestState /\ SlotFit(q)
  BY DEF TypeInv, TypeOK
<1>2. q.step \in {"endDrivers", "endTrucks"} /\ vehicle' = vehicle
  BY DEF EndDrivers, EndTrucks
<1>3. q.op = "assign"
  BY <1>1, <1>2, CallOf
<1>4. AssignStep(q) /\ OneEach /\ Fit
  BY <1>3 DEF Books, InStep
<1>7. entered' = entered
  BY <1>2, SameEntered
<1>5. CASE EndDrivers(r)
  <2> DEFINE ended == ActiveOf(q.p)
  <2>1. q.step = "endDrivers" /\ End(ended) /\ Goto(r, "endTrucks")
    BY <1>5 DEF EndDrivers
  <2>2. SameData(q, slot) /\ slot.step = "endTrucks"
    BY <2>1, GotoSlot
  <2>3. slot.op = "assign" /\ slot.v = q.v /\ slot.p = q.p /\ slot.seen = q.seen
    BY <1>3, <2>2 DEF SameData, SameCall
  <2>4. ActiveFor(slot.v)' = ActiveFor(slot.v) \ ended /\ ActiveOf(slot.p)' = ActiveOf(slot.p) \ ended
    BY <2>1, EndActives
  <2>5. ActiveFor(slot.v)' = {} /\ ActiveOf(slot.p)' = {}
    BY <1>4, <2>3, <2>4 DEF AssignStep
  <2>6. AssignStep(slot)'
    BY <1>2, <1>4, <1>7, <2>1, <2>2, <2>3, <2>5 DEF AssignStep
  <2>7. InStep(slot)'
    BY <2>3, <2>6 DEF InStep
  <2>8. q.todo = {} /\ \A i \in ActiveOf(q.p) :
            assignment[i].vehicleId \in Trucks => vehicle[assignment[i].vehicleId].status # "IN_USE"
    BY <1>4, <2>1 DEF AssignStep
  <2>9. ASSUME NEW t \in Trucks
        PROVE  vehicle[t].status = "IN_USE" <=> (ActiveFor(t) \ ended # {} \/ t \in entered)
    <3>1. CASE ActiveFor(t) \cap ended = {}
      <4>1. ~Owed(q, t)
        BY <2>1, <3>1 DEF Owed
      <4>2. Even(t)
        BY <4>1 DEF Books
      <4> QED BY <3>1, <4>2 DEF Even
    <3>2. CASE ActiveFor(t) \cap ended # {}
      <4>1. PICK i : i \in ActiveFor(t) /\ i \in ended
        BY <3>2
      <4>2. assignment[i].vehicleId = t
        BY <4>1 DEF ActiveFor
      <4>3. vehicle[t].status # "IN_USE"
        BY <2>8, <4>1, <4>2
      <4>4. \A j \in ActiveFor(t) : j = i
        BY <1>4, <4>1 DEF OneEach
      <4>5. t \notin entered
        BY <1>4, <4>1 DEF Fit
      <4> QED BY <4>1, <4>3, <4>4, <4>5
    <3> QED BY <3>1, <3>2
  <2> HIDE DEF ended
  <2> QED BY <1>2, <1>4, <2>1, <2>7, <2>9, EndedBooks
<1>6. CASE EndTrucks(r)
  <2> DEFINE ended == {i \in ActiveFor(q.v) : assignment[i].primary}
  <2>1. q.step = "endTrucks" /\ End(ended) /\ Goto(r, "driverSave")
    BY <1>6 DEF EndTrucks
  <2>2. SameData(q, slot) /\ slot.step = "driverSave"
    BY <2>1, GotoSlot
  <2>3. /\ slot.op = "assign" /\ slot.v = q.v /\ slot.p = q.p /\ slot.seen = q.seen
        /\ slot.primary = q.primary
    BY <1>3, <2>2 DEF SameData, SameCall
  <2>4. ended = {}
    BY <1>4 DEF AssignStep
  <2> HIDE DEF ended
  <2>5. ActiveFor(slot.v)' = ActiveFor(slot.v) \ ended /\ ActiveOf(slot.p)' = ActiveOf(slot.p) \ ended
    BY <2>1, EndActives
  <2>6. ActiveFor(slot.v)' = ActiveFor(slot.v) /\ ActiveOf(slot.p)' = ActiveOf(slot.p)
    BY <2>4, <2>5
  <2>7. AssignStep(slot)'
    BY <1>2, <1>4, <1>7, <2>1, <2>2, <2>3, <2>6 DEF AssignStep
  <2>8. InStep(slot)'
    BY <2>3, <2>7 DEF InStep
  <2>9. \A t \in Trucks : Even(t)
    BY <2>1 DEF Books, Owed
  <2>10. \A t \in Trucks :
            vehicle[t].status = "IN_USE" <=> (ActiveFor(t) \ ended # {} \/ t \in entered)
    BY <2>4, <2>9 DEF Even
  <2> QED BY <1>2, <1>4, <2>1, <2>8, <2>10, EndedBooks
<1> QED BY <1>5, <1>6

LEMMA EndNextBooks ==
    ASSUME TypeInv, KeepEntered, NEW r \in Requests, NEW slot, slot = req'[r], Books(req[r]), EndNext(r)
    PROVE  Books(slot)'
<1> DEFINE q == req[r]
<1>1. req \in [Requests -> RequestState] /\ q \in RequestState /\ SlotFit(q)
  BY DEF TypeInv, TypeOK
<1>2. q.step = "endNext" /\ vehicle' = vehicle
  BY DEF EndNext
<1>3. q.op \in {"unassign", "deactivate"}
  BY <1>1, <1>2, CallOf
<1>4. Visiting(q) /\ OneEach /\ Fit
  BY <1>2, <1>3 DEF Books, InStep, EndStep
<1>5. \A t \in Trucks : ~Owed(q, t) /\ Even(t)
  BY <1>2 DEF Books, Owed
<1>6. CASE /\ Goto(r, IF q.op = "deactivate" THEN "retireOwn" ELSE "releaseSave")
           /\ UNCHANGED assignment
  <2>1. SameData(q, slot) /\ slot.step \in {"retireOwn", "releaseSave"}
    BY <1>6, GotoSlot
  <2>2. InStep(slot)
    BY <1>3, <2>1 DEF InStep, EndStep, SameData, SameCall
  <2> QED BY <1>2, <1>5, <1>6, <2>2, StillBooks
<1>7. CASE \E i \in q.todo :
              /\ End({i})
              /\ req' = [req EXCEPT ![r].step = "freeNext", ![r].todo = @ \ {i}, ![r].now = i]
  <2>1. PICK i \in q.todo :
              /\ End({i})
              /\ req' = [req EXCEPT ![r].step = "freeNext", ![r].todo = @ \ {i}, ![r].now = i]
    BY <1>7
  <2>2. slot = [q EXCEPT !.step = "freeNext", !.todo = @ \ {i}, !.now = i]
    BY <1>1, <2>1
  <2>3. /\ slot.step = "freeNext" /\ slot.op = q.op /\ slot.p = q.p /\ slot.seen = q.seen
        /\ slot.todo = q.todo \ {i} /\ slot.now = i
    BY <1>1, <2>2 DEF RequestState
  <2>4. End({i})
    BY <2>1
  <2> PICK v : v = assignment[i].vehicleId
    OBVIOUS
  <2>5. i \in ActiveOf(q.p) /\ i \in DOMAIN assignment /\ i \in ActiveFor(v)
    BY <1>4, <2>1 DEF Visiting, ActiveOf, ActiveFor
  <2>6. /\ \A w : ActiveFor(w)' = ActiveFor(w) \ {i}
        /\ \A p : ActiveOf(p)' = ActiveOf(p) \ {i}
        /\ \A j \in DOMAIN assignment : assignment'[j].vehicleId = assignment[j].vehicleId
    BY <2>4, EndActives
  <2>7. v \in Trucks => ActiveFor(v)' = {} /\ vehicle[v].isActive /\ q.seen[v] = vehicle[v]
    <3>1. v \in Trucks => \A j \in ActiveFor(v) : j = i
      BY <1>4, <2>5 DEF OneEach
    <3>2. v \in Trucks => vehicle[v].isActive
      BY <1>4, <2>5 DEF Fit
    <3> QED BY <1>4, <2>1, <2>6, <3>1, <3>2 DEF Visiting
  <2>8. assignment'[slot.now].vehicleId = v /\ slot.now \in DOMAIN assignment'
    <3>1. DOMAIN assignment' = DOMAIN assignment
      BY <2>4, EndKeeps DEF Kept
    <3> QED BY <2>3, <2>5, <2>6, <3>1
  <2>9. \A j \in slot.todo : j \in q.todo /\ j \in DOMAIN assignment
    BY <1>4, <2>3 DEF Visiting, ActiveOf
  <2>10. ASSUME NEW j \in slot.todo, assignment'[j].vehicleId \in Trucks
         PROVE  slot.seen[assignment'[j].vehicleId] = vehicle'[assignment'[j].vehicleId]
    BY <1>2, <1>4, <2>3, <2>6, <2>9, <2>10 DEF Visiting
  <2>11. slot.todo \in SUBSET ActiveOf(slot.p)'
    <3>1. ActiveOf(slot.p)' = ActiveOf(q.p) \ {i}
      BY <2>3, <2>6
    <3> QED BY <1>4, <2>3, <3>1 DEF Visiting
  <2>12. Visiting(slot)'
    BY <2>10, <2>11 DEF Visiting
  <2>13. ASSUME assignment'[slot.now].vehicleId \in Trucks
         PROVE  /\ ActiveFor(assignment[slot.now].vehicleId)' = {}
                /\ vehicle'[assignment'[slot.now].vehicleId].isActive
                /\ slot.seen[assignment'[slot.now].vehicleId] = vehicle'[assignment'[slot.now].vehicleId]
    <3>1. ActiveFor(v)' = {} /\ vehicle'[v].isActive /\ slot.seen[v] = vehicle'[v]
      BY <1>2, <2>3, <2>7, <2>8, <2>13
    <3> QED BY <2>3, <2>8, <3>1 DEF ActiveFor
  <2>14. EndStep(slot)'
    BY <2>8, <2>12, <2>13 DEF EndStep
  <2>15. InStep(slot)'
    BY <1>3, <2>3, <2>14 DEF InStep
  <2>16. ASSUME NEW t \in Trucks
         PROVE  \/ Owed(slot, t)'
                \/ (vehicle[t].status = "IN_USE" <=> (ActiveFor(t) \ {i} # {} \/ t \in entered))
    <3>1. CASE t = v
      BY <2>3, <2>8, <3>1 DEF Owed
    <3>2. CASE t # v
      <4>1. i \notin ActiveFor(t)
        BY <3>2 DEF ActiveFor
      <4> QED BY <1>5, <4>1 DEF Even
    <3> QED BY <3>1, <3>2
  <2> QED BY <1>2, <1>4, <2>4, <2>15, <2>16, EndedBooks
<1> QED BY <1>6, <1>7 DEF EndNext

LEMMA AssignActives ==
    ASSUME TypeInv, NEW p \in People, NEW v \in Vehicles, NEW primary \in BOOLEAN, Assign(p, v, primary),
           NEW n, n = Len(assignment) + 1
    PROVE  /\ \A w : ActiveFor(w)' = IF w = v THEN ActiveFor(w) \cup {n} ELSE ActiveFor(w)
           /\ \A s : ActiveOf(s)' = IF s = p THEN ActiveOf(s) \cup {n} ELSE ActiveOf(s)
           /\ \A i \in DOMAIN assignment : i # n /\ assignment'[i] = assignment[i]
           /\ assignment'[n].primary = primary /\ n \notin DOMAIN assignment
<1> DEFINE doc == [driverId |-> p, vehicleId |-> v, primary |-> primary, isActive |-> TRUE]
<1>1. doc \in AssignmentDoc /\ assignment \in Seq(AssignmentDoc)
  BY DEF AssignmentDoc, TypeInv, TypeOK
<1>2. doc.driverId = p /\ doc.vehicleId = v /\ doc.primary = primary /\ doc.isActive
  OBVIOUS
<1>3. assignment' = Append(assignment, doc)
  BY DEF Assign
<1> HIDE DEF doc
<1>4. /\ Len(assignment) \in Nat /\ DOMAIN assignment = 1..Len(assignment)
      /\ DOMAIN assignment' = 1..n /\ assignment'[n] = doc
      /\ \A i \in 1..Len(assignment) : assignment'[i] = assignment[i]
  BY <1>1, <1>3
<1>5. DOMAIN assignment' = DOMAIN assignment \cup {n} /\ n \notin DOMAIN assignment
  BY <1>4
<1>6. ASSUME NEW w PROVE ActiveFor(w)' = IF w = v THEN ActiveFor(w) \cup {n} ELSE ActiveFor(w)
  BY <1>2, <1>4, <1>5 DEF ActiveFor
<1>7. ASSUME NEW s PROVE ActiveOf(s)' = IF s = p THEN ActiveOf(s) \cup {n} ELSE ActiveOf(s)
  BY <1>2, <1>4, <1>5 DEF ActiveOf
<1> QED BY <1>2, <1>4, <1>5, <1>6, <1>7

\* The books after an assignment was made.
LEMMA MadeBooks ==
    ASSUME TypeInv, KeepEntered, NEW slot, NEW p \in People, NEW v \in Vehicles, NEW primary \in BOOLEAN,
           Assign(p, v, primary), OneEach, Fit, UNCHANGED vehicle,
           v \in Trucks => /\ ActiveFor(v) = {} /\ vehicle[v].isActive /\ vehicle[v].here
                           /\ vehicle[v].status # "ABSENT" /\ v \notin entered,
           primary => ActiveOf(p) = {},
           \A t \in Trucks \ {v} : Even(t),
           v \in Trucks => Owed(slot, v)' \/ vehicle[v].status = "IN_USE",
           InStep(slot)'
    PROVE  Books(slot)'
<1> DEFINE n == Len(assignment) + 1
<1>1. /\ \A w : ActiveFor(w)' = IF w = v THEN ActiveFor(w) \cup {n} ELSE ActiveFor(w)
      /\ \A s : ActiveOf(s)' = IF s = p THEN ActiveOf(s) \cup {n} ELSE ActiveOf(s)
      /\ \A i \in DOMAIN assignment : i # n /\ assignment'[i] = assignment[i]
      /\ assignment'[n].primary = primary /\ n \notin DOMAIN assignment
  BY AssignActives
<1> HIDE DEF n
<1>2. \A s : \A i \in ActiveOf(s) : i \in DOMAIN assignment
  BY DEF ActiveOf
<1>3. ASSUME NEW t \in Trucks PROVE \A i, j \in ActiveFor(t)' : i = j
  BY <1>1 DEF OneEach
<1>4. ASSUME NEW s \in People, NEW i \in ActiveOf(s)', NEW j \in ActiveOf(s)',
             assignment'[i].primary, assignment'[j].primary
      PROVE  i = j
  <2>1. CASE s = p /\ primary
    BY <1>1, <1>4, <2>1
  <2>2. CASE s = p /\ ~primary
    BY <1>1, <1>2, <1>4, <2>2 DEF OneEach
  <2>3. CASE s # p
    BY <1>1, <1>2, <1>4, <2>3 DEF OneEach
  <2> QED BY <2>1, <2>2, <2>3
<1>5. OneEach'
  BY <1>3, <1>4 DEF OneEach
<1>8. entered' = entered
  BY SameEntered
<1>6. Fit'
  BY <1>1, <1>8 DEF Fit
<1>7. \A t \in Trucks : Owed(slot, t)' \/ Even(t)'
  BY <1>1, <1>8 DEF Even
<1> QED BY <1>5, <1>6, <1>7 DEF Books

LEMMA AssignBooks ==
    ASSUME TypeInv, KeepEntered, NEW r \in Requests, NEW slot, slot = req'[r], Books(req[r]),
           AssignInsert(r) \/ OwnAssign(r) \/ TruckAssign(r)
    PROVE  Books(slot)'
<1> DEFINE q == req[r]
<1>1. req \in [Requests -> RequestState] /\ q \in RequestState /\ SlotFit(q)
  BY DEF TypeInv, TypeOK
<1>2. vehicle' = vehicle /\ OneEach /\ Fit
  BY DEF AssignInsert, OwnAssign, TruckAssign, Books
<1>3. CASE AssignInsert(r)
  <2>1. q.step = "assignInsert" /\ Assign(q.p, q.v, q.primary) /\ slot = Idle
    BY <1>3, FinishSlot DEF AssignInsert
  <2>2. q.op = "assign"
    BY <1>1, <2>1, CallOf
  <2>3. q.p \in People /\ q.v \in Trucks /\ q.v \in Vehicles /\ q.primary \in BOOLEAN
    BY <1>1, <2>2 DEF SlotFit, RequestState, Vehicles
  <2>4. AssignStep(q)
    BY <2>2 DEF Books, InStep
  <2>5. /\ ActiveFor(q.v) = {} /\ vehicle[q.v].isActive /\ vehicle[q.v].here
        /\ vehicle[q.v].status = "IN_USE" /\ (q.primary => ActiveOf(q.p) = {})
        /\ q.v \notin entered
    BY <2>1, <2>4 DEF AssignStep
  <2>6. \A t \in Trucks \ {q.v} : Even(t)
    BY <2>1 DEF Books, Owed
  <2>7. InStep(slot)'
    BY <2>1, IdleIs DEF InStep
  <2> QED BY <1>2, <2>1, <2>3, <2>5, <2>6, <2>7, MadeBooks
<1>4. CASE OwnAssign(r)
  <2>1. q.step = "ownAssign" /\ Assign(q.p, q.p, TRUE) /\ Goto(r, "approveSave")
    BY <1>4 DEF OwnAssign
  <2>2. q.op = "approve"
    BY <1>1, <2>1, CallOf
  <2>3. q.p \in People /\ q.p \in Vehicles /\ q.p \notin Trucks
    BY <1>1, <2>2, NoneIs DEF SlotFit, Vehicles
  <2>4. ActiveOf(q.p) = {}
    BY <2>1, <2>2 DEF Books, InStep, ApproveStep
  <2>5. \A t \in Trucks : Even(t)
    BY <2>1 DEF Books, Owed
  <2>6. slot.step = "approveSave" /\ slot.op = "approve"
    BY <2>1, <2>2, GotoSlot DEF SameData, SameCall
  <2>7. InStep(slot)'
    BY <2>6 DEF InStep, ApproveStep
  <2> QED BY <1>2, <2>1, <2>3, <2>4, <2>5, <2>7, MadeBooks
<1>5. CASE TruckAssign(r)
  <2> PICK t : t = q.v
    OBVIOUS
  <2>1. q.step = "truckAssign" /\ Assign(q.p, t, TRUE) /\ Goto(r, "truckSave")
    BY <1>5 DEF TruckAssign
  <2>2. q.op = "approve"
    BY <1>1, <2>1, CallOf
  <2>3. q.p \in People /\ t \in Trucks /\ t \in Vehicles
    BY <1>1, <2>1, <2>2 DEF SlotFit, Vehicles
  <2>4. /\ ActiveOf(q.p) = {} /\ ActiveFor(t) = {} /\ TruckReady(vehicle[t])
        /\ q.seen[t].status = "AVAILABLE"
    BY <2>1, <2>2 DEF Books, InStep, ApproveStep
  <2>5. \A w \in Trucks : Even(w)
    BY <2>1 DEF Books, Owed
  <2>6. slot.step = "truckSave" /\ slot.op = "approve" /\ slot.v = t /\ slot.seen = q.seen
    BY <2>1, <2>2, GotoSlot DEF SameData, SameCall
  <2>7. ActiveFor(t)' # {}
    <3>1. PICK n : n = Len(assignment) + 1
      OBVIOUS
    <3>2. PICK p \in People : p = q.p
      BY <2>3
    <3>3. PICK primary \in BOOLEAN : Assign(p, t, primary)
      BY <2>1, <3>2
    <3>4. \A w : ActiveFor(w)' = IF w = t THEN ActiveFor(w) \cup {n} ELSE ActiveFor(w)
      BY <2>3, <3>1, <3>3, AssignActives
    <3> QED BY <3>4
  <2>8. ActiveFor(slot.v)' = ActiveFor(t)'
    BY <2>6 DEF ActiveFor
  <2>9. ApproveStep(slot)'
    BY <1>2, <2>4, <2>6, <2>7, <2>8 DEF ApproveStep, TruckReady
  <2>10. InStep(slot)'
    BY <2>6, <2>9 DEF InStep
  <2>11. Owed(slot, t)'
    BY <2>6 DEF Owed
  <2>12. vehicle[t].status = "AVAILABLE" /\ vehicle[t].isActive /\ vehicle[t].here
    BY <2>4 DEF TruckReady
  <2>13. t \notin entered
    BY <2>12 DEF TypeInv
  <2> QED BY <1>2, <2>1, <2>3, <2>4, <2>5, <2>10, <2>11, <2>12, <2>13, MadeBooks
<1> QED BY <1>3, <1>4, <1>5

LEMMA ContinueBooks ==
    ASSUME TypeInv, KeepEntered, DriversOnly, NEW r \in Requests, NEW slot, slot = req'[r], Books(req[r]), Continue(r)
    PROVE  Books(slot)'
<1>1. CASE VehicleCheck(r) \/ CheckTruckFree(r) \/ CheckCodeFree(r)
  BY <1>1, CheckBooks
<1>2. CASE FindCurrent(r)
  BY <1>2, FindBooks
<1>3. CASE \/ DriverSave(r) \/ ReleaseSave(r) \/ CodeSave(r) \/ ApplyCheck(r) \/ ApplyInsert(r)
           \/ ApproveSave(r) \/ RejectSave(r)
  BY <1>3, CallerBooks
<1>4. CASE ReviewUser(r) \/ UpgradeSave(r) \/ AccountInsert(r) \/ TruckFind(r)
  BY <1>4, AccountBooks
<1>5. CASE InsertTruck(r) \/ VehicleSave(r)
  BY <1>5, TruckBooks
<1>6. CASE RetireOwn(r) \/ OwnInsert(r)
  BY <1>6, OwnBooks
<1>7. CASE InUseSave(r) \/ TruckSave(r) \/ FreePrevious(r) \/ FreeNext(r)
  BY <1>7, InUseBooks, TruckSaveBooks, PreviousBooks, FreeNextBooks
<1>8. CASE EndDrivers(r) \/ EndTrucks(r)
  BY <1>8, EndPartBooks
<1>9. CASE EndNext(r)
  BY <1>9, EndNextBooks
<1>10. CASE AssignInsert(r) \/ OwnAssign(r) \/ TruckAssign(r)
  BY <1>10, AssignBooks
<1> QED
  BY <1>1, <1>2, <1>3, <1>4, <1>5, <1>6, <1>7, <1>8, <1>9, <1>10 DEF Continue

\* A call that begins alone finds the books in order.
LEMMA BeginBooks ==
    ASSUME TypeInv, KeepEntered, NEW r \in Requests, NEW slot, Begun(r, slot), Books(Idle)
    PROVE  Books(slot)' /\ Books(Idle)'
<1>1. UNCHANGED <<vehicle, assignment>> /\ Loaded(slot) /\ slot \in RequestState /\ SlotFit(slot)
  BY DEF Begun, Start
<1>2. OneEach /\ Fit /\ \A t \in Trucks : Even(t)
  BY IdleBooks DEF Books
<1>3. Books(Idle)'
  BY <1>1, IdleBooks, StillBooks
<1>4. CASE slot.op \in {"update", "retire", "activate"}
  <2>1. slot.v \in Trucks
    BY <1>1, <1>4 DEF SlotFit
  <2>2. Even(slot.v) /\ (ActiveFor(slot.v) # {} => vehicle[slot.v].isActive /\ vehicle[slot.v].here)
    BY <1>2, <2>1 DEF Fit
  <2>3. TruckStep(slot)
    BY <1>1, <1>4, <2>2 DEF Loaded, TruckStep, Even
  <2>4. InStep(slot)
    BY <1>4, <2>3 DEF InStep
  <2> QED BY <1>1, <1>3, <2>4, IdleBooks, StillBooks
<1>5. CASE slot.op = "assign"
  <2>1. slot.v \in Trucks
    BY <1>1, <1>5 DEF SlotFit
  <2>2. /\ slot.step = "assignVehicle" /\ TruckReady(vehicle[slot.v])
        /\ slot.seen[slot.v].status = "AVAILABLE"
    BY <1>1, <1>5 DEF Loaded
  <2>3. ActiveFor(slot.v) = {} /\ slot.v \notin entered
    BY <1>2, <2>1, <2>2 DEF Even, TruckReady
  <2>4. AssignStep(slot)
    BY <2>2, <2>3 DEF AssignStep, TruckReady
  <2>5. InStep(slot)
    BY <1>5, <2>4 DEF InStep
  <2> QED BY <1>1, <1>3, <2>5, IdleBooks, StillBooks
<1>6. CASE slot.op \notin {"update", "retire", "activate", "assign"}
  <2>1. InStep(slot)
    BY <1>1, <1>6 DEF InStep, Loaded, EndStep, ApproveStep
  <2> QED BY <1>1, <1>3, <2>1, IdleBooks, StillBooks
<1> QED BY <1>4, <1>5, <1>6

Alone == \A r, s \in Requests : req[r] # Idle /\ req[s] # Idle => r = s

\* While handlers run one at a time the books hold between them, and the one
\* that runs knows what it owes.
CalmInv ==
    /\ DriversOnly
    /\ Calm =>
        /\ Alone
        /\ Quiet => Books(Idle)
        /\ \A r \in Requests : req[r] # Idle => Books(req[r])

LEMMA InitCalm == Init => CalmInv
<1> SUFFICES ASSUME Init PROVE CalmInv
  OBVIOUS
<1>1. assignment = <<>> /\ vehicle = [v \in Vehicles |-> NoVehicle] /\ req = [r \in Requests |-> Idle]
  BY DEF Init
<1>2. \A r \in Requests : req[r] = Idle
  BY <1>1
<1>3. \A v : ActiveFor(v) = {}
  BY <1>1 DEF ActiveFor
<1>4. \A p : ActiveOf(p) = {}
  BY <1>1 DEF ActiveOf
<1>5. \A t \in Trucks : vehicle[t].status = "ABSENT"
  BY <1>1 DEF Vehicles, NoVehicle
<1>8. entered = {}
  BY DEF Init
<1>6. Books(Idle)
  BY <1>3, <1>4, <1>5, <1>8, IdleBooks DEF Books, OneEach, Fit, Even
<1>7. DriversOnly
  BY <1>1, <1>2, IdleIs DEF DriversOnly
<1> QED BY <1>2, <1>6, <1>7 DEF CalmInv, Alone

LEMMA DriversStay ==
    ASSUME Inv, DriversOnly, NEW r \in Requests, Continue(r)
    PROVE  DriversOnly'
<1>1. TypeInv /\ req \in [Requests -> RequestState] /\ SlotFit(req[r]) /\ req[r] \in RequestState
  BY DEF Inv, TypeInv, TypeOK
<1>2. \A p \in People : user[p].role = "DRIVER" => user'[p].role = "DRIVER"
  BY <1>1, UsersMove
<1>3. PICK slot : Moved(r, slot)
  BY <1>1, ContinueMoves DEF Moves
<1>4. /\ slot \in RequestState /\ SlotFit(slot) /\ req' = [req EXCEPT ![r] = slot]
      /\ slot = Idle \/ SameCall(req[r], slot)
  BY <1>3 DEF Moved
<1>5. ASSUME NEW s \in Requests, req'[s].op = "assign" PROVE user'[req'[s].p].role = "DRIVER"
  <2>1. req[s].op = "assign" /\ req'[s].p = req[s].p
    <3>1. CASE s = r
      BY <1>1, <1>4, <1>5, <3>1, IdleIs DEF SameCall
    <3>2. CASE s # r
      BY <1>1, <1>4, <1>5, <3>2
    <3> QED BY <3>1, <3>2
  <2>2. req[s].p \in People
    BY <2>1 DEF Inv, TypeInv, SlotFit
  <2> QED BY <1>2, <2>1, <2>2 DEF DriversOnly
<1>6. ASSUME Kept PROVE \A i \in DOMAIN assignment' : user'[assignment'[i].driverId].role = "DRIVER"
  <2> SUFFICES ASSUME NEW i \in DOMAIN assignment' PROVE user'[assignment'[i].driverId].role = "DRIVER"
    OBVIOUS
  <2>1. i \in DOMAIN assignment /\ assignment'[i].driverId = assignment[i].driverId
    BY <1>6 DEF Kept
  <2>2. assignment[i] \in AssignmentDoc
    BY <1>1, <2>1 DEF TypeInv, TypeOK
  <2>3. assignment[i].driverId \in People
    BY <2>2 DEF AssignmentDoc
  <2> QED BY <1>2, <2>1, <2>3 DEF DriversOnly
<1>7. ASSUME NEW doc, Made(r, doc)
      PROVE  \A i \in DOMAIN assignment' : user'[assignment'[i].driverId].role = "DRIVER"
  <2> SUFFICES ASSUME NEW i \in DOMAIN assignment' PROVE user'[assignment'[i].driverId].role = "DRIVER"
    OBVIOUS
  <2>1. /\ doc \in AssignmentDoc /\ assignment' = Append(assignment, doc) /\ doc.driverId = req[r].p
        /\ req[r].step \in {"assignInsert", "ownAssign", "truckAssign"}
    BY <1>7 DEF Made
  <2>2. doc.driverId \in People
    BY <2>1 DEF AssignmentDoc
  <2>3. req[r].step = "assignInsert" => req[r].op = "assign"
    BY <1>1, CallOf
  <2>4. user[doc.driverId].role = "DRIVER"
    BY <2>1, <2>3 DEF DriversOnly, Inv, StaffInv, Staffed
  <2>5. assignment \in Seq(AssignmentDoc)
    BY <1>1 DEF TypeInv, TypeOK
  <2>6. CASE i = Len(assignment) + 1
    <3>1. assignment'[i] = doc
      BY <2>1, <2>5, <2>6
    <3> QED BY <1>2, <2>2, <2>4, <3>1
  <2>7. CASE i # Len(assignment) + 1
    <3>1. i \in DOMAIN assignment /\ assignment'[i] = assignment[i]
      BY <2>1, <2>5, <2>7
    <3>2. assignment[i] \in AssignmentDoc
      BY <2>5, <3>1
    <3>3. assignment[i].driverId \in People
      BY <3>2 DEF AssignmentDoc
    <3> QED BY <1>2, <3>1, <3>3 DEF DriversOnly
  <2> QED BY <2>6, <2>7
<1> QED BY <1>1, <1>5, <1>6, <1>7, AssignmentsMove DEF DriversOnly

LEMMA BeginCalm ==
    ASSUME Inv, CalmInv, KeepEntered, NEW r \in Requests, NEW slot, Begun(r, slot)
    PROVE  CalmInv'
<1>1. /\ req[r] = Idle /\ req' = [req EXCEPT ![r] = slot] /\ Loaded(slot)
      /\ UNCHANGED <<user, vehicle, assignment>>
      /\ disturbed' = disturbed + (IF ~Quiet THEN 1 ELSE 0)
  BY DEF Begun, Start, Disturb
<1>2. TypeInv /\ req \in [Requests -> RequestState] /\ disturbed \in Nat
  BY FleetAssumption DEF Inv, TypeInv, TypeOK
<1>3. \A s \in Requests : req'[s] = IF s = r THEN slot ELSE req[s]
  BY <1>1, <1>2
<1>4. DriversOnly'
  BY <1>1, <1>3 DEF CalmInv, DriversOnly, Loaded
<1>5. ASSUME Calm'
      PROVE  /\ Alone' /\ (Quiet' => Books(Idle)')
             /\ \A s \in Requests : req'[s] # Idle => Books(req[s])'
  <2>1. Quiet /\ Calm
    BY <1>1, <1>2, <1>5 DEF Calm
  <2>2. Books(slot)' /\ Books(Idle)'
    BY <1>2, <2>1, BeginBooks DEF CalmInv
  <2>3. ASSUME NEW s \in Requests, req'[s] # Idle PROVE s = r /\ req'[s] = slot
    BY <1>3, <2>1, <2>3 DEF Quiet
  <2> QED BY <2>2, <2>3 DEF Alone
<1> QED BY <1>4, <1>5 DEF CalmInv

LEMMA ContinueCalm ==
    ASSUME Inv, CalmInv, KeepEntered, NEW r \in Requests, Continue(r), UNCHANGED disturbed
    PROVE  CalmInv'
<1>1. TypeInv /\ req \in [Requests -> RequestState] /\ SlotFit(req[r])
  BY DEF Inv, TypeInv, TypeOK
<1>2. DriversOnly /\ DriversOnly'
  BY DriversStay DEF CalmInv
<1>3. PICK slot : Moved(r, slot)
  BY <1>1, ContinueMoves DEF Moves
<1>4. req' = [req EXCEPT ![r] = slot]
  BY <1>3 DEF Moved
<1>5. \A s \in Requests : req'[s] = IF s = r THEN slot ELSE req[s]
  BY <1>1, <1>4
<1>6. req[r] # Idle
  BY IdleIs DEF Continue, InsertTruck, VehicleCheck, VehicleSave, CheckTruckFree, CheckCodeFree,
     FindCurrent, FreePrevious, EndDrivers, EndTrucks, DriverSave, InUseSave, AssignInsert,
     EndNext, FreeNext, RetireOwn, ReleaseSave, CodeSave, ApplyCheck, ApplyInsert,
     ReviewUser, UpgradeSave, AccountInsert, OwnInsert, OwnAssign, TruckFind, TruckAssign,
     TruckSave, ApproveSave, RejectSave
<1>7. ASSUME Calm'
      PROVE  /\ Alone' /\ (Quiet' => Books(Idle)')
             /\ \A s \in Requests : req'[s] # Idle => Books(req[s])'
  <2>1. Calm
    BY <1>7 DEF Calm
  <2>2. Alone /\ Books(req[r])
    BY <1>6, <2>1 DEF CalmInv
  <2>3. slot = req'[r]
    BY <1>5
  <2>4. Books(slot)'
    BY <1>1, <1>2, <2>2, <2>3, ContinueBooks
  <2>5. ASSUME NEW s \in Requests, req'[s] # Idle PROVE s = r /\ req'[s] = slot
    BY <1>5, <1>6, <2>2, <2>5 DEF Alone
  <2>6. Quiet' => slot = Idle
    BY <2>3 DEF Quiet
  <2> QED BY <2>4, <2>5, <2>6 DEF Alone
<1> QED BY <1>2, <1>7 DEF CalmInv

LEMMA CalmStays == Inv /\ CalmInv /\ [Next]_vars => CalmInv'
<1> SUFFICES ASSUME Inv, CalmInv, [Next]_vars PROVE CalmInv'
  OBVIOUS
<1>1. CASE Crash
  <2>1. /\ disturbed' = disturbed + 1 /\ req' = [r \in Requests |-> Idle]
        /\ UNCHANGED <<user, assignment>>
    BY <1>1 DEF Crash, Disturb
  <2>2. ~Calm'
    BY <2>1, FleetAssumption DEF Inv, TypeInv, TypeOK, Calm
  <2>3. \A r \in Requests : req'[r].op # "assign"
    BY <2>1, IdleIs
  <2>4. DriversOnly'
    BY <2>1, <2>3 DEF CalmInv, DriversOnly
  <2> QED BY <2>2, <2>4 DEF CalmInv
<1>2. ASSUME NEW r \in Requests, Begin(r), KeepEntered PROVE CalmInv'
  <2>1. TypeInv
    BY DEF Inv
  <2>2. PICK slot : Begun(r, slot)
    BY <1>2, <2>1, BeginBegins
  <2> QED BY <1>2, <2>2, BeginCalm
<1>3. ASSUME NEW r \in Requests, Continue(r), KeepEntered PROVE CalmInv'
  <2>1. UNCHANGED disturbed
    BY <1>3 DEF Continue, InsertTruck, VehicleCheck, VehicleSave, CheckTruckFree, CheckCodeFree,
                FindCurrent, FreePrevious, EndDrivers, EndTrucks, DriverSave, InUseSave, AssignInsert,
                EndNext, FreeNext, RetireOwn, ReleaseSave, CodeSave, ApplyCheck, ApplyInsert,
                ReviewUser, UpgradeSave, AccountInsert, OwnInsert, OwnAssign, TruckFind, TruckAssign,
                TruckSave, ApproveSave, RejectSave
  <2> QED BY <1>3, <2>1, ContinueCalm
<1>4. CASE UNCHANGED vars
  <2>1. UNCHANGED <<user, vehicle, assignment, req, disturbed, entered>> /\ TypeInv
    BY <1>4 DEF vars, Inv
  <2>2. DriversOnly'
    BY <2>1 DEF CalmInv, DriversOnly
  <2>3. ASSUME NEW q, Books(q) PROVE Books(q)'
    BY <2>1, <2>3, StillBooks DEF Books
  <2>4. (Calm' => Calm) /\ (Quiet' => Quiet) /\ (Alone => Alone')
    BY <2>1 DEF Calm, Quiet, Alone
  <2>5. ASSUME Calm'
        PROVE  /\ Alone' /\ (Quiet' => Books(Idle)')
               /\ \A s \in Requests : req'[s] # Idle => Books(req[s])'
    <3>1. ASSUME NEW s \in Requests, req'[s] # Idle PROVE Books(req[s])'
      <4>1. PICK q : q = req[s]
        OBVIOUS
      <4>2. Books(q)
        BY <2>1, <2>4, <2>5, <3>1, <4>1 DEF CalmInv
      <4>3. Books(q)' /\ q = req'[s]
        BY <2>1, <2>3, <4>1, <4>2
      <4> QED BY <4>3
    <3> QED BY <2>3, <2>4, <2>5, <3>1 DEF CalmInv
  <2> QED BY <2>2, <2>5 DEF CalmInv
<1> QED BY <1>1, <1>2, <1>3, <1>4 DEF Next

LEMMA CalmAlways == Spec => []CalmInv
BY InitCalm, CalmStays, InvAlways, PTL DEF Spec

\* As long as handlers run one at a time and to their end, a company truck is
\* IN_USE exactly when an active assignment ties it to a driver or it was entered
\* so and never assigned since, and an assigned truck is an active one of the
\* branch: the writes of assigning, replacing, unassigning, deactivating and
\* approving leave three collections in step
\* (createVehicleForAdmin, assignVehicleToDriverForBranchOwner to
\* deactivateDriverForBranchOwner).
THEOREM TrucksMatchAssignments == Spec => []TrucksAccounted
<1>1. CalmInv => TrucksAccounted
  <2> SUFFICES ASSUME CalmInv, Calm, Quiet
               PROVE  \A t \in Trucks :
                        /\ vehicle[t].status = "IN_USE" <=> ActiveFor(t) # {} \/ t \in entered
                        /\ ActiveFor(t) # {} => vehicle[t].isActive /\ vehicle[t].here /\ t \notin entered
    BY DEF TrucksAccounted
  <2>1. Books(Idle)
    BY DEF CalmInv
  <2> QED BY <2>1, IdleBooks DEF Books, Even, Fit
<1> QED BY <1>1, CalmAlways, PTL

LEMMA AtMostOne ==
    ASSUME NEW S, \A i, j \in S : i = j
    PROVE  Cardinality(S) <= 1
<1>1. CASE S = {}
  <2>1. Cardinality(S) = 0
    BY <1>1, FS_EmptySet
  <2> QED BY <2>1
<1>2. CASE S # {}
  <2>1. PICK i \in S : S = {i}
    BY <1>2
  <2>2. Cardinality({i}) = 1
    BY FS_Singleton
  <2> QED BY <2>1, <2>2
<1> QED BY <1>1, <1>2

\* As long as handlers run one at a time, no truck is assigned to two drivers
\* and no driver has two primary vehicles, although no index keeps either
\* (assignVehicleToDriverForBranchOwner: the two updateMany calls).
THEOREM TrucksAssignedOnce == Spec => []AssignedOnce
<1>1. CalmInv => AssignedOnce
  <2> SUFFICES ASSUME CalmInv, Calm, Quiet
               PROVE  /\ \A t \in Trucks : Cardinality(ActiveFor(t)) <= 1
                      /\ \A p \in People : Cardinality({i \in ActiveOf(p) : assignment[i].primary}) <= 1
    BY DEF AssignedOnce
  <2>1. OneEach
    BY DEF CalmInv, Books
  <2>2. ASSUME NEW t \in Trucks PROVE Cardinality(ActiveFor(t)) <= 1
    BY <2>1, AtMostOne DEF OneEach
  <2>3. ASSUME NEW p \in People PROVE Cardinality({i \in ActiveOf(p) : assignment[i].primary}) <= 1
    <3> DEFINE S == {i \in ActiveOf(p) : assignment[i].primary}
    <3>1. \A i, j \in S : i = j
      BY <2>1 DEF OneEach
    <3> QED BY <3>1, AtMostOne
  <2> QED BY <2>2, <2>3
<1> QED BY <1>1, CalmAlways, PTL

-----------------------------------------------------------------------------
(* One approval of a person, with one overlap or crash at most                *)

\* The steps of an approval that found its applicant without a driver's account.
PastReview == Staffed \cup {"upgradeSave", "accountInsert"}

Pending(a, p) == application[a].status = "PENDING" /\ application[a].person = p
Approved(a, p) == application[a].status = "APPROVED" /\ application[a].person = p

\* While handlers run one at a time, a person has one pending application, and
\* the one that is reviewed is that.
OnePending ==
    /\ \A p \in People : \A a, b \in Applications : Pending(a, p) /\ Pending(b, p) => a = b
    /\ \A r \in Requests : req[r].op = "approve" => application[req[r].a].status = "PENDING"
    /\ \A r \in Requests : req[r].step = "applyInsert" =>
        \A a \in Applications : ~Pending(a, req[r].p)

\* So two approvals that overlap are about the same application, and what one of
\* them has approved, or will, is what the other reviews.
OneReviewed ==
    \A r, s \in Requests :
        req[r].op = "approve" /\ req[s].op = "approve" /\ req[r].p = req[s].p => req[r].a = req[s].a

OneApproved ==
    /\ \A p \in People : \A a, b \in Applications : Approved(a, p) /\ Approved(b, p) => a = b
    /\ \A r \in Requests : req[r].step \in PastReview =>
        \A a \in Applications : Approved(a, req[r].p) => a = req[r].a

SingleInv == (Calm => OnePending) /\ (disturbed <= 1 => OneReviewed /\ OneApproved)

LEMMA InitSingle == Init => SingleInv
<1> SUFFICES ASSUME Init PROVE SingleInv
  OBVIOUS
<1>1. \A r \in Requests : req[r] = Idle
  BY DEF Init
<1>2. \A a \in Applications : application[a].status = "ABSENT"
  BY DEF Init, NoApplication
<1>3. OnePending
  BY <1>1, <1>2, IdleIs DEF OnePending, Pending
<1>4. OneReviewed /\ OneApproved
  BY <1>1, <1>2, IdleIs DEF OneReviewed, OneApproved, Approved, PastReview, Staffed
<1> QED BY <1>3, <1>4 DEF SingleInv

LEMMA CrashSingle ==
    ASSUME Inv, SingleInv, Crash
    PROVE  SingleInv'
<1>1. /\ disturbed' = disturbed + 1 /\ req' = [r \in Requests |-> Idle] /\ UNCHANGED application
      /\ disturbed \in Nat
  BY FleetAssumption DEF Crash, Disturb, Inv, TypeInv, TypeOK
<1>2. ~Calm' /\ (disturbed' <= 1 => disturbed <= 1)
  BY <1>1 DEF Calm
<1>3. \A r \in Requests : req'[r] = Idle
  BY <1>1
<1>4. OneReviewed'
  BY <1>3, IdleIs DEF OneReviewed
<1>5. OneApproved => OneApproved'
  BY <1>1, <1>3, IdleIs DEF OneApproved, Approved, PastReview, Staffed
<1> QED BY <1>2, <1>4, <1>5 DEF SingleInv

LEMMA BeginSingle ==
    ASSUME Inv, CalmInv, SingleInv, NEW r \in Requests, NEW slot, Begun(r, slot)
    PROVE  SingleInv'
<1>1. /\ req[r] = Idle /\ req' = [req EXCEPT ![r] = slot] /\ UNCHANGED application
      /\ disturbed' = disturbed + (IF ~Quiet THEN 1 ELSE 0)
      /\ slot \in RequestState /\ SlotFit(slot) /\ Loaded(slot) /\ slot.step \notin Staffed
  BY DEF Begun, Start, Disturb
<1>2. TypeInv /\ FormInv /\ req \in [Requests -> RequestState] /\ disturbed \in Nat
  BY FleetAssumption DEF Inv, TypeInv, TypeOK
<1>3. \A s \in Requests : req'[s] = IF s = r THEN slot ELSE req[s]
  BY <1>1, <1>2
<1>4. slot.step \notin PastReview /\ slot.step # "applyInsert"
  <2>1. slot.op = "approve" => slot.step = "reviewUser"
    BY <1>1 DEF Loaded
  <2>2. slot.step \in {"upgradeSave", "accountInsert"} => slot.op = "approve"
    BY <1>1, CallOf
  <2>3. slot.op = "apply" => slot.step = "applyCheck"
    BY <1>1 DEF Loaded
  <2>4. slot.step = "applyInsert" => slot.op = "apply"
    BY <1>1, CallOf
  <2> QED BY <1>1, <2>1, <2>2, <2>3, <2>4 DEF PastReview
<1>5. slot.op = "approve" =>
        /\ slot.a \in Applications /\ slot.p \in People
        /\ application[slot.a].status = "PENDING" /\ application[slot.a].person = slot.p
  BY <1>1 DEF Begun, SlotFit
<1>6. Calm' => OnePending'
  <2> SUFFICES ASSUME Calm' PROVE OnePending'
    OBVIOUS
  <2>1. OnePending
    BY <1>1, <1>2 DEF Calm, SingleInv
  <2>2. \A s \in Requests : req'[s].op = "approve" => application'[req'[s].a].status = "PENDING"
    BY <1>1, <1>3, <1>5, <2>1 DEF OnePending
  <2>3. \A s \in Requests : req'[s].step = "applyInsert" => s # r /\ req'[s] = req[s]
    BY <1>3, <1>4
  <2>4. \A s \in Requests : req'[s].step = "applyInsert" =>
            \A a \in Applications : ~(application'[a].status = "PENDING" /\ application'[a].person = req'[s].p)
    BY <1>1, <2>1, <2>3 DEF OnePending, Pending
  <2> QED BY <1>1, <2>1, <2>2, <2>4 DEF OnePending, Pending
<1>7. disturbed' <= 1 => disturbed <= 1
  BY <1>1, <1>2
<1>8. OneApproved => OneApproved'
  <2> SUFFICES ASSUME OneApproved PROVE OneApproved'
    OBVIOUS
  <2>1. \A s \in Requests : req'[s].step \in PastReview => req'[s] = req[s]
    BY <1>3, <1>4
  <2>2. \A s \in Requests : req'[s].step \in PastReview =>
            \A a \in Applications :
                application'[a].status = "APPROVED" /\ application'[a].person = req'[s].p => a = req'[s].a
    BY <1>1, <2>1 DEF OneApproved, Approved
  <2> QED BY <1>1, <2>2 DEF OneApproved, Approved
<1>9. ASSUME disturbed' <= 1 PROVE OneReviewed'
  <2>1. ASSUME NEW s \in Requests, s # r, req[s].op = "approve", slot.op = "approve", req[s].p = slot.p
        PROVE  req[s].a = slot.a
    <3>1. ~Quiet
      BY <2>1, IdleIs DEF Quiet
    <3>2. Calm
      BY <1>1, <1>2, <1>9, <3>1 DEF Calm
    <3>3. OnePending
      BY <3>2 DEF SingleInv
    <3>4. SlotFit(req[s])
      BY <1>2 DEF TypeInv
    <3>5. req[s].a \in Applications /\ Pending(req[s].a, slot.p)
      BY <1>2, <2>1, <3>3, <3>4 DEF OnePending, Pending, FormInv, SlotFit
    <3>6. slot.a \in Applications /\ slot.p \in People /\ Pending(slot.a, slot.p)
      BY <1>5, <2>1 DEF Pending
    <3> QED BY <3>3, <3>5, <3>6 DEF OnePending
  <2>2. OneReviewed
    BY <1>7, <1>9 DEF SingleInv
  <2>3. ASSUME NEW s \in Requests, NEW u \in Requests, req'[s].op = "approve", req'[u].op = "approve",
               req'[s].p = req'[u].p
        PROVE  req'[s].a = req'[u].a
    BY <1>3, <2>1, <2>2, <2>3 DEF OneReviewed
  <2> QED BY <2>3 DEF OneReviewed
<1> QED BY <1>6, <1>7, <1>8, <1>9 DEF SingleInv

\* Only the look at the account lets an approval past it, and not for a driver.
LEMMA ReviewPasses ==
    ASSUME Inv, NEW r \in Requests, Continue(r), req'[r].step \in PastReview,
           req[r].step \notin PastReview
    PROVE  user[req[r].p].role # "DRIVER" /\ UNCHANGED application
<1>1. req \in [Requests -> RequestState] /\ req[r] \in RequestState /\ SlotFit(req[r]) /\ TypeInv
  BY DEF Inv, TypeInv, TypeOK
<1>2. PICK slot : Moved(r, slot)
  BY <1>1, ContinueMoves DEF Moves
<1>3. slot = req'[r] /\ slot \in RequestState /\ SlotFit(slot)
  BY <1>1, <1>2 DEF Moved
<1>4. slot.op = "approve"
  BY <1>3, CallOf DEF PastReview, Staffed
<1>5. req[r].op = "approve"
  BY <1>2, <1>4, IdleIs DEF Moved, SameCall
<1>6. req[r].step = "reviewUser"
  BY <1>1, <1>5, CallOf DEF PastReview, Staffed
<1>7. ReviewUser(r)
  BY <1>6 DEF Continue, InsertTruck, VehicleCheck, VehicleSave, CheckTruckFree, CheckCodeFree,
     FindCurrent, FreePrevious, EndDrivers, EndTrucks, DriverSave, InUseSave, AssignInsert,
     EndNext, FreeNext, RetireOwn, ReleaseSave, CodeSave, ApplyCheck, ApplyInsert,
     ReviewUser, UpgradeSave, AccountInsert, OwnInsert, OwnAssign, TruckFind, TruckAssign,
     TruckSave, ApproveSave, RejectSave
<1>8. CASE Finish(r)
  <2>1. req'[r] = Idle
    BY <1>1, <1>8 DEF Finish
  <2> QED BY <2>1, IdleIs DEF PastReview, Staffed
<1>9. CASE ~Finish(r)
  BY <1>7, <1>9 DEF ReviewUser
<1> QED BY <1>8, <1>9

\* An application is inserted after the look that found none pending.
LEMMA ApplyPasses ==
    ASSUME Inv, NEW r \in Requests, Continue(r), req'[r].step = "applyInsert"
    PROVE  /\ UNCHANGED application
           /\ \A a \in Applications : ~Pending(a, req[r].p)
<1>1. req \in [Requests -> RequestState] /\ req[r] \in RequestState /\ SlotFit(req[r]) /\ TypeInv
  BY DEF Inv, TypeInv, TypeOK
<1>2. PICK slot : Moved(r, slot)
  BY <1>1, ContinueMoves DEF Moves
<1>3. slot = req'[r] /\ slot \in RequestState /\ SlotFit(slot)
  BY <1>1, <1>2 DEF Moved
<1>4. slot.op = "apply"
  BY <1>3, CallOf
<1>5. req[r].op = "apply"
  BY <1>2, <1>4, IdleIs DEF Moved, SameCall
<1>6. req[r].step \in {"applyCheck", "applyInsert"}
  BY <1>1, <1>5, CallOf
<1>7. ApplyCheck(r) \/ ApplyInsert(r)
  BY <1>6 DEF Continue, InsertTruck, VehicleCheck, VehicleSave, CheckTruckFree, CheckCodeFree,
     FindCurrent, FreePrevious, EndDrivers, EndTrucks, DriverSave, InUseSave, AssignInsert,
     EndNext, FreeNext, RetireOwn, ReleaseSave, CodeSave, ApplyCheck, ApplyInsert,
     ReviewUser, UpgradeSave, AccountInsert, OwnInsert, OwnAssign, TruckFind, TruckAssign,
     TruckSave, ApproveSave, RejectSave
<1>8. ~Finish(r)
  BY <1>1, <1>3, <1>4, IdleIs DEF Finish
<1>9. ApplyCheck(r)
  BY <1>7, <1>8 DEF ApplyInsert
<1> QED BY <1>8, <1>9 DEF ApplyCheck, Pending

\* The applications after a step: those of before, but for the one decided.
LEMMA DecidedOnly ==
    ASSUME Inv, NEW r \in Requests, Continue(r), NEW a \in Applications,
           application'[a] # application[a]
    PROVE  /\ a = req[r].a /\ req'[r] = Idle
           /\ req[r].op \in {"apply", "approve", "reject"}
           /\ application'[a].person = req[r].p /\ req[r].p \in People
           /\ application'[a].status = "PENDING" => req[r].op = "apply"
           /\ application'[a].status = "APPROVED" =>
                req[r].op = "approve" /\ req[r].step = "approveSave"
<1>1. /\ TypeInv /\ FormInv /\ req \in [Requests -> RequestState] /\ req[r] \in RequestState
      /\ SlotFit(req[r]) /\ application \in [Applications -> ApplicationDoc]
  BY DEF Inv, TypeInv, TypeOK
<1>2. PICK doc : Decided(r, doc)
  BY <1>1, ApplicationsMove DEF FormInv
<1>3. a = req[r].a /\ application'[a] = doc /\ req'[r] = Idle
  BY <1>1, <1>2 DEF Decided
<1>4. CASE req[r].op = "apply"
  BY <1>1, <1>2, <1>3, <1>4 DEF Decided, SlotFit
<1>5. CASE req[r].op \in {"approve", "reject"}
  <2>1. /\ doc.person = application[a].person /\ application[a].person = req[r].p
        /\ doc.status = "APPROVED" => req[r].step = "approveSave"
        /\ req[r].p \in People
    BY <1>1, <1>2, <1>3, <1>5 DEF Decided, FormInv, SlotFit
  <2>2. req[r].step = "approveSave" => req[r].op = "approve"
    BY <1>1, CallOf
  <2>3. doc.status # "PENDING"
    BY <1>2, <1>5 DEF Decided
  <2> QED BY <1>3, <1>5, <2>1, <2>2, <2>3
<1> QED BY <1>2, <1>3, <1>4, <1>5 DEF Decided

LEMMA ContinueSingle ==
    ASSUME Inv, CalmInv, SingleInv, NEW r \in Requests, Continue(r), UNCHANGED disturbed
    PROVE  SingleInv'
<1>1. /\ TypeInv /\ FormInv /\ req \in [Requests -> RequestState] /\ req[r] \in RequestState
      /\ SlotFit(req[r])
  BY DEF Inv, TypeInv, TypeOK
<1>2. PICK slot : Moved(r, slot)
  BY <1>1, ContinueMoves DEF Moves
<1>3. /\ slot \in RequestState /\ SlotFit(slot) /\ (slot = Idle \/ SameCall(req[r], slot))
      /\ \A s \in Requests : req'[s] = IF s = r THEN slot ELSE req[s]
  BY <1>1, <1>2 DEF Moved
<1>4. req[r] # Idle
  BY IdleIs DEF Continue, InsertTruck, VehicleCheck, VehicleSave, CheckTruckFree, CheckCodeFree,
     FindCurrent, FreePrevious, EndDrivers, EndTrucks, DriverSave, InUseSave, AssignInsert,
     EndNext, FreeNext, RetireOwn, ReleaseSave, CodeSave, ApplyCheck, ApplyInsert,
     ReviewUser, UpgradeSave, AccountInsert, OwnInsert, OwnAssign, TruckFind, TruckAssign,
     TruckSave, ApproveSave, RejectSave
<1>5. \A s \in Requests : req'[s].op # "none" =>
        req'[s].op = req[s].op /\ req'[s].a = req[s].a /\ req'[s].p = req[s].p
  BY <1>3, IdleIs DEF SameCall
<1>6. \A s \in Requests : req'[s].step \in PastReview => req'[s].op = "approve"
  <2>1. \A s \in Requests : req'[s] \in RequestState /\ SlotFit(req'[s])
    BY <1>1, <1>3 DEF TypeInv
  <2> QED BY <2>1, CallOf DEF PastReview, Staffed
<1>7. ASSUME Calm PROVE OnePending'
  <2>1. OnePending /\ Alone
    BY <1>7 DEF SingleInv, CalmInv
  <2>2. \A s \in Requests : req'[s] # Idle => s = r
    BY <1>3, <1>4, <2>1 DEF Alone
  <2>3. ASSUME NEW p \in People, NEW a \in Applications, NEW b \in Applications,
               Pending(a, p)', Pending(b, p)'
        PROVE  a = b
    <3>1. ASSUME NEW c \in Applications, application'[c] # application[c], Pending(c, p)'
          PROVE  c = req[r].a /\ req[r].p = p /\ req[r].op = "apply" /\ req'[r] = Idle
      BY <3>1, DecidedOnly DEF Pending
    <3>2. ASSUME NEW c \in Applications, NEW e \in Applications, application'[c] # application[c],
                 application'[e] = application[e], Pending(c, p)', Pending(e, p)'
          PROVE  FALSE
      <4>1. req[r].op = "apply" /\ req[r].p = p /\ req'[r] = Idle /\ ~UNCHANGED application
        BY <3>1, <3>2
      <4>2. req[r].step = "applyInsert"
        <5>1. req[r].step \in {"applyCheck", "applyInsert"}
          BY <1>1, <4>1, CallOf
        <5>2. CASE req[r].step = "applyCheck"
          <6>1. ApplyCheck(r)
            BY <5>2 DEF Continue, InsertTruck, VehicleCheck, VehicleSave, CheckTruckFree, CheckCodeFree,
               FindCurrent, FreePrevious, EndDrivers, EndTrucks, DriverSave, InUseSave, AssignInsert,
               EndNext, FreeNext, RetireOwn, ReleaseSave, CodeSave, ApplyCheck, ApplyInsert,
               ReviewUser, UpgradeSave, AccountInsert, OwnInsert, OwnAssign, TruckFind, TruckAssign,
               TruckSave, ApproveSave, RejectSave
          <6> QED BY <4>1, <6>1 DEF ApplyCheck
        <5> QED BY <5>1, <5>2
      <4>3. Pending(e, p)
        BY <3>2 DEF Pending
      <4> QED BY <2>1, <4>1, <4>2, <4>3 DEF OnePending
    <3>3. CASE application'[a] = application[a] /\ application'[b] = application[b]
      <4>1. Pending(a, p) /\ Pending(b, p)
        BY <2>3, <3>3 DEF Pending
      <4> QED BY <2>1, <4>1 DEF OnePending
    <3>4. CASE application'[a] # application[a] /\ application'[b] # application[b]
      BY <2>3, <3>1, <3>4
    <3> QED BY <2>3, <3>2, <3>3, <3>4
  <2>4. ASSUME NEW s \in Requests, req'[s].op = "approve"
        PROVE  application'[req'[s].a].status = "PENDING"
    <3>1. s = r /\ req'[r] # Idle
      BY <2>2, <2>4, IdleIs
    <3>2. req[r].op = "approve" /\ req'[r].a = req[r].a /\ req[r].a \in Applications
      BY <1>1, <1>5, <2>4, <3>1 DEF SlotFit
    <3>3. application'[req[r].a] = application[req[r].a]
      BY <3>1, <3>2, DecidedOnly
    <3> QED BY <2>1, <3>1, <3>2, <3>3 DEF OnePending
  <2>5. ASSUME NEW s \in Requests, req'[s].step = "applyInsert", NEW a \in Applications
        PROVE  ~(application'[a].status = "PENDING" /\ application'[a].person = req'[s].p)
    <3>1. s = r
      BY <2>2, <2>5, IdleIs
    <3>2. UNCHANGED application /\ ~Pending(a, req[r].p)
      BY <2>5, <3>1, ApplyPasses
    <3>3. req'[r].p = req[r].p
      BY <1>3, <2>5, <3>1, IdleIs DEF SameCall
    <3> QED BY <3>1, <3>2, <3>3 DEF Pending
  <2> QED BY <2>3, <2>4, <2>5 DEF OnePending, Pending
<1>8. ASSUME disturbed <= 1 PROVE OneReviewed' /\ OneApproved'
  <2>1. OneReviewed /\ OneApproved
    BY <1>8 DEF SingleInv
  <2>2. OneReviewed'
    BY <1>5, <2>1 DEF OneReviewed
  <2>3. ASSUME NEW c \in Applications, application'[c] # application[c],
               application'[c].status = "APPROVED"
        PROVE  /\ c = req[r].a /\ application'[c].person = req[r].p /\ req[r].p \in People
               /\ req[r].step \in PastReview /\ req[r].op = "approve"
    BY <2>3, DecidedOnly DEF PastReview, Staffed
  <2>4. ASSUME NEW p \in People, NEW a \in Applications, NEW b \in Applications,
               Approved(a, p)', Approved(b, p)'
        PROVE  a = b
    <3>1. ASSUME NEW c \in Applications, NEW e \in Applications, application'[c] # application[c],
                 application'[e] = application[e], Approved(c, p)', Approved(e, p)'
          PROVE  c = e
      <4>1. c = req[r].a /\ req[r].p = p /\ req[r].step \in PastReview
        BY <2>3, <3>1 DEF Approved
      <4>2. Approved(e, p)
        BY <3>1 DEF Approved
      <4> QED BY <2>1, <4>1, <4>2 DEF OneApproved
    <3>2. CASE application'[a] = application[a] /\ application'[b] = application[b]
      <4>1. Approved(a, p) /\ Approved(b, p)
        BY <2>4, <3>2 DEF Approved
      <4> QED BY <2>1, <4>1 DEF OneApproved
    <3>3. CASE application'[a] # application[a] /\ application'[b] # application[b]
      BY <2>3, <2>4, <3>3 DEF Approved
    <3> QED BY <2>4, <3>1, <3>2, <3>3
  <2>5. ASSUME NEW s \in Requests, req'[s].step \in PastReview, NEW a \in Applications,
               application'[a].status = "APPROVED", application'[a].person = req'[s].p
        PROVE  a = req'[s].a
    <3>1. /\ req'[s].op = "approve" /\ req[s].op = "approve"
          /\ req'[s].a = req[s].a /\ req'[s].p = req[s].p
      BY <1>5, <1>6, <2>5
    <3>2. CASE application'[a] # application[a]
      <4>1. a = req[r].a /\ req[r].p = req[s].p /\ req[r].op = "approve"
        BY <2>3, <2>5, <3>1, <3>2
      <4> QED BY <2>1, <3>1, <4>1 DEF OneReviewed
    <3>3. CASE application'[a] = application[a]
      <4>1. Approved(a, req[s].p)
        BY <2>5, <3>1, <3>3 DEF Approved
      <4>2. CASE req[s].step \in PastReview
        BY <2>1, <3>1, <4>1, <4>2 DEF OneApproved
      <4>3. CASE req[s].step \notin PastReview
        <5>1. s = r
          BY <1>3, <2>5, <4>3
        <5>2. user[req[r].p].role # "DRIVER"
          BY <2>5, <4>3, <5>1, ReviewPasses
        <5>3. user[application[a].person].role = "DRIVER"
          BY <4>1 DEF Approved, Inv, ApprovedIsComplete
        <5> QED BY <4>1, <5>1, <5>2, <5>3 DEF Approved
      <4> QED BY <4>2, <4>3
    <3> QED BY <3>2, <3>3
  <2> QED BY <2>2, <2>4, <2>5 DEF OneApproved, Approved
<1> QED BY <1>7, <1>8 DEF SingleInv, Calm

LEMMA SingleStays == Inv /\ CalmInv /\ SingleInv /\ [Next]_vars => SingleInv'
<1> SUFFICES ASSUME Inv, CalmInv, SingleInv, [Next]_vars PROVE SingleInv'
  OBVIOUS
<1>1. CASE Crash
  BY <1>1, CrashSingle
<1>2. ASSUME NEW r \in Requests, Begin(r) PROVE SingleInv'
  <2>1. TypeInv
    BY DEF Inv
  <2>2. PICK slot : Begun(r, slot)
    BY <1>2, <2>1, BeginBegins
  <2> QED BY <2>2, BeginSingle
<1>3. ASSUME NEW r \in Requests, Continue(r) PROVE SingleInv'
  <2>1. UNCHANGED disturbed
    BY <1>3 DEF Continue, InsertTruck, VehicleCheck, VehicleSave, CheckTruckFree, CheckCodeFree,
                FindCurrent, FreePrevious, EndDrivers, EndTrucks, DriverSave, InUseSave, AssignInsert,
                EndNext, FreeNext, RetireOwn, ReleaseSave, CodeSave, ApplyCheck, ApplyInsert,
                ReviewUser, UpgradeSave, AccountInsert, OwnInsert, OwnAssign, TruckFind, TruckAssign,
                TruckSave, ApproveSave, RejectSave
  <2> QED BY <1>3, <2>1, ContinueSingle
<1>4. CASE UNCHANGED vars
  <2>1. UNCHANGED <<application, req, disturbed>>
    BY <1>4 DEF vars
  <2> QED
    BY <2>1 DEF SingleInv, Calm, OnePending, OneReviewed, OneApproved, Pending, Approved
<1> QED BY <1>1, <1>2, <1>3, <1>4 DEF Next

LEMMA SingleAlways == Spec => []SingleInv
BY InitSingle, SingleStays, InvAlways, CalmAlways, PTL DEF Spec

\* One overlap of handlers, or one crash, never gets a person approved twice,
\* whatever approvals failed half-way: it takes two applications that slip past
\* the look for a pending one and then two approvals that slip past the look at
\* the role (createForCurrentUser, approve).
THEOREM ApprovedOnceEach == Spec => []ApprovedOnce
<1>1. SingleInv => ApprovedOnce
  <2> SUFFICES ASSUME SingleInv, disturbed <= 1, NEW p \in People
               PROVE  Cardinality({a \in Applications :
                        application[a].person = p /\ application[a].status = "APPROVED"}) <= 1
    BY DEF ApprovedOnce
  <2> DEFINE S == {a \in Applications :
                     application[a].person = p /\ application[a].status = "APPROVED"}
  <2>1. \A a, b \in S : a = b
    BY DEF SingleInv, OneApproved, Approved
  <2> QED BY <2>1, AtMostOne
<1> QED BY <1>1, SingleAlways, PTL

=============================================================================
