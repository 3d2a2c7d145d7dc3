------------------------------ MODULE DriverFleet ------------------------------
(***************************************************************************)
(* Driver applications, company trucks and the assignments that tie drivers *)
(* to vehicles, for one branch.                                             *)
(*   src/src/modules/driver-applications/driver-applications.service.ts     *)
(*                                                                         *)
(* One HTTP request is one slot of req and suspends at every database call. *)
(* A save writes the paths that differ from the document the handler had    *)
(* loaded.  A person is an e-mail address with its phone number: both are   *)
(* unique paths of users, so a person names the account, too.  A vehicle of *)
(* the driver's own has the driver's id for its code and is named by it.    *)
(***************************************************************************)
EXTENDS Integers, Sequences, FiniteSets

CONSTANTS
    People,          \* people with or without an account
    Customers,       \* the people who have a customer account at first
    Trucks,          \* codes of company vehicles
    Applications,    \* ids of the applications
    Requests,        \* request slots
    None,            \* null
    Statuses,        \* the statuses administrators choose from
    Own,             \* the vehicles of their own people may apply with
    Codes,           \* the vehicle codes branch owners type in for a driver
    MaxAssignments,  \* bound on the assignments ever made
    MaxDisturbances  \* bound on what happens out of turn (see disturbed)

ASSUME FleetAssumption ==
    /\ Customers \subseteq People
    /\ People \cap Trucks = {}
    /\ None \notin People \cup Trucks \cup Applications
    /\ Statuses \subseteq {"AVAILABLE", "IN_USE", "UNAVAILABLE", "MAINTENANCE", "INACTIVE"}
    /\ Own \in [People -> SUBSET {"NONE", "MOTORCYCLE", "TRUCK"}]
    /\ Codes \subseteq Trucks \cup {None}
    /\ IsFiniteSet(Requests)
    /\ MaxAssignments \in Nat /\ MaxDisturbances \in Nat

VARIABLES
    user,         \* the users collection, by person
    vehicle,      \* the vehicles collection: trucks, and one per driver
    assignment,   \* the driver-vehicle assignments collection
    application,  \* the driver applications collection
    req,          \* the suspended handlers
    disturbed,    \* how often a handler started beside another or the process crashed
    entered       \* history: trucks that are IN_USE because they were entered so

vars == <<user, vehicle, assignment, application, req, disturbed, entered>>

-----------------------------------------------------------------------------
(* Documents                                                                *)

UserDoc ==
    [role : {"ABSENT", "CUSTOMER", "DRIVER"},
     isActive : BOOLEAN,
     code : Trucks \cup {None}]   \* assignedVehicleCode

Account(role) == [role |-> role, isActive |-> role # "ABSENT", code |-> None]

Vehicles == Trucks \cup People

VehicleStatus == {"AVAILABLE", "IN_USE", "UNAVAILABLE", "MAINTENANCE", "INACTIVE"}

VehicleDoc ==
    [status : {"ABSENT"} \cup VehicleStatus,
     isActive : BOOLEAN,
     type : {"MOTORCYCLE", "TRUCK"},
     here : BOOLEAN]     \* branchId is the branch

NoVehicle == [status |-> "ABSENT", isActive |-> FALSE, type |-> "TRUCK", here |-> FALSE]

NewVehicle(status, type, here) ==
    [status |-> status, isActive |-> TRUE, type |-> type, here |-> here]

AssignmentDoc ==
    [driverId : People, vehicleId : Vehicles, primary : BOOLEAN, isActive : BOOLEAN]

ApplicationDoc ==
    [status : {"ABSENT", "PENDING", "APPROVED", "REJECTED"},
     person : People \cup {None},
     applicant : BOOLEAN,                   \* applicantUserId is set
     own : {"NONE", "MOTORCYCLE", "TRUCK"}, \* vehicleType
     approved : BOOLEAN]                    \* approvedUserId is set

NoApplication ==
    [status |-> "ABSENT", person |-> None, applicant |-> FALSE, own |-> "NONE", approved |-> FALSE]

\* What save() leaves in a path: only assigned paths that differ are written.
Written(current, loaded, assigned) == IF assigned = loaded THEN current ELSE assigned

\* The document after save() of one that was loaded as seen.
Saved(doc, seen, assigned) == [path \in DOMAIN doc |-> Written(doc[path], seen[path], assigned[path])]

ActiveOf(p) == {i \in DOMAIN assignment : assignment[i].driverId = p /\ assignment[i].isActive}
ActiveFor(v) == {i \in DOMAIN assignment : assignment[i].vehicleId = v /\ assignment[i].isActive}

-----------------------------------------------------------------------------
(* Suspended handlers                                                       *)

Steps ==
    {"idle", "truckInsert", "vehicleCheck", "vehicleSave",
     "assignVehicle", "assignCode", "findCurrent", "freePrevious", "endDrivers", "endTrucks",
     "driverSave", "inUseSave", "assignInsert",
     "endNext", "freeNext", "retireOwn", "releaseSave", "codeSave",
     "applyCheck", "applyInsert", "reviewUser", "upgradeSave", "accountInsert",
     "ownInsert", "ownAssign", "truckFind", "truckAssign", "truckSave", "approveSave",
     "rejectSave"}

RequestState ==
    [step : Steps,
     op : {"none", "add", "update", "retire", "activate", "assign", "unassign", "deactivate",
           "code", "apply", "approve", "reject"},
     p : People \cup {None},              \* the driver or applicant
     v : Vehicles \cup {None},            \* the vehicle, or the code of one
     a : Applications \cup {None},
     primary : BOOLEAN,                   \* assignmentType = PRIMARY
     todo : SUBSET (1..MaxAssignments),   \* the assignments its loop has still to visit
     now : 0..MaxAssignments,             \* the one whose vehicle it saves next
     user : UserDoc,                      \* the account it loaded
     new : VehicleDoc,                    \* the vehicle it will save
     seen : [Vehicles -> VehicleDoc],     \* the vehicles it loaded
     form : ApplicationDoc]               \* the application it loaded, or will insert

\* The vehicles a handler loads, of those it will save.
Seen(loaded) == [v \in Vehicles |-> IF v \in loaded THEN vehicle[v] ELSE NoVehicle]

Idle == [step |-> "idle", op |-> "none", p |-> None, v |-> None, a |-> None, primary |-> FALSE,
         todo |-> {}, now |-> 0, user |-> Account("ABSENT"), new |-> NoVehicle,
         seen |-> [v \in Vehicles |-> NoVehicle], form |-> NoApplication]

Quiet == \A r \in Requests : req[r] = Idle

\* Counts what happens out of turn, within the bound.
Disturb(outOfTurn) ==
    /\ disturbed' = disturbed + (IF outOfTurn THEN 1 ELSE 0)
    /\ disturbed' <= MaxDisturbances

Start(r, state) ==
    /\ req[r] = Idle
    /\ Disturb(~Quiet)
    /\ req' = [req EXCEPT ![r] = state]
    /\ UNCHANGED <<user, vehicle, assignment, application>>

Goto(r, step) == req' = [req EXCEPT ![r].step = step]
Finish(r) == req' = [req EXCEPT ![r] = Idle]

TypeOK ==
    /\ user \in [People -> UserDoc]
    /\ vehicle \in [Vehicles -> VehicleDoc]
    /\ assignment \in Seq(AssignmentDoc) /\ Len(assignment) <= MaxAssignments
    /\ application \in [Applications -> ApplicationDoc]
    /\ req \in [Requests -> RequestState]
    /\ disturbed \in 0..MaxDisturbances
    /\ entered \subseteq Trucks

Init ==
    /\ user = [p \in People |-> Account(IF p \in Customers THEN "CUSTOMER" ELSE "ABSENT")]
    /\ vehicle = [v \in Vehicles |-> NoVehicle]
    /\ assignment = <<>>
    /\ application = [a \in Applications |-> NoApplication]
    /\ req = [r \in Requests |-> Idle]
    /\ disturbed = 0
    /\ entered = {}

-----------------------------------------------------------------------------
(* Administrators manage company vehicles                                    *)

\* With any status, IN_USE as well, and for the branch or for none of them.
CreateVehicleForAdmin(r, t, status, here) ==
    /\ vehicle[t].status = "ABSENT"
    /\ Start(r, [Idle EXCEPT !.step = "truckInsert", !.op = "add", !.v = t,
                             !.new = NewVehicle(status, "TRUCK", here)])

\* code is a unique path: the insert throws when another one came first.
InsertTruck(r) ==
    /\ req[r].step = "truckInsert"
    /\ vehicle' = [vehicle EXCEPT ![req[r].v] = IF @.status = "ABSENT" THEN req[r].new ELSE @]
    /\ Finish(r)
    /\ UNCHANGED <<user, assignment, application, disturbed>>

\* A handler that loads a truck and saves it as something else.
BeginVehicle(r, op, step, t, new) ==
    /\ vehicle[t].status # "ABSENT"
    /\ Start(r, [Idle EXCEPT !.step = step, !.op = op, !.v = t, !.new = new,
                             !.seen = Seen({t})])

\* The request names a branch, a status, both or neither.  One that names what
\* the truck has goes the way of one that does not name it: the code may refuse
\* it, and nothing is written either way.
UpdateVehicleForAdmin(r, t) ==
    \E here \in BOOLEAN, status \in Statuses \cup {vehicle[t].status} :
        BeginVehicle(r, "update", "vehicleCheck", t,
                     [vehicle[t] EXCEPT !.here = here, !.status = status])

DeactivateVehicleForAdmin(r, t) ==
    BeginVehicle(r, "retire", "vehicleCheck", t,
                 [vehicle[t] EXCEPT !.status = "INACTIVE", !.isActive = FALSE])

ActivateVehicleForAdmin(r, t) ==
    BeginVehicle(r, "activate", "vehicleSave", t,
                 [vehicle[t] EXCEPT !.isActive = TRUE,
                                    !.status = IF @ = "INACTIVE" THEN "AVAILABLE" ELSE @])

\* Mutation test: assigned vehicles are retired like any other.
RefusedUnlessMoved(op, assigned, old, new) ==
    CASE op = "retire" -> FALSE
      [] op # "retire" /\ assigned -> new.here # old.here \/ new.status # "IN_USE"
      [] OTHER -> new.status = "IN_USE" /\ old.status # "IN_USE"

\* Assigned vehicles stay where they are and in use; others cannot be in use.
Refused(op, assigned, old, new) ==
    CASE op = "retire" -> assigned
      [] op # "retire" /\ assigned ->
            new.here # old.here \/ (new.status # old.status /\ new.status # "IN_USE")
      [] OTHER -> new.status = "IN_USE" /\ old.status # "IN_USE"

\* The look for an active assignment comes after the vehicle was loaded.
VehicleCheck(r) ==
    LET q == req[r]
        assigned == ActiveFor(q.v) # {}
        new == IF assigned THEN [q.new EXCEPT !.status = "IN_USE"] ELSE q.new
    IN  /\ q.step = "vehicleCheck"
        /\ IF Refused(q.op, assigned, q.seen[q.v], q.new) THEN Finish(r)
           ELSE req' = [req EXCEPT ![r].step = "vehicleSave", ![r].new = new]
        /\ UNCHANGED <<user, vehicle, assignment, application, disturbed>>

VehicleSave(r) ==
    LET q == req[r]
    IN  /\ q.step = "vehicleSave"
        /\ vehicle' = [vehicle EXCEPT ![q.v] = Saved(@, q.seen[q.v], q.new)]
        /\ Finish(r)
        /\ UNCHANGED <<user, assignment, application, disturbed>>

-----------------------------------------------------------------------------
(* The branch owner assigns trucks to drivers                                *)

\* The assignments that handlers in flight may still make.
Planned == {r \in Requests : req[r].op \in {"assign", "approve"}}

RoomForAssignment == Len(assignment) + Cardinality(Planned) < MaxAssignments

\* A driver who may be inactive, and a truck of the branch that is available.
AssignVehicleToDriver(r, p, t, primary) ==
    /\ RoomForAssignment
    /\ user[p].role = "DRIVER"
    /\ vehicle[t].here /\ vehicle[t].isActive /\ vehicle[t].status = "AVAILABLE"
    /\ Start(r, [Idle EXCEPT !.step = "assignVehicle", !.op = "assign", !.p = p, !.v = t,
                             !.primary = primary, !.user = user[p],
                             !.seen = Seen({t})])

\* findOne: any one of the active assignments of the truck.
CheckTruckFree(r) ==
    LET q == req[r]
    IN  /\ q.step = "assignVehicle"
        /\ \/ ActiveFor(q.v) = {} /\ Goto(r, "assignCode")
           \/ \E i \in ActiveFor(q.v) :
                IF assignment[i].driverId = q.p THEN Goto(r, "assignCode") ELSE Finish(r)
        /\ UNCHANGED <<user, vehicle, assignment, application, disturbed>>

CheckCodeFree(r) ==
    LET q == req[r]
        using == {p \in People \ {q.p} :
                    user[p].role = "DRIVER" /\ user[p].isActive /\ user[p].code = q.v}
    IN  /\ q.step = "assignCode"
        /\ IF using = {} THEN Goto(r, "findCurrent") ELSE Finish(r)
        /\ UNCHANGED <<user, vehicle, assignment, application, disturbed>>

UnassignVehicle(r, p) ==
    /\ user[p].role = "DRIVER"
    /\ Start(r, [Idle EXCEPT !.step = "findCurrent", !.op = "unassign", !.p = p, !.user = user[p]])

DeactivateDriver(r, p) ==
    /\ user[p].role = "DRIVER"
    /\ Start(r, [Idle EXCEPT !.step = "findCurrent", !.op = "deactivate", !.p = p,
                             !.user = user[p]])

\* A city rider keeps the motorcycle.
DriverOwnedCityMotorcycle(v, p) == v = p /\ vehicle[v].type = "MOTORCYCLE"

\* Where it goes on with the current assignments of the driver.
AfterCurrent(q, current) ==
    CASE q.op = "assign" -> IF q.primary THEN "freePrevious" ELSE "driverSave"
      [] q.op # "assign" /\ current # {} -> "endNext"
      [] q.op = "deactivate" /\ current = {} -> "retireOwn"
      [] OTHER -> "idle"

\* The driver's active assignments, populated with their vehicles.
FindCurrent(r) ==
    LET q == req[r]
        current == ActiveOf(q.p)
        locked == \E i \in current : DriverOwnedCityMotorcycle(assignment[i].vehicleId, q.p)
        next == AfterCurrent(q, current)
        ended == IF q.op # "assign" THEN current
                 ELSE {i \in current : assignment[i].vehicleId \in Trucks \ {q.v}}
        found == Seen({assignment[i].vehicleId : i \in ended})
    IN  /\ q.step = "findCurrent"
        /\ IF next = "idle" \/ (q.op # "deactivate" /\ locked) THEN Finish(r)
           ELSE req' = [req EXCEPT ![r].step = next,
                                   ![r].todo = IF next = "driverSave" THEN {} ELSE ended,
                                   ![r].seen = [v \in Vehicles |->
                                        IF v = q.v THEN q.seen[v] ELSE found[v]]]
        /\ UNCHANGED <<user, vehicle, assignment, application, disturbed>>

\* Saves a status in a vehicle the handler had loaded.
SaveStatus(r, v, status) ==
    vehicle' = [vehicle EXCEPT ![v].status = Written(@, req[r].seen[v].status, status)]

FreePrevious(r) ==
    LET q == req[r]
    IN  /\ q.step = "freePrevious"
        /\ \/ q.todo = {} /\ Goto(r, "endDrivers") /\ UNCHANGED vehicle
           \/ \E i \in q.todo :
                /\ SaveStatus(r, assignment[i].vehicleId, "AVAILABLE")
                /\ req' = [req EXCEPT ![r].todo = @ \ {i}]
        /\ UNCHANGED <<user, assignment, application, disturbed>>

End(ended) ==
    assignment' = [i \in DOMAIN assignment |->
        IF i \in ended THEN [assignment[i] EXCEPT !.isActive = FALSE] ELSE assignment[i]]

\* Mutation test: only what the driver had of this truck ends.
EndDriversOfTruck(r) ==
    /\ req[r].step = "endDrivers"
    /\ End(ActiveOf(req[r].p) \cap ActiveFor(req[r].v))
    /\ Goto(r, "endTrucks")
    /\ UNCHANGED <<user, vehicle, application, disturbed>>

\* The two updateMany calls; nothing makes an ended assignment active again.
EndDrivers(r) ==
    /\ req[r].step = "endDrivers"
    /\ End(ActiveOf(req[r].p))
    /\ Goto(r, "endTrucks")
    /\ UNCHANGED <<user, vehicle, application, disturbed>>

EndTrucks(r) ==
    /\ req[r].step = "endTrucks"
    /\ End({i \in ActiveFor(req[r].v) : assignment[i].primary})
    /\ Goto(r, "driverSave")
    /\ UNCHANGED <<user, vehicle, application, disturbed>>

DriverSave(r) ==
    LET q == req[r]
        new == IF q.primary THEN [q.user EXCEPT !.code = q.v] ELSE q.user
    IN  /\ q.step = "driverSave"
        /\ user' = [user EXCEPT ![q.p] = Saved(@, q.user, new)]
        /\ Goto(r, "inUseSave")
        /\ UNCHANGED <<vehicle, assignment, application, disturbed>>

InUseSave(r) ==
    /\ req[r].step = "inUseSave"
    /\ SaveStatus(r, req[r].v, "IN_USE")
    /\ Goto(r, "assignInsert")
    /\ UNCHANGED <<user, assignment, application, disturbed>>

Assign(p, v, primary) ==
    assignment' = Append(assignment,
        [driverId |-> p, vehicleId |-> v, primary |-> primary, isActive |-> TRUE])

AssignInsert(r) ==
    LET q == req[r]
    IN  /\ q.step = "assignInsert"
        /\ Assign(q.p, q.v, q.primary)
        /\ Finish(r)
        /\ UNCHANGED <<user, vehicle, application, disturbed>>


-----------------------------------------------------------------------------
(* Assignments end, one by one, when a driver loses the trucks or leaves      *)

EndNext(r) ==
    LET q == req[r]
    IN  /\ q.step = "endNext"
        /\ \/ /\ q.todo = {}
              /\ Goto(r, IF q.op = "deactivate" THEN "retireOwn" ELSE "releaseSave")
              /\ UNCHANGED assignment
           \/ \E i \in q.todo :
                /\ End({i})
                /\ req' = [req EXCEPT ![r].step = "freeNext", ![r].todo = @ \ {i}, ![r].now = i]
        /\ UNCHANGED <<user, vehicle, application, disturbed>>

\* Mutation test: a status that the schema does not list.
RetiredUnlisted(doc) == [doc EXCEPT !.status = "RETIRED", !.isActive = FALSE]

Retired(doc) == [doc EXCEPT !.status = "INACTIVE", !.isActive = FALSE]

\* What becomes of the vehicle of an assignment that ended.
Released(op, v, doc) ==
    IF op = "deactivate" /\ v \in People THEN Retired(doc)
    ELSE IF op = "deactivate" \/ doc.isActive THEN [doc EXCEPT !.status = "AVAILABLE"] ELSE doc

FreeNext(r) ==
    LET q == req[r]
        v == assignment[q.now].vehicleId
    IN  /\ q.step = "freeNext"
        /\ vehicle' = [vehicle EXCEPT ![v] = Saved(@, q.seen[v], Released(q.op, v, q.seen[v]))]
        /\ req' = [req EXCEPT ![r].step = "endNext", ![r].now = 0]
        /\ UNCHANGED <<user, assignment, application, disturbed>>

RetireOwn(r) ==
    LET p == req[r].p
    IN  /\ req[r].step = "retireOwn"
        /\ vehicle' = [vehicle EXCEPT ![p] = IF @.isActive THEN Retired(@) ELSE @]
        /\ Goto(r, "releaseSave")
        /\ UNCHANGED <<user, assignment, application, disturbed>>

ReleaseSave(r) ==
    LET q == req[r]
        new == [q.user EXCEPT !.code = None, !.isActive = @ /\ q.op # "deactivate"]
    IN  /\ q.step = "releaseSave"
        /\ user' = [user EXCEPT ![q.p] = Saved(@, q.user, new)]
        /\ Finish(r)
        /\ UNCHANGED <<vehicle, assignment, application, disturbed>>

\* The owner types any code; it changes no assignment and no vehicle.
UpdateDriverVehicleType(r, p, code) ==
    /\ user[p].role = "DRIVER"
    /\ Start(r, [Idle EXCEPT !.step = "codeSave", !.op = "code", !.p = p, !.v = code,
                             !.user = user[p]])

CodeSave(r) ==
    LET q == req[r]
    IN  /\ q.step = "codeSave"
        /\ user' = [user EXCEPT ![q.p] = Saved(@, q.user, [q.user EXCEPT !.code = q.v])]
        /\ Finish(r)
        /\ UNCHANGED <<vehicle, assignment, application, disturbed>>

-----------------------------------------------------------------------------
(* People apply                                                              *)

Apply(r, a, p, own) ==
    /\ application[a].status = "ABSENT"
    /\ \A other \in Requests : req[other].a # a     \* a is a fresh id
    /\ Start(r, [Idle EXCEPT !.step = "applyCheck", !.op = "apply", !.p = p, !.a = a,
            !.form = [status |-> "PENDING", person |-> p, own |-> own, approved |-> FALSE,
                      applicant |-> user[p].role # "ABSENT"]])

\* Anyone whose e-mail and phone no account has.
Create(r, a, p, own) == user[p].role = "ABSENT" /\ Apply(r, a, p, own)

CreateForCurrentUser(r, a, p, own) ==
    /\ user[p].role = "CUSTOMER" /\ user[p].isActive
    /\ Apply(r, a, p, own)

\* Mutation test: a pending application does not stop another.
ApplyUnchecked(r) ==
    /\ req[r].step = "applyCheck"
    /\ Goto(r, "applyInsert")
    /\ UNCHANGED <<user, vehicle, assignment, application, disturbed>>

ApplyCheck(r) ==
    LET pending == {a \in Applications :
                      application[a].person = req[r].p /\ application[a].status = "PENDING"}
    IN  /\ req[r].step = "applyCheck"
        /\ IF pending = {} THEN Goto(r, "applyInsert") ELSE Finish(r)
        /\ UNCHANGED <<user, vehicle, assignment, application, disturbed>>

\* After the files were uploaded.
ApplyInsert(r) ==
    /\ req[r].step = "applyInsert"
    /\ application' = [application EXCEPT ![req[r].a] = req[r].form]
    /\ Finish(r)
    /\ UNCHANGED <<user, vehicle, assignment, disturbed>>

-----------------------------------------------------------------------------
(* The branch owner, or an administrator, reviews                            *)

Review(r, a, op, step, code) ==
    /\ application[a].status = "PENDING"
    /\ Start(r, [Idle EXCEPT !.step = step, !.op = op, !.a = a, !.p = application[a].person,
                             !.v = code, !.form = application[a]])

\* A driver with a vehicle of their own gets no truck; others may get the one named.
Approve(r, a, code) ==
    /\ RoomForAssignment
    /\ application[a].own # "NONE" => code = None
    /\ Review(r, a, "approve", "reviewUser", code)

\* The applicant is still a customer, or still has no account.
ReviewUser(r) ==
    LET q == req[r]
        expected == IF q.form.applicant THEN "CUSTOMER" ELSE "ABSENT"
    IN  /\ q.step = "reviewUser"
        /\ IF user[q.p].role # expected THEN Finish(r)
           ELSE req' = [req EXCEPT ![r].user = user[q.p],
                    ![r].step = IF q.form.applicant THEN "upgradeSave" ELSE "accountInsert"]
        /\ UNCHANGED <<user, vehicle, assignment, application, disturbed>>

Driver(code) == [role |-> "DRIVER", isActive |-> TRUE, code |-> code]

\* Where the approval goes on once the account is there.
AfterAccount(q) ==
    IF q.form.own # "NONE" THEN "ownInsert" ELSE IF q.v # None THEN "truckFind" ELSE "approveSave"

UpgradeSave(r) ==
    LET q == req[r]
    IN  /\ q.step = "upgradeSave"
        /\ user' = [user EXCEPT ![q.p] = Saved(@, q.user, Driver(q.v))]
        /\ Goto(r, AfterAccount(q))
        /\ UNCHANGED <<vehicle, assignment, application, disturbed>>

\* email and phone are unique paths: the insert throws when an account came first.
AccountInsert(r) ==
    LET q == req[r]
    IN  /\ q.step = "accountInsert"
        /\ IF user[q.p].role = "ABSENT"
           THEN user' = [user EXCEPT ![q.p] = Driver(q.v)] /\ Goto(r, AfterAccount(q))
           ELSE Finish(r) /\ UNCHANGED user
        /\ UNCHANGED <<vehicle, assignment, application, disturbed>>

\* Mutation test: the approval is saved before the vehicle is assigned.
AfterOwnInsertSaved(q) == "approveSave"

AfterOwnInsert(q) == "ownAssign"

\* Mutation test: the driver's vehicle is entered over the one there is.
OwnInsertAgain(r) ==
    LET q == req[r]
    IN  /\ q.step = "ownInsert"
        /\ vehicle' = [vehicle EXCEPT ![q.p] = NewVehicle("AVAILABLE", q.form.own, TRUE)]
        /\ Goto(r, AfterOwnInsert(q))
        /\ UNCHANGED <<user, assignment, application, disturbed>>

\* Its code holds the driver's id: the insert throws when there is one by now.
OwnInsert(r) ==
    LET q == req[r]
    IN  /\ q.step = "ownInsert"
        /\ IF vehicle[q.p].status = "ABSENT"
           THEN /\ vehicle' = [vehicle EXCEPT ![q.p] = NewVehicle("AVAILABLE", q.form.own, TRUE)]
                /\ Goto(r, AfterOwnInsert(q))
           ELSE Finish(r) /\ UNCHANGED vehicle
        /\ UNCHANGED <<user, assignment, application, disturbed>>

\* The code stays None, as the account has it: its save writes nothing.
OwnAssign(r) ==
    /\ req[r].step = "ownAssign"
    /\ Assign(req[r].p, req[r].p, TRUE)
    /\ Goto(r, "approveSave")
    /\ UNCHANGED <<user, vehicle, application, disturbed>>

TruckReady(doc) == doc.here /\ doc.isActive /\ doc.status = "AVAILABLE"

\* The account stays when the truck turns out to be missing or taken.
TruckFind(r) ==
    LET q == req[r]
    IN  /\ q.step = "truckFind"
        /\ IF TruckReady(vehicle[q.v])
           THEN req' = [req EXCEPT ![r].step = "truckAssign", ![r].seen[q.v] = vehicle[q.v]]
           ELSE Finish(r)
        /\ UNCHANGED <<user, vehicle, assignment, application, disturbed>>

TruckAssign(r) ==
    /\ req[r].step = "truckAssign"
    /\ Assign(req[r].p, req[r].v, TRUE)
    /\ Goto(r, "truckSave")
    /\ UNCHANGED <<user, vehicle, application, disturbed>>

TruckSave(r) ==
    /\ req[r].step = "truckSave"
    /\ SaveStatus(r, req[r].v, "IN_USE")
    /\ Goto(r, "approveSave")
    /\ UNCHANGED <<user, assignment, application, disturbed>>

ApproveSave(r) ==
    LET q == req[r]
        new == [q.form EXCEPT !.status = "APPROVED", !.approved = TRUE]
    IN  /\ q.step = "approveSave"
        /\ application' = [application EXCEPT ![q.a] = Saved(@, q.form, new)]
        /\ Finish(r)
        /\ UNCHANGED <<user, vehicle, assignment, disturbed>>

Reject(r, a) == Review(r, a, "reject", "rejectSave", None)

RejectSave(r) ==
    LET q == req[r]
        new == [q.form EXCEPT !.status = "REJECTED"]
    IN  /\ q.step = "rejectSave"
        /\ application' = [application EXCEPT ![q.a] = Saved(@, q.form, new)]
        /\ Finish(r)
        /\ UNCHANGED <<user, vehicle, assignment, disturbed>>

-----------------------------------------------------------------------------

\* The process dies with all its handlers.
Crash ==
    /\ ~Quiet
    /\ req' = [r \in Requests |-> Idle]
    /\ Disturb(TRUE)
    /\ UNCHANGED <<user, vehicle, assignment, application>>

Begin(r) ==
    \/ \E t \in Trucks :
        \/ \E status \in Statuses, here \in BOOLEAN : CreateVehicleForAdmin(r, t, status, here)
        \/ UpdateVehicleForAdmin(r, t)
        \/ DeactivateVehicleForAdmin(r, t)
        \/ ActivateVehicleForAdmin(r, t)
        \/ \E p \in People, primary \in BOOLEAN : AssignVehicleToDriver(r, p, t, primary)
    \/ \E p \in People :
        \/ UnassignVehicle(r, p)
        \/ DeactivateDriver(r, p)
        \/ \E code \in Codes : UpdateDriverVehicleType(r, p, code)
        \/ \E a \in Applications, own \in Own[p] :
            Create(r, a, p, own) \/ CreateForCurrentUser(r, a, p, own)
    \/ \E a \in Applications :
        \/ \E code \in Trucks \cup {None} : Approve(r, a, code)
        \/ Reject(r, a)

Continue(r) ==
    \/ InsertTruck(r) \/ VehicleCheck(r) \/ VehicleSave(r)
    \/ CheckTruckFree(r) \/ CheckCodeFree(r) \/ FindCurrent(r) \/ FreePrevious(r)
    \/ EndDrivers(r) \/ EndTrucks(r) \/ DriverSave(r) \/ InUseSave(r) \/ AssignInsert(r)
    \/ EndNext(r) \/ FreeNext(r) \/ RetireOwn(r) \/ ReleaseSave(r) \/ CodeSave(r)
    \/ ApplyCheck(r) \/ ApplyInsert(r)
    \/ ReviewUser(r) \/ UpgradeSave(r) \/ AccountInsert(r) \/ OwnInsert(r) \/ OwnAssign(r)
    \/ TruckFind(r) \/ TruckAssign(r) \/ TruckSave(r) \/ ApproveSave(r) \/ RejectSave(r)

\* History: from its insert as IN_USE until another status is saved in the truck.
KeepEntered ==
    entered' = {t \in Trucks : /\ vehicle'[t].status = "IN_USE"
                               /\ vehicle[t].status = "ABSENT" \/ t \in entered}

Next ==
    /\ Crash \/ \E r \in Requests : Begin(r) \/ Continue(r)
    /\ KeepEntered

Spec == Init /\ [][Next]_vars

-----------------------------------------------------------------------------
(* Properties                                                                *)

\* Handlers have run one at a time and to their end.
Calm == disturbed = 0

\* As long as handlers run one at a time, a company truck is IN_USE exactly when
\* an active assignment ties it to a driver, but for one that was entered as
\* IN_USE and that no assignment has from then on; an assigned truck is an
\* active one of the branch.  Assigning, replacing, unassigning, deactivating
\* and approving keep three collections in step
\* (assignVehicleToDriverForBranchOwner to deactivateDriverForBranchOwner, approve).
TrucksAccounted ==
    Calm /\ Quiet => \A t \in Trucks :
        /\ vehicle[t].status = "IN_USE" <=> ActiveFor(t) # {} \/ t \in entered
        /\ ActiveFor(t) # {} => vehicle[t].isActive /\ vehicle[t].here /\ t \notin entered

\* As long as handlers run one at a time, no truck is assigned twice and no
\* driver has two primary vehicles: no index keeps either, and assigning,
\* approving and the updateMany calls each look at one side of it.
AssignedOnce ==
    Calm /\ Quiet =>
        /\ \A t \in Trucks : Cardinality(ActiveFor(t)) <= 1
        /\ \A p \in People : Cardinality({i \in ActiveOf(p) : assignment[i].primary}) <= 1

\* However approvals race, a driver is tied to the vehicle of their own at most
\* once: the unique code stops the second approval before its assignment.
OwnVehicleOnce ==
    \A p \in People :
        Cardinality({i \in DOMAIN assignment :
            assignment[i].driverId = p /\ assignment[i].vehicleId = p}) <= 1

\* However reviews race and wherever the process dies, an APPROVED application
\* has its account, and an applicant with a vehicle of their own has had it
\* entered and assigned: the save of the approval comes last.
ApprovedIsComplete ==
    \A a \in Applications :
        LET form == application[a]
        IN  form.status = "APPROVED" =>
                /\ form.approved /\ user[form.person].role = "DRIVER"
                /\ form.own # "NONE" => \E i \in DOMAIN assignment :
                    assignment[i].driverId = form.person /\ assignment[i].vehicleId = form.person

\* One overlap of handlers never gets a person approved twice, whatever
\* approvals failed half-way: two applications must slip past each other's look
\* for a pending one, and two approvals past each other's look at the role.
ApprovedOnce ==
    disturbed <= 1 => \A p \in People :
        Cardinality({a \in Applications :
            application[a].person = p /\ application[a].status = "APPROVED"}) <= 1

=============================================================================
