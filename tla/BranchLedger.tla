----------------------------- MODULE BranchLedger -----------------------------
(***************************************************************************)
(* Branch-logistics tickets and the money they bring: the stages a ticket   *)
(* goes through, the revenue-sharing configuration in force, the wallets of *)
(* the branches and the company, and the wallets' transactions.             *)
(*   src/src/modules/branch-logistics/branch-logistics.service.ts           *)
(*   src/src/modules/branch-wallet/branch-wallet.service.ts                 *)
(*   src/src/modules/admin/revenue-sharing.service.ts                       *)
(*                                                                         *)
(* One HTTP request is one slot of req and suspends at every database call. *)
(* A wallet is read, changed in memory and saved with absolute values; the  *)
(* transaction that explains the change is a document of its own, written   *)
(* afterwards.  Promise.all runs several such updates of one handler at     *)
(* once: they are the jobs of its slot.                                     *)
(***************************************************************************)
EXTENDS BranchPricing, Sequences, FiniteSets, FiniteSetsExt, Functions

CONSTANTS
    Shipments,       \* ids of the tickets
    Branches,        \* the branches
    Company,         \* the key of the company's wallet
    Sender,          \* senderBranchId of each ticket
    Receiver,        \* receiverBranchId of each ticket
    Parcel,          \* weight, mode, extra fee and discount of each ticket
    Percent,         \* the percentages of each configuration version
    Opening,         \* the wallets that earlier tickets left
    Requests,        \* request slots
    None,            \* null
    Operations,      \* the operations clients call in this instance
    Sweeps,          \* the writes of dispatch receipts in this instance
    MaxVersions,     \* bound on the publishing of configurations
    MaxDebits,       \* bound on the reversals of one share
    MaxDisturbances  \* bound on what happens out of turn (see disturbed)

Accounts == Branches \cup {Company}

WalletDoc == [open : BOOLEAN, available : Int, pending : Int, credited : Int, debited : Int]

NoWallet == [open |-> FALSE, available |-> 0, pending |-> 0, credited |-> 0, debited |-> 0]

ASSUME LedgerAssumption ==
    /\ Company \notin Branches
    /\ Sweeps \subseteq {"link", "depart", "arrive", "unlink"}
    /\ Cent \in Nat \ {0}
    /\ IsFiniteSet(Shipments) /\ None \notin Shipments
    /\ Sender \in [Shipments -> Branches]
    /\ Receiver \in [Shipments -> Branches]
    /\ \A s \in Shipments : Sender[s] # Receiver[s]
    /\ Parcel \in [Shipments -> [kg : Nat, vip : BOOLEAN, extra : Int, discount : Int]]
    /\ \A s \in Shipments : Priceable(Parcel[s])
    /\ Percent \in [1..MaxVersions + 1 -> [SENDER : 0..100, RECEIVER : 0..100, COMPANY : 0..100]]
    /\ \A v \in DOMAIN Percent : Percent[v].SENDER + Percent[v].RECEIVER + Percent[v].COMPANY = 100
    /\ Opening \in [Accounts -> WalletDoc]
    /\ \A a \in Accounts :
        /\ Opening[a].available = Opening[a].credited - Opening[a].debited
        /\ ~Opening[a].open => Opening[a] = NoWallet
    /\ MaxVersions \in Nat /\ MaxDebits \in Nat /\ MaxDisturbances \in Nat

VARIABLES
    shipment,   \* the branch-logistics shipments collection
    swept,      \* what dispatch receipts have written to each ticket
    config,     \* the revenue-sharing configurations by version
    wallet,     \* the branch wallets and the company wallet
    tx,         \* the wallet transactions of each ticket and role
    req,        \* the suspended handlers
    disturbed   \* how often something happened out of turn: a handler started
                \* beside another, a receipt wrote beside a handler or a stage
                \* already passed, or the process crashed

vars == <<shipment, swept, config, wallet, tx, req, disturbed>>

-----------------------------------------------------------------------------
(* Documents                                                                *)

Stages == <<"CREATED", "ASSIGNED", "RECEIVED_AT_SENDER_WAREHOUSE", "IN_TRANSIT",
            "RECEIVED_AT_RECEIVER_WAREHOUSE", "READY_FOR_PICKUP", "COMPLETED", "CANCELLED">>

ShipmentDoc ==
    [status : {"ABSENT"} \cup Range(Stages),
     assigned : BOOLEAN,   \* assignedDriverId and assignedVehicleId are set
     stamps : SUBSET {"receivedAtReceiverWarehouseAt", "completedAt", "cancelledAt"}]

NoShipment == [status |-> "ABSENT", assigned |-> FALSE, stamps |-> {}]

\* Mutation test: the stamp of the express bookings.
DeliveryStamp(status) ==
    CASE status = "RECEIVED_AT_RECEIVER_WAREHOUSE" -> {"receivedAtReceiverWarehouseAt"}
      [] status = "COMPLETED" -> {"deliveredAt"}
      [] status = "CANCELLED" -> {"cancelledAt"}
      [] OTHER -> {}

Stamp(status) ==
    CASE status = "RECEIVED_AT_RECEIVER_WAREHOUSE" -> {"receivedAtReceiverWarehouseAt"}
      [] status = "COMPLETED" -> {"completedAt"}
      [] status = "CANCELLED" -> {"cancelledAt"}
      [] OTHER -> {}

Versions == DOMAIN Percent

Account(s, role) ==
    CASE role = "SENDER" -> Sender[s] [] role = "RECEIVER" -> Receiver[s] [] OTHER -> Company

\* A ticket has one PENDING credit for a role, which is POSTED or made VOID
\* later; credits made POSTED at once and debits are documents of their own.
TxDoc ==
    [status : {"ABSENT", "PENDING", "POSTED", "VOID"},
     amount : Int,
     direct : Seq(Int),
     debits : Seq(Int)]

NoTx == [status |-> "ABSENT", amount |-> 0, direct |-> <<>>, debits |-> <<>>]

\* The amounts of the POSTED credits of a ticket and role.
Posted(t) == (IF t.status = "POSTED" THEN <<t.amount>> ELSE <<>>) \o t.direct

\* What save() leaves in a path: only assigned paths that differ are written.
Written(current, loaded, assigned) == IF assigned = loaded THEN current ELSE assigned

-----------------------------------------------------------------------------
(* Suspended handlers                                                       *)

\* One wallet update: a transaction to insert (pend, credit, debit) or one that
\* was found to settle (post, void).  n tells the debits of one role apart.
Jobs ==
    [role : Roles,
     n : Nat,
     kind : {"pend", "credit", "post", "void", "debit"},
     amount : Int,
     at : {"load", "open", "save", "note"},
     seen : WalletDoc]     \* the wallet it loaded

NewJob(role, n, kind, amount) ==
    [role |-> role, n |-> n, kind |-> kind, amount |-> amount, at |-> "load", seen |-> NoWallet]

Steps ==
    {"idle", "insert", "assign", "save", "share", "default", "deactivate", "activate",
     "postedBranch", "postedCompany", "pendingBranch", "pendingCompany",
     "voidBranch", "voidCompany", "reverseBranch", "reverseCompany", "jobs"}

RequestState ==
    [step : Steps,
     op : {"none", "create", "assign", "stage", "complete", "cancel", "publish"},
     s : Shipments \cup {None},
     batch : SUBSET Shipments,    \* the tickets of a trip still to be saved
     status : {"ABSENT"} \cup Range(Stages),   \* the stage it moves the ticket to
     seen : ShipmentDoc,          \* the ticket it loaded
     version : {0} \cup Versions, \* the configuration version it loaded
     split : [Roles -> Int],      \* the shares it computed
     posted : BOOLEAN,            \* it found POSTED credits of branches
     jobs : SUBSET Jobs,          \* the wallet updates under way
     then : Steps]                \* where it goes on when they are done

Idle == [step |-> "idle", op |-> "none", s |-> None, batch |-> {}, status |-> "ABSENT",
         seen |-> NoShipment, version |-> 0, split |-> [role \in Roles |-> 0],
         posted |-> FALSE, jobs |-> {}, then |-> "idle"]

Quiet == \A r \in Requests : req[r] = Idle

\* Counts what happens out of turn, within the bound.
Disturb(outOfTurn) ==
    /\ disturbed' = disturbed + (IF outOfTurn THEN 1 ELSE 0)
    /\ disturbed' <= MaxDisturbances

Start(r, state) ==
    /\ req[r] = Idle
    /\ Disturb(~Quiet)
    /\ req' = [req EXCEPT ![r] = state]

Goto(r, step) == req' = [req EXCEPT ![r].step = step]
Finish(r) == req' = [req EXCEPT ![r] = Idle]

\* Go on with the jobs, if there are any, and then with a step.
Launch(r, jobs, then) ==
    IF jobs = {}
    THEN req' = [req EXCEPT ![r] = IF then = "idle" THEN Idle ELSE [@ EXCEPT !.step = then]]
    ELSE req' = [req EXCEPT ![r].step = "jobs", ![r].jobs = jobs, ![r].then = then]

TypeOK ==
    /\ shipment \in [Shipments -> ShipmentDoc]
    /\ swept \in [Shipments -> SUBSET Sweeps]
    /\ config \in [Versions -> {"ABSENT", "ACTIVE", "INACTIVE"}]
    /\ wallet \in [Accounts -> WalletDoc]
    /\ tx \in [Shipments -> [Roles -> TxDoc]]
    /\ req \in [Requests -> RequestState]
    /\ disturbed \in 0..MaxDisturbances

Init ==
    /\ shipment = [s \in Shipments |-> NoShipment]
    /\ swept = [s \in Shipments |-> {}]
    /\ config = [v \in Versions |-> "ABSENT"]
    /\ wallet = Opening
    /\ tx = [s \in Shipments |-> [role \in Roles |-> NoTx]]
    /\ req = [r \in Requests |-> Idle]
    /\ disturbed = 0

-----------------------------------------------------------------------------
(* The stages of a ticket                                                   *)

Exists(s) == shipment[s].status # "ABSENT"

\* createShipment: the parties and branches are checked before the insert.
BeginCreate(r, s) ==
    /\ "create" \in Operations
    /\ ~Exists(s)
    /\ \A q \in Requests : req[q].op # "create" \/ req[q].s # s
    /\ Start(r, [Idle EXCEPT !.step = "insert", !.op = "create", !.s = s])
    /\ UNCHANGED <<shipment, swept, config, wallet, tx>>

InsertShipment(r) ==
    /\ req[r].step = "insert"
    /\ shipment' = [shipment EXCEPT ![req[r].s].status = "CREATED"]
    /\ Goto(r, "share")
    /\ UNCHANGED <<swept, config, wallet, tx, disturbed>>

\* assignTripToDriver: all the tickets are loaded and checked, then saved in turn.
BeginAssign(r, batch) ==
    /\ "assign" \in Operations
    /\ batch # {}
    /\ \A s \in batch : shipment[s].status = "CREATED"
    /\ \A s, t \in batch : Sender[s] = Sender[t] /\ Receiver[s] = Receiver[t]
    /\ Start(r, [Idle EXCEPT !.step = "assign", !.op = "assign", !.batch = batch])
    /\ UNCHANGED <<shipment, swept, config, wallet, tx>>

SaveAssigned(r, s) ==
    /\ req[r].step = "assign"
    /\ s \in req[r].batch
    /\ shipment' = [shipment EXCEPT ![s].status = "ASSIGNED", ![s].assigned = TRUE]
    /\ IF req[r].batch = {s} THEN Finish(r)
       ELSE req' = [req EXCEPT ![r].batch = @ \ {s}]
    /\ UNCHANGED <<swept, config, wallet, tx, disturbed>>

\* A handler that loads the ticket and saves it in another stage.
BeginStage(r, s, op, guard, status) ==
    /\ op \in Operations
    /\ guard
    /\ Start(r, [Idle EXCEPT !.step = "save", !.op = op, !.s = s, !.status = status,
                             !.seen = shipment[s]])
    /\ UNCHANGED <<shipment, swept, config, wallet, tx>>

Collectable(doc) == doc.status = "ASSIGNED" \/ (doc.status = "CREATED" /\ doc.assigned)

\* The branches' handlers; findShipmentForBranch lets both branches in.
ReceiveAtSenderWarehouse(r, s) ==
    BeginStage(r, s, "stage", Collectable(shipment[s]), "RECEIVED_AT_SENDER_WAREHOUSE")

DispatchShipment(r, s) ==
    BeginStage(r, s, "stage",
               shipment[s].status = "RECEIVED_AT_SENDER_WAREHOUSE" /\ shipment[s].assigned,
               "IN_TRANSIT")

ReceiveAtDestinationWarehouse(r, s) ==
    BeginStage(r, s, "stage", shipment[s].status = "IN_TRANSIT", "RECEIVED_AT_RECEIVER_WAREHOUSE")

MarkReadyForPickup(r, s) ==
    BeginStage(r, s, "stage", shipment[s].status = "RECEIVED_AT_RECEIVER_WAREHOUSE",
               "READY_FOR_PICKUP")

\* Mutation test: a ticket is completed without being received.
CompleteInTransit(r, s) ==
    BeginStage(r, s, "complete", shipment[s].status \in {"READY_FOR_PICKUP", "IN_TRANSIT"},
               "COMPLETED")

CompleteShipment(r, s) ==
    BeginStage(r, s, "complete",
               shipment[s].status \in {"READY_FOR_PICKUP", "RECEIVED_AT_RECEIVER_WAREHOUSE"},
               "COMPLETED")

\* The second conjunct is the bound: a ticket can be cancelled again and again.
CancelShipment(r, s) ==
    /\ BeginStage(r, s, "cancel", Exists(s) /\ shipment[s].status # "COMPLETED", "CANCELLED")
    /\ \A role \in Roles : Len(tx[s][role].debits) < MaxDebits

\* The driver's handlers; findShipmentForDriver wants an assigned ticket.
CollectAssignedShipmentForDriver(r, s) ==
    BeginStage(r, s, "stage", shipment[s].assigned /\ Collectable(shipment[s]),
               "RECEIVED_AT_SENDER_WAREHOUSE")

DispatchAssignedShipmentForDriver(r, s) ==
    BeginStage(r, s, "stage",
               shipment[s].assigned /\ shipment[s].status = "RECEIVED_AT_SENDER_WAREHOUSE",
               "IN_TRANSIT")

ArriveAssignedShipmentForDriver(r, s) ==
    BeginStage(r, s, "stage", shipment[s].assigned /\ shipment[s].status = "IN_TRANSIT",
               "RECEIVED_AT_RECEIVER_WAREHOUSE")

\* What comes after shipment.save().
AfterSave(op) == CASE op = "complete" -> "share" [] op = "cancel" -> "voidBranch" [] OTHER -> "idle"

SaveStage(r) ==
    LET q == req[r]
    IN  /\ q.step = "save"
        /\ shipment' = [shipment EXCEPT
               ![q.s].status = Written(@, q.seen.status, q.status),
               ![q.s].stamps = @ \cup Stamp(q.status)]
        /\ Launch(r, {}, AfterSave(q.op))
        /\ UNCHANGED <<swept, config, wallet, tx, disturbed>>

-----------------------------------------------------------------------------
(* What dispatch receipts write to their tickets, with updateMany            *)

SweepStatus(kind) ==
    CASE kind = "link" -> "ASSIGNED"
      [] kind = "depart" -> "IN_TRANSIT"
      [] kind = "arrive" -> "RECEIVED_AT_RECEIVER_WAREHOUSE"
      [] kind = "unlink" -> "CREATED"

Rank(status) == CHOOSE i \in DOMAIN Stages : Stages[i] = status

\* A ticket's receipt is made, departs, arrives or is cancelled.  The filters are
\* the ids alone: a sweep that comes late finds any stage.  The second conjunct
\* is the bound: one receipt for each ticket.
ReceiptSweep(s, kind) ==
    LET status == SweepStatus(kind)
        inTurn == Quiet /\ IF kind = "unlink" THEN shipment[s].status = "ASSIGNED"
                           ELSE Rank(shipment[s].status) < Rank(status)
    IN  /\ Exists(s)
        /\ kind \notin swept[s]
        /\ kind # "link" => "link" \in swept[s]
        /\ Disturb(~inTurn)
        /\ swept' = [swept EXCEPT ![s] = @ \cup {kind}]
        /\ shipment' = [shipment EXCEPT ![s].status = status,
                                        ![s].assigned = kind # "unlink" /\ (@ \/ kind = "link"),
                                        ![s].stamps = @ \cup Stamp(status)]
        /\ UNCHANGED <<config, wallet, tx, req>>

-----------------------------------------------------------------------------
(* The revenue-sharing configuration                                        *)

Active == {v \in Versions : config[v] = "ACTIVE"}
Published == {v \in Versions : config[v] # "ABSENT"}
Publishers == {r \in Requests : req[r].op = "publish"}

\* What a handler does with the configuration it got: createShipment makes the
\* pending shares, completeShipment settles, createNewVersion replaces it.
WithConfig(r, v) ==
    LET q == req[r]
    IN  IF q.op = "publish"
        THEN req' = [req EXCEPT ![r].step = "deactivate", ![r].version = v]
        ELSE \E split \in Splits(CalculatePrice(Parcel[q.s]), Percent[v]) :
                IF q.op = "create"
                THEN Launch(r, {NewJob(role, 0, "pend", split[role]) : role \in Roles}, "idle")
                ELSE req' = [req EXCEPT ![r].step = "postedBranch", ![r].split = split]

\* getCurrentConfig.
GetCurrentConfig(r) ==
    /\ req[r].step = "share"
    /\ IF Active = {} THEN Goto(r, "default") ELSE WithConfig(r, Max(Active))
    /\ UNCHANGED <<shipment, swept, config, wallet, tx, disturbed>>

\* version is a unique path: the insert throws when there is a version 1.
CreateDefaultConfig(r) ==
    /\ req[r].step = "default"
    /\ IF config[1] = "ABSENT"
       THEN config' = [config EXCEPT ![1] = "ACTIVE"] /\ WithConfig(r, 1)
       ELSE UNCHANGED config /\ Finish(r)
    /\ UNCHANGED <<shipment, swept, wallet, tx, disturbed>>

\* createNewVersion, from its validation to getCurrentConfig.  The second
\* conjunct bounds the versions.
CreateNewVersion(r) ==
    /\ "publish" \in Operations
    /\ Cardinality(Published) + Cardinality(Publishers) < MaxVersions
    /\ Start(r, [Idle EXCEPT !.step = "share", !.op = "publish"])
    /\ UNCHANGED <<shipment, swept, config, wallet, tx>>

\* Mutation test: no version is retired.
KeepVersions(r) ==
    /\ req[r].step = "deactivate"
    /\ Goto(r, "activate")
    /\ UNCHANGED <<shipment, swept, config, wallet, tx, disturbed>>

DeactivateVersions(r) ==
    /\ req[r].step = "deactivate"
    /\ config' = [v \in Versions |-> IF v \in Active THEN "INACTIVE" ELSE config[v]]
    /\ Goto(r, "activate")
    /\ UNCHANGED <<shipment, swept, wallet, tx, disturbed>>

\* Mutation test: the new version waits for an activation of its own.
InsertInactiveVersion(r) ==
    LET next == req[r].version + 1
    IN  /\ req[r].step = "activate"
        /\ config' = [config EXCEPT ![next] = IF @ = "ABSENT" THEN "INACTIVE" ELSE @]
        /\ Finish(r)
        /\ UNCHANGED <<shipment, swept, wallet, tx, disturbed>>

InsertVersion(r) ==
    LET next == req[r].version + 1
    IN  /\ req[r].step = "activate"
        /\ config' = [config EXCEPT ![next] = IF @ = "ABSENT" THEN "ACTIVE" ELSE @]
        /\ Finish(r)
        /\ UNCHANGED <<shipment, swept, wallet, tx, disturbed>>

-----------------------------------------------------------------------------
(* Which transactions a handler settles                                     *)

BranchRoles == {"SENDER", "RECEIVER"}

Pending(s, roles) == {role \in roles : tx[s][role].status = "PENDING"}

Settle(s, roles, kind) == {NewJob(role, 0, kind, tx[s][role].amount) : role \in Pending(s, roles)}

Debits(s, role) ==
    LET amounts == Posted(tx[s][role])
    IN  {NewJob(role, n, "debit", amounts[n]) : n \in DOMAIN amounts}

HasPosted(s, roles) == \E role \in roles : Posted(tx[s][role]) # <<>>

\* createShipmentRevenueTransactions looks for POSTED credits first.
FindPosted(r) ==
    LET q == req[r]
    IN  /\ \/ /\ q.step = "postedBranch"
              /\ req' = [req EXCEPT ![r].posted = HasPosted(q.s, BranchRoles),
                                    ![r].step = "postedCompany"]
           \/ /\ q.step = "postedCompany"
              /\ IF q.posted /\ HasPosted(q.s, {"COMPANY"}) THEN Finish(r)
                 ELSE Goto(r, "pendingBranch")
        /\ UNCHANGED <<shipment, swept, config, wallet, tx, disturbed>>

\* Mutation test: the company's credit is forgotten.
FindBranchPending(r) ==
    LET q == req[r]
    IN  /\ \/ /\ q.step = "pendingBranch"
              /\ req' = [req EXCEPT ![r].jobs = Settle(q.s, BranchRoles, "post"),
                                    ![r].step = "pendingCompany"]
           \/ /\ q.step = "pendingCompany"
              /\ Launch(r, q.jobs, "idle")
        /\ UNCHANGED <<shipment, swept, config, wallet, tx, disturbed>>

\* It posts the PENDING ones, or credits everybody when there is none.
FindPending(r) ==
    LET q == req[r]
        jobs == q.jobs \cup Settle(q.s, {"COMPANY"}, "post")
        credits == {NewJob(role, 0, "credit", q.split[role]) : role \in Roles}
    IN  /\ \/ /\ q.step = "pendingBranch"
              /\ req' = [req EXCEPT ![r].jobs = Settle(q.s, BranchRoles, "post"),
                                    ![r].step = "pendingCompany"]
           \/ /\ q.step = "pendingCompany"
              /\ Launch(r, IF jobs = {} THEN credits ELSE jobs, "idle")
        /\ UNCHANGED <<shipment, swept, config, wallet, tx, disturbed>>

\* voidShipmentPendingTransactions: the branches' credits, then the company's.
FindVoid(r) ==
    LET q == req[r]
    IN  /\ \/ q.step = "voidBranch" /\ Launch(r, Settle(q.s, BranchRoles, "void"), "voidCompany")
           \/ q.step = "voidCompany" /\ Launch(r, Settle(q.s, {"COMPANY"}, "void"), "reverseBranch")
        /\ UNCHANGED <<shipment, swept, config, wallet, tx, disturbed>>

\* reverseShipmentRevenueTransactions; nothing reads the mark it leaves.
FindReversed(r) ==
    LET q == req[r]
    IN  /\ \/ /\ q.step = "reverseBranch"
              /\ IF HasPosted(q.s, BranchRoles)
                 THEN Launch(r, UNION {Debits(q.s, role) : role \in BranchRoles}, "reverseCompany")
                 ELSE Finish(r)
           \/ /\ q.step = "reverseCompany"
              /\ Launch(r, {j \in Debits(q.s, "COMPANY") : j.n = 1}, "idle")
        /\ UNCHANGED <<shipment, swept, config, wallet, tx, disturbed>>

-----------------------------------------------------------------------------
(* Updating a wallet                                                        *)

\* Promise.all lets jobs overlap.  Posting loads the branches' wallets together
\* and saves one credit after the other, the company's last; voiding handles
\* one credit after the other.
Turn(q, j) ==
    LET others == q.jobs \ {j}
        branches == {k \in others : k.role # "COMPANY"}
    IN  CASE j.kind = "post" ->
               IF j.role = "COMPANY" THEN branches = {}
               ELSE j.at = "save" => \A k \in branches : k.at = "save"
          [] j.kind = "void" -> \A k \in others : k.at = "load"
          [] OTHER -> TRUE

Replace(r, j, k) == req' = [req EXCEPT ![r].jobs = (@ \ {j}) \cup {k}]

\* A job is over; when it was the last, the handler goes on.
EndJob(r, j) ==
    IF req[r].jobs # {j} THEN req' = [req EXCEPT ![r].jobs = @ \ {j}]
    ELSE IF req[r].then = "idle" THEN Finish(r)
    ELSE req' = [req EXCEPT ![r].jobs = {}, ![r].step = req[r].then]

AtLeastZero(x) == IF x > 0 THEN x ELSE 0

Pend(w, amount) == [w EXCEPT !.pending = @ + amount]
Credit(w, amount) == [w EXCEPT !.available = @ + amount, !.credited = @ + amount]

\* Mutation test: the pending balance is left alone.
PostOnTop(w, amount) == Credit(w, amount)

Post(w, amount) == [Credit(w, amount) EXCEPT !.pending = AtLeastZero(@ - amount)]
Void(w, amount) == [w EXCEPT !.pending = AtLeastZero(@ - amount)]
Debit(w, amount) ==
    [w EXCEPT !.available = AtLeastZero(@ - amount), !.debited = @ + amount]

Moved(w, kind, amount) ==
    CASE kind = "pend" -> Pend(w, amount) [] kind = "credit" -> Credit(w, amount)
      [] kind = "post" -> Post(w, amount) [] kind = "void" -> Void(w, amount)
      [] kind = "debit" -> Debit(w, amount)

\* The document after save() of a wallet that was loaded as seen.
Saved(w, seen, moved) == [path \in DOMAIN w |-> Written(w[path], seen[path], moved[path])]

Entered(t, kind, amount) ==
    CASE kind = "pend" -> [t EXCEPT !.status = "PENDING", !.amount = amount]
      [] kind = "credit" -> [t EXCEPT !.direct = Append(@, amount)]
      [] kind = "post" -> [t EXCEPT !.status = "POSTED"]
      [] kind = "void" -> [t EXCEPT !.status = "VOID"]
      [] kind = "debit" -> [t EXCEPT !.debits = Append(@, amount)]

\* Settling jobs are collected before the first of them runs.
Running(r, j) == req[r].step = "jobs" /\ j \in req[r].jobs

JobAccount(r, j) == Account(req[r].s, j.role)

\* getOrCreateWallet and getOrCreateCompanyWallet.
LoadWallet(r, j) ==
    LET w == wallet[JobAccount(r, j)]
    IN  /\ Running(r, j) /\ j.at = "load" /\ Turn(req[r], j)
        /\ Replace(r, j, IF w.open THEN [j EXCEPT !.at = "save", !.seen = w]
                         ELSE [j EXCEPT !.at = "open"])
        /\ UNCHANGED <<shipment, swept, config, wallet, tx, disturbed>>

\* branchId and walletKey are unique paths: the second insert throws.
OpenWallet(r, j) ==
    LET a == JobAccount(r, j)
    IN  /\ Running(r, j) /\ j.at = "open"
        /\ IF wallet[a].open THEN EndJob(r, j) /\ UNCHANGED wallet
           ELSE /\ wallet' = [wallet EXCEPT ![a].open = TRUE]
                /\ Replace(r, j, [j EXCEPT !.at = "save", !.seen = wallet'[a]])
        /\ UNCHANGED <<shipment, swept, config, tx, disturbed>>

SaveWallet(r, j) ==
    LET a == JobAccount(r, j)
    IN  /\ Running(r, j) /\ j.at = "save" /\ Turn(req[r], j)
        /\ wallet' = [wallet EXCEPT ![a] = Saved(@, j.seen, Moved(j.seen, j.kind, j.amount))]
        /\ Replace(r, j, [j EXCEPT !.at = "note", !.seen = NoWallet])
        /\ UNCHANGED <<shipment, swept, config, tx, disturbed>>

EnterTransaction(r, j) ==
    LET s == req[r].s
    IN  /\ Running(r, j) /\ j.at = "note"
        /\ tx' = [tx EXCEPT ![s][j.role] = Entered(@, j.kind, j.amount)]
        /\ EndJob(r, j)
        /\ UNCHANGED <<shipment, swept, config, wallet, disturbed>>

-----------------------------------------------------------------------------
Crash ==
    /\ ~Quiet
    /\ Disturb(TRUE)
    /\ req' = [r \in Requests |-> Idle]
    /\ UNCHANGED <<shipment, swept, config, wallet, tx>>

\* The steps of a handler after its first.
Continue(r) ==
    \/ InsertShipment(r) \/ SaveStage(r)
    \/ \E s \in req[r].batch : SaveAssigned(r, s)
    \/ GetCurrentConfig(r) \/ CreateDefaultConfig(r)
    \/ DeactivateVersions(r) \/ InsertVersion(r)
    \/ FindPosted(r) \/ FindPending(r) \/ FindVoid(r) \/ FindReversed(r)
    \/ \E j \in req[r].jobs :
        LoadWallet(r, j) \/ OpenWallet(r, j) \/ SaveWallet(r, j) \/ EnterTransaction(r, j)

Begin(r) ==
    \/ CreateNewVersion(r)
    \/ \E batch \in SUBSET Shipments : BeginAssign(r, batch)
    \/ \E s \in Shipments :
        \/ BeginCreate(r, s)
        \/ ReceiveAtSenderWarehouse(r, s) \/ CollectAssignedShipmentForDriver(r, s)
        \/ DispatchShipment(r, s) \/ DispatchAssignedShipmentForDriver(r, s)
        \/ ReceiveAtDestinationWarehouse(r, s) \/ ArriveAssignedShipmentForDriver(r, s)
        \/ MarkReadyForPickup(r, s) \/ CompleteShipment(r, s) \/ CancelShipment(r, s)

Next ==
    \/ \E r \in Requests : Begin(r) \/ Continue(r)
    \/ \E s \in Shipments, kind \in Sweeps : ReceiptSweep(s, kind)
    \/ Crash

\* Some handler that was not cut off goes on: Node.js resumes it when the
\* database has answered.  Nobody has to call anything.
Fairness == WF_vars(\E r \in Requests : Continue(r))

Spec == Init /\ [][Next]_vars /\ Fairness

-----------------------------------------------------------------------------
(* Properties                                                               *)

\* Handlers ran one at a time, receipts wrote in turn, and nothing crashed.
Calm == disturbed = 0

Entries(a) == {e \in Shipments \X Roles : Account(e[1], e[2]) = a}

\* What a ticket and role add to a wallet.
PendingOf(t) == IF t.status = "PENDING" THEN t.amount ELSE 0
PostedOf(t) == (IF t.status = "POSTED" THEN t.amount ELSE 0) + SumFunction(t.direct)

Pendings == [e \in Shipments \X Roles |-> PendingOf(tx[e[1]][e[2]])]
Postings == [e \in Shipments \X Roles |-> PostedOf(tx[e[1]][e[2]])]
Reversals == [e \in Shipments \X Roles |-> SumFunction(tx[e[1]][e[2]].debits)]

PendingTotal(a) == SumFunctionOnSet(Pendings, Entries(a))
PostedTotal(a) == SumFunctionOnSet(Postings, Entries(a))
DebitTotal(a) == SumFunctionOnSet(Reversals, Entries(a))

\* Rounding can leave the company less than nothing where its percentage is
\* next to nothing; then the clamps at zero make up cents.
NoNegativeShare ==
    /\ \A s \in Shipments, v \in Versions :
        \A split \in Splits(CalculatePrice(Parcel[s]), Percent[v]) :
            \A role \in Roles : split[role] >= 0
    /\ \A a \in Accounts : Opening[a].pending >= 0

\* As long as handlers run one at a time, between two of them each wallet has
\* moved by what its transactions add up to: absolute saves, the clamps at zero
\* and transactions written after their wallet lose no cent.
BooksBalance ==
    Calm /\ Quiet => \A a \in Accounts :
        /\ wallet[a].pending = Opening[a].pending + PendingTotal(a)
        /\ wallet[a].credited = Opening[a].credited + PostedTotal(a)
        /\ wallet[a].debited = Opening[a].debited + DebitTotal(a)
        /\ wallet[a].available = wallet[a].credited - wallet[a].debited

\* However handlers interleave, crash or meet late receipts: money is posted
\* only for a ticket that reached its destination and was completed, and a
\* pending share is made void only for one that was cancelled.
SettledWithCause ==
    \A s \in Shipments, role \in Roles :
        /\ Posted(tx[s][role]) # <<>> =>
            {"receivedAtReceiverWarehouseAt", "completedAt"} \subseteq shipment[s].stamps
        /\ tx[s][role].status = "VOID" => "cancelledAt" \in shipment[s].stamps

\* The three shares made for a ticket, each rounded by itself, add up to its
\* price rounded once to a nearest cent, whatever the configuration in force:
\* to the price itself whenever that is a whole number of cents.
SharesAddUp ==
    \A s \in Shipments :
        (\A role \in Roles : tx[s][role].status # "ABSENT") =>
            Rounds(CalculatePrice(Parcel[s]), Cent,
                   tx[s]["SENDER"].amount + tx[s]["RECEIVER"].amount + tx[s]["COMPANY"].amount)

\* However publishers and the default's creation interleave, the unique version
\* number leaves at most one configuration active.
OneActiveVersion == Cardinality(Active) <= 1

\* As long as handlers run one at a time, a configuration is in force whenever
\* one was ever made: no publisher leaves createShipment without a share.
ConfigInForce == Calm /\ Quiet /\ Published # {} => Active # {}

\* As long as handlers run one at a time, a completed ticket's money reaches all
\* three wallets: completeShipment saves COMPLETED long before it pays.
CompletedIsPaid ==
    \A s \in Shipments :
        shipment[s].status = "COMPLETED" ~>
            (Calm => \A role \in Roles : Posted(tx[s][role]) # <<>>)

=============================================================================
